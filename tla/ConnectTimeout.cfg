SPECIFICATION Spec
CONSTANTS
  Retries = 3
  MaxSent = 2
PROPERTY TimeoutNotConnected
