SPECIFICATION Spec
CONSTANTS
  User = {u1, u2}
  NoUser = NoUser
  MaxConn = 3
  MaxPlay = 2
  MaxOut = 2
  MaxIn = 2
CHECK_DEADLOCK FALSE
INVARIANTS PublisherAgreed OnePublisher PlayTakesEffect
PROPERTY NeverShownWhilePublishing
