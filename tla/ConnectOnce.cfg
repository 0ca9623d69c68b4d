SPECIFICATION FairSpec
CONSTANTS
  Retries = 3
  MaxSent = 2
INVARIANTS BelievesRight Introduces Announced
PROPERTIES MadeAgain DeleteEnds
