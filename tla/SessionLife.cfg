SPECIFICATION FairSpec
CONSTANTS
  Wsi = {w1, w2}
  User = {u1, u2}
  NoUser = NoUser
  Num = {1}
  Ghosts = FALSE
  Kinds <- LifeKinds
PROPERTIES AtMostOneController ClearIsAskedFor AbandonedEnds HeartbeatReaches
