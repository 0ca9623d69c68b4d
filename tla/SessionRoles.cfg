SPECIFICATION Spec
CONSTANTS
  Wsi = {w1, w2, w3}
  User = {u1, u2}
  NoUser = NoUser
  Num = {1}
  Ghosts = TRUE
  Kinds <- RoleKinds
VIEW Tables
SYMMETRY Symmetric
INVARIANT ConnsMatchSockets
PROPERTY KeepsRoster
