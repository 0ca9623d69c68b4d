SPECIFICATION Spec
CONSTANTS
  Wsi = {w1}
  User = {u1}
  NoUser = NoUser
  Num = {1}
  Ghosts = FALSE
  Kinds <- RoleKinds
PROPERTY TimeoutWithoutPublisher
