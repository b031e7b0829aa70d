SPECIFICATION Spec
CONSTANTS
  Usages = {"direct"}
  MaxOpens = 2
  MaxPlays = 1
  MaxLoads = 0
  CreateFails = FALSE
INVARIANT RenderersFreedOnce
CHECK_DEADLOCK FALSE
