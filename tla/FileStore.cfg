CONSTANTS
  Callers = {c1, c2}
  Users = {u1, u2}
  Keys = {k1, k2}
  None = None
  MaxRows = 3
SPECIFICATION Spec
SYMMETRY FileSymmetry
INVARIANT IInv
INVARIANT NoFileLeftBehind
INVARIANT FilesOutliveReferences
PROPERTY NothingLeftToCascade
CHECK_DEADLOCK FALSE
