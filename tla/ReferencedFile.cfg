CONSTANTS
  Callers = {c1, c2}
  Users = {u1}
  Keys = {k1}
  None = None
  MaxRows = 2
SPECIFICATION Spec
INVARIANT ReferencedFileStored
CHECK_DEADLOCK FALSE
