SPECIFICATION Spec
CONSTANTS
  Env = {e1, e2, e3, e4}
  Arr = {a1}
  Fun = {f1, f2}
  NoObj = NoObj
  Gone = Gone
  Code = {lambda, g}
  Named = {g}
  NoCode = NoCode
  MaxFrames = 4
SYMMETRY Symmetry
CONSTRAINT Bounds
INVARIANTS TypeOK NoDangling CallersAreParents NoStaleCallSite
CHECK_DEADLOCK FALSE
