SPECIFICATION Spec
CONSTANTS
  Interp = {main}
  Global = {context, x, y}
  Context = context
  Function = {f}
  Code <- MCCode
  Value = {none, v}
  None = none
  MaxDepth = 2
  MaxVersion = 2
  Crossing = FALSE
SYMMETRY Symmetry
INVARIANTS ChunkTypeOK LoadsNamedGlobal SlotsMirrorGlobals SameCallee
