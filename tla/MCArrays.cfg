SPECIFICATION Spec
CONSTANTS
  Keys <- MCKeys
  Number <- MCNumber
  Decimal <- MCDecimal
  Hash <- MCHash
  v = v
  w = w
  Values = {v, w}
  None = None
  InitialBuckets = 4
  Address = {a1, a2, a3, a4}
  NULL = NULL
SYMMETRY Symmetry
INVARIANTS
  TypeOK
  IndexInStep
PROPERTIES
  ListsStayLists
  
