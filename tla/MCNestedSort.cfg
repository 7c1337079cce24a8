SPECIFICATION SortSpec
CONSTANTS
  Keys <- MCKeys
  Number <- MCNumber
  Decimal <- MCDecimal
  Hash <- MCHash
  Values = {v, w}
  None = None
  InitialBuckets = 4
  Address = {1, 2, 3}
  NULL = NULL
  SortValues = {1, 2}
  MaxChanges = 2
  MaxDepth = 2
PROPERTIES
  SortedCopy
