CONSTANTS
  Programs <- Samples
  Sources <- MCSources
  Entries = {"register", "stack"}
SPECIFICATION Spec
INVARIANTS TypeOK  RetriedCallsFail OperandsSuffice NothingLeftBehind RegistersAreMirrored RegistersSuffice
PROPERTY Ends
