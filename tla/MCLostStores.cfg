CONSTANTS
  Programs <- LostStores
  Sources <- MCSources
  Entries = {"register"}
SPECIFICATION Spec
INVARIANT OutcomeAsMeant
