CONSTANT Sources <- MCSources
SPECIFICATION TranslateSpec
INVARIANTS TranslateTypeOK RegistersInFrame JumpsLand DefinitionsHold
CHECK_DEADLOCK FALSE
