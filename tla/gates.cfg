SPECIFICATION Spec
CONSTANTS
  Programs <- MCPrograms
  PrecisionOnly = {"comp"}
  Manifest = {"violation", "dispatch"}
  Checkouts <- MCCheckouts
  MaxEdits = 1
  MaxCommands = 3
  MaxKills = 1
CHECK_DEADLOCK FALSE
INVARIANTS GreenIsCurrent LogsOfThisRun
PROPERTIES BlessedWhole
