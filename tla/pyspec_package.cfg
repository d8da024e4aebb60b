SPECIFICATION Spec
CONSTANTS
  Modules <- MCModules
  Packages <- MCPackages
  Names <- MCNames
  TextsOf <- MCTextsOf
  Requests <- MCRequests
  MaxDepth = 4
  MaxTime = 2
  MaxEdits = 1
  MaxRuns = 2
CHECK_DEADLOCK FALSE
PROPERTIES
  SuccessIsCurrent
