CONSTANTS
  Methods = {"m1", "m2"}
  MakesFile <- MCMakesFile
  Versions = {"3.12.11", "3.12.12"}
  Shipped = "3.12.11"
  Flags <- MCFlags
  InterpretCodes = {0, 2}
  Workers = 2
SPECIFICATION FairSpec
INVARIANTS OwnArtifacts PlannedAccounted LoweringJudgedAlone HelpersOfVersion
PROPERTIES RegressionFails ImplementsGate RunEnds
CHECK_DEADLOCK FALSE
