SPECIFICATION FairSpec
CONSTANTS
  Stmts <- MCStmts
  Names <- MCNames
  Callees <- MCCallees
  Depth = 3
  Modules <- MCModules
  Files <- MCFiles
  Builtins <- MCBuiltins
  Dynamic <- MCDynamic
INVARIANTS
  NothingStronger
  NothingWeaker
  PreludeClosed
  NothingExtra
PROPERTY Decided
CHECK_DEADLOCK FALSE
