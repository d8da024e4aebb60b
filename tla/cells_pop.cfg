CONSTANTS
  vx = vx
  vy = vy
  num = num
  A = A
  B = B
  Unbound = Unbound
  NoState = NoState
  Vars <- VarsDef
  Scalars <- ScalarsDef
  Sites <- SitesDef
  MaxObjs = 3
  MaxLen = 2
  MaxSteps = 6
  Vocabularies <- PopTwice
SPECIFICATION Spec
CHECK_DEADLOCK FALSE
INVARIANT OutcomesContained
