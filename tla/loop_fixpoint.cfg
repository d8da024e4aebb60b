CONSTANTS
  xs = xs
  v = v
  n = n
  s = s
  A = A
  Unbound = Unbound
  None = None
  NoState = None
  Nothing = {}
  MaxLen = 2
  MaxCount = 2
  Programs <- ProgramsDef
  ForLoops <- ForsFixed
  AbsStates <- AbsStatesDef
  Stores <- StoresDef
  ElementValues <- ElementsDef
  EntryStates <- EntryStatesDef
  EntryStores <- EntryStoresDef
  StateJoin <- JoinDef
  StateLe <- LeDef
  StateCovers <- CoversAsOrdered
  IterationElement <- IterationElementDef
  NonemptyIterable <- DefinitelyNonemptyDef
  StepBack <- StepBackDef
  StepEscaped <- StepEscapedDef
  NextStores <- NextStoresDef
  EscapeStores <- EscapeStoresDef
  Exhausted <- ExhaustedDef
  Yields <- YieldsDef
SPECIFICATION Spec
CHECK_DEADLOCK FALSE
INVARIANT HeadCovered
INVARIANT EscapeCovered
INVARIANT ElseCovered
PROPERTY Closes
