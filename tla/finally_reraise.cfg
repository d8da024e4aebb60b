CONSTANTS
  Vars = {"x", "y", "e"}
  NoneScalar = "None"
  ObjectScalar = "object"
  IntScalar = "int"
  Scalars = {"None", "object", "int"}
  Unbound = "Unbound"
  Sites = {}
  NoState = NoState
  Nowhere = 0
  Classes = {"BaseException", "A", "B", "IndexError", "UnboundLocalError", "RuntimeError"}
  Mro <- MCMro
  Categories = {"index", "dispatch"}
  CategoryOf <- MCCategoryOf
  AnyClass = "BaseException"
  NoName = "-"
  NoClass = "no class"
  Programs <- ReraisePrograms
  PoliciesOf <- StrictAndAudit
SPECIFICATION Spec
INVARIANTS ExitCovered
