CONSTANTS
  Classes = {"LookupError", "KeyError", "TypeError"}
  Mro <- MCMro
  Categories = {"key", "dispatch"}
  CategoryOf <- MCCategoryOf
  Sites = {1, 2}
  MayRaise <- MCMayRaise
  Caught <- MCCaught
  MaxDepth = 2
SPECIFICATION Spec
INVARIANTS RowsCombined DutiesOwed OutcomesAccounted
PROPERTY DutiesKept
