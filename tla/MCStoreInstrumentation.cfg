\* Functions of two blocks, with stores to and of the indicator.
SPECIFICATION Spec
CONSTANTS
  ind = ind
  other = other
  adr = adr
  old = old
  new = new
  Loc = {ind, other}
  Value = {old, new, adr}
  Functions <- SmallFunctions
  Ind = ind
  Address = adr
INVARIANTS
  TypeOK
PROPERTIES
  RunsAsBefore
  ChangesAreAnnounced
