SPECIFICATION FieldSpec
CONSTANTS
  p = p
  q = q
  r = r
  u = u
  s = s
  t = t
  Node <- Nodes
  Obj <- Objects
  Opaque = {}
  CallSite = {}
  IndirectCallLimit = 0
  Programs <- FieldPrograms
  Mem = {s, t}
  Limit <- Limits
  BlkOrConstant = {t}
  GepPrograms <- Geps
  Misread = {FALSE}
INVARIANTS
  CollapsedAreWhole
  FieldDoneIsClosed
PROPERTIES
  FieldTermination
