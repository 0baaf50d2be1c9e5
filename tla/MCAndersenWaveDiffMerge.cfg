\* One program whose second wave merges the node a store goes through.
SPECIFICATION Spec
CONSTANTS
  a = a
  b = b
  x = x
  y = y
  c = c
  Node <- Nodes
  Obj <- Objects
  Opaque = {}
  CallSite = {c}
  IndirectCallLimit = 1
  Programs <- MergePrograms
INVARIANTS
  DoneIsSolution
