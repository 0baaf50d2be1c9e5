\* Programs with two callable functions, the budget never reached.
SPECIFICATION Spec
CONSTANTS
  a = a
  b = b
  x = x
  y = y
  c = c
  Node <- Nodes
  Obj <- Objects
  Opaque = {y}
  CallSite = {c}
  IndirectCallLimit = 1
  Programs <- SmallPrograms
INVARIANTS
  DoneIsSolution
  NeverSpurious
  RepSubsAgree
  EdgesAtRepresentatives
PROPERTIES
  ImplementsInclusionAnalysis
  Termination
