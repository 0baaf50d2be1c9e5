\* Programs with two callable functions; the budget allows one resolved call.
SPECIFICATION Spec
CONSTANTS
  a = a
  b = b
  x = x
  y = y
  c = c
  Node <- Nodes
  Obj <- Objects
  Opaque = {}
  CallSite = {c}
  IndirectCallLimit = 0
  Programs <- SmallPrograms
INVARIANTS
  DoneIsClosed
  DoneHandledUnmerged
  NeverSpurious
  PassedOnHasArrived
  CachedIsConnected
PROPERTIES
  Termination
