\* Every graph with four nodes without loops, and with three nodes.
SPECIFICATION Spec
CONSTANTS
  Node <- SmallNodes
  Graphs <- SmallGraphs
INVARIANTS
  DoneIsRootMap
  CompleteIsComponent
  RootsAreTopological
  CycleQueriesAreExact
PROPERTIES
  Termination
