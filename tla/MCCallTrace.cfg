\* Three functions, traces of up to six events.
SPECIFICATION CallSpec
CONSTANTS
  Name <- SmallNames
  Symbol <- SmallSymbols
  MaxTrace = 6
  MaxCount = 1
INVARIANTS
  TreeIsTrace
  WeightsAddUp
  ReportedAreTopmost
PROPERTIES
  Termination
