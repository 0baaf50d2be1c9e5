\* Every control flow graph of four blocks.
SPECIFICATION SSASpec
CONSTANTS
  e = e
  b = b
  c = c
  x = x
  r = r
  q = q
  Block <- Blocks
  Region <- Regions
  Bodies <- SmallFunctions
INVARIANTS
  VersionsAreReachingDefs
  ChangedIsExact
