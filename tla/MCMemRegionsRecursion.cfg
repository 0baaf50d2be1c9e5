\* Two functions that call each other.
SPECIFICATION Spec
CONSTANTS
  main = main
  f = f
  g = g
  c1 = c1
  c2 = c2
  c3 = c3
  l = l
  m = m
  r = r
  h = h
  Globals = Globals
  Whole = Whole
  Fun <- Functions
  CallSite <- Sites
  Obj <- Objects
  Programs <- MutualPrograms
INVARIANTS
  DoneIsClosed
