SPECIFICATION Spec
CONSTANTS
  p = p
  q = q
  r = r
  t = t
  u = u
  v = v
  x = x
  y = y
  f = f
  g = g
  ap = ap
  aq = aq
  af = af
  ag = ag
  s1 = s1
  s2 = s2
  l = l
  m = m
  ph = ph
  Node <- Nodes
  Var <- Variables
  Obj <- Objects
  Opaque = {f, g}
  Single = {x}
  Programs <- Graphs
INVARIANTS
  DoneIsLeast
  MissingIsMarked
PROPERTIES
  Termination
