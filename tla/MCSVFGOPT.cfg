SPECIFICATION Spec
CONSTANTS
  s = s
  ai = ai
  ao = ao
  hd = hd
  l = l
  hi = hi
  fi = fi
  fo = fo
  sg = sg
  lg = lg
  ph = ph
  k = k
  ai2 = ai2
  ao2 = ao2
  gs = gs
  o = o
  p = p
  callC = callC
  retC = retC
  callD = callD
  retD = retD
  Intra = Intra
  Node <- Nodes
  Obj = {o, p}
  Context = {callC, retC, callD, retD}
  Programs <- Graphs
INVARIANTS
  FlowIsPreserved
  StillRemovable
  LaterCallsAreConnected
PROPERTIES
  Termination
