--------------------------- MODULE FlowSensitive ---------------------------
(***************************************************************************)
(* The sparse flow-sensitive points-to analysis, class FlowSensitive       *)
(* (option -fspta), over the value-flow graph (SVFG).                      *)
(*                                                                         *)
(* A top-level variable has one points-to set; an address-taken object has *)
(* one in IN and, at a store, one in OUT of every node an indirect edge    *)
(* carries it to.  Direct edges lead from the definition of a top-level    *)
(* variable to its uses.  Only objects whose IN set is marked as updated   *)
(* are looked at again, and a store that must overwrite its one target     *)
(* does not pass that target's old value on (a strong update).             *)
(*                                                                         *)
(* analyze() repeats: find the recursive functions, process every node of  *)
(* the graph and then the worklist until it is empty, resolve indirect     *)
(* calls and connect the graph at them; until no call is new.              *)
(*                                                                         *)
(* The graph is SVFGOPT: parameters and returns are PHI nodes.  The        *)
(* Andersen pre-analysis has already decided which objects are field       *)
(* insensitive, so a points-to set holds no field of such an object and    *)
(* the loops over getAllFieldsObjNode add nothing.                         *)
(***************************************************************************)
EXTENDS Naturals, FiniteSets

CONSTANTS
  Node,      \* SVFG nodes
  Var,       \* top-level variables
  Obj,       \* address-taken objects
  Opaque,    \* constant and non-pointer objects, never read or written
  Single,    \* objects that are not heap, array, field insensitive or a
             \* local of a function recursive through direct calls
  Programs   \* the value-flow graphs to analyse

ASSUME FiniteAssumption == IsFiniteSet(Node) /\ IsFiniteSet(Var) /\ IsFiniteSet(Obj)

(* Statements.  defs and uses are the top-level variables the direct edges *)
(* are built from.                                                         *)
Addr(v, o)    == [kind |-> "addr", defs |-> {v}, uses |-> {}, obj |-> o]
Copy(v, S)    == [kind |-> "copy", defs |-> {v}, uses |-> S]
Gep(v, w, at) == [kind |-> "gep", defs |-> {v}, uses |-> {w}, at |-> at]
Load(v, p)    == [kind |-> "load", defs |-> {v}, uses |-> {p}, ptr |-> p]
Store(p, v)   == [kind |-> "store", defs |-> {}, uses |-> {p, v}, ptr |-> p, val |-> v]
Pass          == [kind |-> "pass", defs |-> {}, uses |-> {}]

StatementOK(s) ==
  /\ s.defs \subseteq Var /\ s.uses \subseteq Var
  /\ s.kind \in {"addr", "copy", "gep", "load", "store", "pass"}
  /\ s.kind = "addr"  => s.obj \in Obj
  /\ s.kind = "gep"   => s.at \in [Obj -> Obj]
  /\ s.kind = "load"  => s.ptr \in Var /\ s.uses = {s.ptr}
  /\ s.kind = "store" => s.ptr \in Var /\ s.val \in Var /\ s.uses = {s.ptr, s.val}

(* Indirect edges lead from stores and memory nodes.                       *)
Edges(p) ==
  {e \in Node \X Node \X SUBSET Obj : p.stmt[e[1]].kind \in {"store", "pass"}}

ASSUME GraphAssumption ==
  \A p \in Programs :
    /\ \A n \in Node : StatementOK(p.stmt[n])
    /\ p.edges \subseteq Edges(p)
    /\ p.fptr \in Var
    /\ DOMAIN p.callee \subseteq Obj
    /\ \A f \in DOMAIN p.callee :
         p.callee[f].edges \subseteq Edges(p) /\ p.callee[f].locals \subseteq Obj

VARIABLES
  prog,       \* stmt, edges, fptr (the called pointer) and callee
  operands,   \* [Node -> SUBSET Var], grows at the PHI of a parameter or return
  edges,      \* indirect edges <<src, dst, objects>>
  pts,        \* points-to sets of the top-level variables
  dfIn,       \* dfInPtsMap
  dfOut,      \* dfOutPtsMap
  inNew,      \* inUpdatedVarMap; outUpdatedVarMap is empty between two nodes
  stack,      \* nodeStack: the nodes this iteration has not reached
  worklist,   \* FIFO order is abstracted
  resolved,   \* indCallMap
  recursive,  \* locals of functions in a cycle of the call graph
  fresh,      \* new edges updateConnectedNodes has not looked at
  phase       \* "connect", "solve" or "done"

graph == <<prog, operands, edges, resolved, recursive, fresh>>
vars  == <<graph, pts, dfIn, dfOut, inNew, stack, worklist, phase>>

stmt == prog.stmt

TypeOK ==
  /\ prog \in Programs
  /\ operands \in [Node -> SUBSET Var]
  /\ edges \subseteq Edges(prog)
  /\ pts \in [Var -> SUBSET Obj]
  /\ dfIn \in [Node -> [Obj -> SUBSET Obj]]
  /\ dfOut \in [Node -> [Obj -> SUBSET Obj]]
  /\ inNew \in [Node -> SUBSET Obj]
  /\ stack \subseteq Node
  /\ worklist \subseteq Node
  /\ resolved \subseteq DOMAIN prog.callee
  /\ recursive \subseteq Obj
  /\ fresh \subseteq edges
  /\ phase \in {"connect", "solve", "done"}

(* initialize: the graph built with the pre-analysis, nothing known yet.   *)
Init ==
  /\ prog \in Programs
  /\ operands = [n \in Node |-> prog.stmt[n].uses]
  /\ edges = prog.edges
  /\ pts = [v \in Var |-> {}]
  /\ dfIn = [n \in Node |-> [o \in Obj |-> {}]]
  /\ dfOut = [n \in Node |-> [o \in Obj |-> {}]]
  /\ inNew = [n \in Node |-> {}]
  /\ stack = {}
  /\ worklist = {}
  /\ resolved = {}
  /\ recursive = {}
  /\ fresh = {}
  /\ phase = "connect"

-----------------------------------------------------------------------------
(* The graph.                                                              *)

Of(kind) == {n \in Node : stmt[n].kind = kind}

DirectSuccs(n) == {m \in Node : stmt[n].defs \cap operands[m] # {}}

(* The objects the indirect edges of E from n to m carry.                  *)
Label(E, n, m) == UNION {e[3] : e \in {d \in E : d[1] = n /\ d[2] = m}}

(* isStrongUpdate: the store must overwrite its only target.               *)
IsStrongUpdate(n) ==
  \E o \in Single \ recursive : pts[stmt[n].ptr] = {o}

Killed(n) == IF IsStrongUpdate(n) THEN pts[stmt[n].ptr] ELSE {}

-----------------------------------------------------------------------------
(* Processing one node: processNode.                                       *)
(*                                                                         *)
(* A node is taken from the stack as long as there is one, and then from   *)
(* the worklist; a node taken from the stack stays on the worklist.        *)
Take(n, pushed) ==
  /\ phase = "solve"
  /\ \/ /\ n \in stack
        /\ stack' = stack \ {n}
        /\ worklist' = worklist \cup pushed
     \/ /\ stack = {}
        /\ n \in worklist
        /\ worklist' = (worklist \ {n}) \cup pushed
        /\ UNCHANGED stack
  /\ UNCHANGED <<graph, phase>>

(* What an addr, copy, phi or gep statement puts into its variable.        *)
Sources(n) == UNION {pts[v] : v \in operands[n]}

TopLevelResult(n) ==
  CASE stmt[n].kind = "addr" -> {stmt[n].obj}
    [] stmt[n].kind = "copy" -> Sources(n)
    [] stmt[n].kind = "gep"  -> {stmt[n].at[o] : o \in Sources(n)}

(* unionPts, and propagate along the direct edges if it changed anything.  *)
Define(n, S) ==
  LET changed == \E v \in stmt[n].defs : ~ (S \subseteq pts[v])
  IN  /\ pts' = [v \in Var |-> IF v \in stmt[n].defs THEN pts[v] \cup S ELSE pts[v]]
      /\ Take(n, IF changed THEN DirectSuccs(n) ELSE {})

(* processAddr, processCopy, processPhi, processGep                        *)
ProcessTopLevel(n) ==
  /\ stmt[n].kind \in {"addr", "copy", "gep"}
  /\ Define(n, TopLevelResult(n))
  /\ UNCHANGED <<dfIn, dfOut, inNew>>

(* processLoad: of the objects loaded only those with news in IN are read, *)
(* and their marks are cleared.                                            *)
Loaded(n) == (pts[stmt[n].ptr] \ Opaque) \cap inNew[n]

ProcessLoad(n) ==
  /\ stmt[n].kind = "load"
  /\ Define(n, UNION {dfIn[n][o] : o \in Loaded(n)})
  /\ inNew' = [inNew EXCEPT ![n] = @ \ Loaded(n)]
  /\ UNCHANGED <<dfIn, dfOut>>

(* IN of every node after it was sent, along the edges of E from n, what   *)
(* flow says of the objects in news.                                       *)
Sent(E, n, flow, news) ==
  [m \in Node |-> LET L == Label(E, n, m) \cap news
                  IN  [o \in Obj |-> IF o \in L THEN dfIn[m][o] \cup flow[o] ELSE dfIn[m][o]]]

Changed(m) == {o \in Obj : dfIn'[m][o] # dfIn[m][o]}

(* Faulty: the other end of an edge is pushed whatever arrived there.      *)
ReachedAlways(E, n) == {m \in Node : Label(E, n, m) # {}}

(* propFromSrcToDst is true of an indirect edge if IN changed.             *)
Reached(E, n) == {m \in Node : Changed(m) # {}}

(* OUT of a store: the value goes to the targets, and the news of IN are   *)
(* merged unless they are about the cell a strong update overwrites.       *)
MergedIn(n) == inNew[n] \ Killed(n)

StoreOut(n) ==
  LET store  == stmt[n]
      target == pts[store.ptr] \ Opaque
  IN  [o \in Obj |-> dfOut[n][o]
                       \cup (IF o \in target THEN pts[store.val] ELSE {})
                       \cup (IF o \in MergedIn(n) THEN dfIn[n][o] ELSE {})]

(* Faulty: the mark of the overwritten cell is cleared with the others, so *)
(* its IN is not merged once the store is found weak.                      *)
ClearedAtStoreAll(n) == inNew[n]

ClearedAtStore(n) == MergedIn(n)

StoreHasTarget(n) == pts[stmt[n].ptr] # {}

(* processStore, and propagate what changed in OUT.                        *)
ProcessStore(n) ==
  /\ stmt[n].kind = "store"
  /\ IF StoreHasTarget(n)
     THEN LET out  == StoreOut(n)
              news == {o \in Obj : out[o] # dfOut[n][o]}
          IN  /\ dfOut' = [dfOut EXCEPT ![n] = out]
              /\ dfIn' = Sent(edges, n, out, news)
              /\ inNew' = [m \in Node |->
                             Changed(m) \cup (IF m = n THEN inNew[n] \ ClearedAtStore(n)
                                                       ELSE inNew[m])]
     ELSE UNCHANGED <<dfIn, dfOut, inNew>>
  /\ Take(n, Reached(edges, n))
  /\ UNCHANGED pts

(* The memory nodes - MSSAPHI, FormalIN, ActualOUT and the like - always   *)
(* propagate; their marks are never cleared.                               *)
ProcessPass(n) ==
  /\ stmt[n].kind = "pass"
  /\ dfIn' = Sent(edges, n, dfIn[n], inNew[n])
  /\ inNew' = [m \in Node |-> inNew[m] \cup Changed(m)]
  /\ Take(n, Reached(edges, n))
  /\ UNCHANGED <<pts, dfOut>>

ProcessNode(n) == ProcessTopLevel(n) \/ ProcessLoad(n) \/ ProcessStore(n) \/ ProcessPass(n)

-----------------------------------------------------------------------------
(* Resolving calls.                                                        *)

Connected(added) == edges \cup added

NewCallees == (pts[prog.fptr] \cap DOMAIN prog.callee) \ resolved

(* updateCallGraph: connectCallerAndCallee for every new callee; the PHI   *)
(* of a parameter or return that got an operand is pushed.                 *)
UpdateCallGraph ==
  LET linked == UNION {prog.callee[f].operands : f \in NewCallees}
      added  == (UNION {prog.callee[f].edges : f \in NewCallees}) \ edges
  IN  /\ phase = "solve" /\ stack = {} /\ worklist = {}
      /\ phase' = IF NewCallees = {} THEN "done" ELSE "connect"
      /\ resolved' = resolved \cup NewCallees
      /\ operands' = [n \in Node |-> operands[n] \cup {v \in Var : <<n, v>> \in linked}]
      /\ edges' = Connected(added)
      /\ fresh' = added
      /\ worklist' = {n \in Node : \E v \in Var : <<n, v>> \in linked}
      /\ UNCHANGED <<prog, pts, dfIn, dfOut, inNew, stack, recursive>>

(* What a node has to pass on.                                             *)
Flow(n) == IF stmt[n].kind = "store" THEN dfOut[n] ELSE dfIn[n]

(* Faulty: only what is marked at that moment crosses the new edge.        *)
SentOnConnectIfNew(n) == IF stmt[n].kind = "store" THEN {} ELSE inNew[n]

(* propVarPtsAfterCGUpdated sends an object whether or not it is marked.   *)
SentOnConnect(n) == Obj

(* updateConnectedNodes: one new edge to a formal-in or actual-out.        *)
UpdateConnectedNode(e) ==
  /\ phase = "connect"
  /\ e \in fresh
  /\ fresh' = fresh \ {e}
  /\ dfIn' = Sent({e}, e[1], Flow(e[1]), SentOnConnect(e[1]))
  /\ inNew' = [m \in Node |-> inNew[m] \cup Changed(m)]
  /\ worklist' = worklist \cup Reached({e}, e[1])
  /\ UNCHANGED <<prog, operands, edges, pts, dfOut, stack, resolved, recursive, phase>>

(* A new iteration: callGraphSCC->find(), and SCCDetect puts every node on *)
(* the stack.  Its topological order is abstracted.                        *)
FindSCC ==
  /\ phase = "connect" /\ fresh = {}
  /\ recursive' = UNION {prog.callee[f].locals : f \in resolved}
  /\ stack' = Node
  /\ phase' = "solve"
  /\ UNCHANGED <<prog, operands, edges, pts, dfIn, dfOut, inNew, worklist, resolved, fresh>>

(* finalize: the result stays.                                             *)
Terminated == phase = "done" /\ UNCHANGED vars

Next ==
  \/ FindSCC
  \/ \E n \in Node : ProcessNode(n)
  \/ UpdateCallGraph
  \/ \E e \in edges : UpdateConnectedNode(e)
  \/ Terminated

(* The analysis is one thread that runs until it is done.                  *)
Spec == Init /\ [][Next]_vars /\ WF_vars(Next)

-----------------------------------------------------------------------------
(* The value-flow equations.                                               *)

(* processSVFGNode at n would add nothing.                                 *)
NodeHolds(n) ==
  CASE stmt[n].kind \in {"addr", "copy", "gep"} ->
         \A v \in stmt[n].defs : TopLevelResult(n) \subseteq pts[v]
    [] stmt[n].kind = "load" ->
         \A v \in stmt[n].defs : \A o \in pts[stmt[n].ptr] \ Opaque : dfIn[n][o] \subseteq pts[v]
    [] stmt[n].kind = "store" ->
         StoreHasTarget(n) =>
           /\ \A o \in pts[stmt[n].ptr] \ Opaque : pts[stmt[n].val] \subseteq dfOut[n][o]
           /\ \A o \in Obj \ Killed(n) : dfIn[n][o] \subseteq dfOut[n][o]
    [] OTHER -> TRUE

EdgeHolds(e) == \A o \in e[3] : Flow(e[1])[o] \subseteq dfIn[e[2]][o]

(* The result solves the equations of the whole graph, with every indirect *)
(* call connected: nothing marked as old was still needed anywhere, and no *)
(* value is missing behind an edge that was added after it had passed.     *)
DoneIsSolution ==
  phase = "done" =>
    /\ \A n \in Node : NodeHolds(n)
    /\ \A e \in edges : EdgeHolds(e)
    /\ pts[prog.fptr] \cap DOMAIN prog.callee \subseteq resolved

Pending == stack \cup worklist

(* At every point of the run: what an indirect edge still has to carry is  *)
(* marked at its source and the source is to be processed again; what a    *)
(* load or store has not taken from IN is marked there, be its pointer     *)
(* known to point to it or not.  The edges that were just added are the    *)
(* only exception.                                                         *)
MissingIsMarked ==
  /\ \A e \in edges \ fresh : \A o \in e[3] :
       \/ Flow(e[1])[o] \subseteq dfIn[e[2]][o]
       \/ stmt[e[1]].kind = "pass" /\ o \in inNew[e[1]] /\ e[1] \in Pending
  /\ \A n \in Of("load") : \A v \in stmt[n].defs : \A o \in Obj :
       dfIn[n][o] \subseteq pts[v] \/ o \in inNew[n]
  /\ \A n \in Of("store") : \A o \in Obj :
       dfIn[n][o] \subseteq dfOut[n][o] \/ o \in inNew[n]

(* The least solution of the value-flow equations once it is known which   *)
(* stores overwrite their target.  Each round adds what follows from the   *)
(* facts of the round before in one step.                                  *)
Value(S, n) ==
  LET used == UNION {S.pts[v] : v \in operands[n]}
  IN  CASE stmt[n].kind = "addr" -> {stmt[n].obj}
        [] stmt[n].kind = "copy" -> used
        [] stmt[n].kind = "gep"  -> {stmt[n].at[o] : o \in used}
        [] stmt[n].kind = "load" -> UNION {S.in[n][o] : o \in S.pts[stmt[n].ptr] \ Opaque}
        [] OTHER -> {}

Out(S, n, o) ==
  IF stmt[n].kind # "store" THEN S.in[n][o]
  ELSE IF S.pts[stmt[n].ptr] = {} THEN {}
  ELSE (IF o \in S.pts[stmt[n].ptr] \ Opaque THEN S.pts[stmt[n].val] ELSE {})
         \cup (IF o \in Killed(n) THEN {} ELSE S.in[n][o])

Equations(S) ==
  [pts |-> [v \in Var |-> UNION {Value(S, n) : n \in {m \in Node : v \in stmt[m].defs}}],
   in  |-> [n \in Node |-> [o \in Obj |->
              UNION {Out(S, e[1], o) : e \in {d \in edges : d[2] = n /\ o \in d[3]}}]]]

Nothing == [pts |-> [v \in Var |-> {}], in |-> [n \in Node |-> [o \in Obj |-> {}]]]

(* As many rounds as there are facts are enough.                           *)
Facts  == ({"pts"} \X (Var \X Obj)) \cup ({"in"} \X (Node \X (Obj \X Obj)))
Rounds == Cardinality(Facts)

Least ==
  LET S[i \in 0 .. Rounds] == IF i = 0 THEN Nothing ELSE Equations(S[i - 1])
  IN  S[Rounds]

(* The result is the least solution of the equations, with the stores      *)
(* taken as strong that are strong in the result: neither a store that was *)
(* strong for a while nor one that was not processed yet leaves a trace,   *)
(* and the order the nodes were processed in does not matter.              *)
DoneIsLeast == phase = "done" => Least = [pts |-> pts, in |-> dfIn]

(* The analysis ends: marks and points-to sets stop changing, also around  *)
(* cycles of the graph and when calls keep being resolved.                 *)
Termination == <>(phase = "done")

=============================================================================
