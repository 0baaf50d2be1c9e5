------------------------------ MODULE Andersen ------------------------------
(***************************************************************************)
(* The standard inclusion-based solver, class Andersen (option -nander).   *)
(*                                                                         *)
(* analyze() puts every address constraint into the points-to sets and     *)
(* then repeats: detect and merge copy cycles, process the representatives *)
(* in topological order, process the worklist until it is empty, and       *)
(* resolve indirect calls with the points-to sets found; it repeats as     *)
(* long as a new call was resolved.                                        *)
(***************************************************************************)
EXTENDS ConstraintGraph

VARIABLES
  prog,        \* the program analysed
  phase,       \* "addr", "scc", "solve" or "done"
  rep,         \* nodeToRepMap
  subs,        \* nodeToSubsMap
  copyEdges,   \* directEdgeSet
  loadEdges,   \* LoadCGEdgeSet
  storeEdges,  \* StoreCGEdgeSet
  pts,         \* ptsMap, used at representatives only
  worklist,    \* nodes to process again; FIFO order is abstracted
  nodeStack,   \* representatives the topological pass has not reached
  indCalls     \* indCallMap: the resolved <<call site, callee>> pairs

graph == <<rep, subs, copyEdges, loadEdges, storeEdges>>
vars  == <<prog, phase, graph, pts, worklist, nodeStack, indCalls>>

(* getPts(id): the points-to set of a node is that of its representative.  *)
getPts == [n \in Node |-> pts[rep[n]]]

TypeOK ==
  /\ prog \in Programs
  /\ phase \in {"addr", "scc", "solve", "done"}
  /\ rep \in [Node -> Node]
  /\ subs \in [Node -> SUBSET Node]
  /\ copyEdges \subseteq Edge
  /\ loadEdges \subseteq Edge
  /\ storeEdges \subseteq Edge
  /\ pts \in Assignment
  /\ worklist \subseteq Node
  /\ nodeStack \subseteq Node
  /\ indCalls \subseteq prog.callee

(* initialize: the constraint graph is built from the program.             *)
Init ==
  /\ prog \in Programs
  /\ phase = "addr"
  /\ rep = [n \in Node |-> n]
  /\ subs = [n \in Node |-> {n}]
  /\ copyEdges = NoLoops(prog.copy)
  /\ loadEdges = prog.load
  /\ storeEdges = prog.store
  /\ pts = [n \in Node |-> {}]
  /\ worklist = {}
  /\ nodeStack = {}
  /\ indCalls = {}

(* processAllAddr                                                          *)
ProcessAllAddr ==
  /\ phase = "addr"
  /\ pts' = [n \in Node |-> {o \in Obj : <<o, n>> \in prog.addr}]
  /\ worklist' = {n \in Node : \E o \in Obj : <<o, n>> \in prog.addr}
  /\ phase' = "scc"
  /\ UNCHANGED <<prog, graph, nodeStack, indCalls>>

(* SCCDetect: find the copy cycles, merge each into its representative and *)
(* leave the representatives on the topological stack.                     *)
SCCDetect ==
  /\ phase = "scc"
  /\ \E root \in RootMaps(copyEdges) :
       /\ rep' = MergedRep(rep, subs, root)
       /\ subs' = MergedSubs(subs, root)
       /\ copyEdges' = NoLoops(Moved(copyEdges, root))
       /\ loadEdges' = Moved(loadEdges, root)
       /\ storeEdges' = Moved(storeEdges, root)
       /\ pts' = MergedPts(pts, root)
       /\ nodeStack' = {n \in Node : rep[n] = n /\ root[n] = n}
  /\ phase' = "solve"
  /\ UNCHANGED <<prog, worklist, indCalls>>

-----------------------------------------------------------------------------
(***************************************************************************)
(* processNode.  What n points to turns the loads from n and the stores    *)
(* through n into copy edges, and the source of a new edge is pushed; then *)
(* everything n points to flows along its copy edges, the new ones         *)
(* included, and the targets that grow are pushed.                         *)
(***************************************************************************)
(* Faulty: the new edge starts at the object, not at its representative.   *)
LoadCopiesUnmapped(n) ==
  {<<o, e[2]>> : o \in pts[n] \ Opaque, e \in {l \in loadEdges : l[1] = n}}

LoadCopies(n) ==
  {<<rep[o], e[2]>> : o \in pts[n] \ Opaque, e \in {l \in loadEdges : l[1] = n}}

(* Faulty: source and destination of the store are confused.               *)
StoreCopiesSwapped(n) ==
  {<<e[2], rep[o]>> : o \in pts[n] \ Opaque, e \in {s \in storeEdges : s[1] = n}}

StoreCopies(n) ==
  {<<e[1], rep[o]>> : o \in pts[n] \ Opaque, e \in {s \in storeEdges : s[2] = n}}

NewCopies(n) == NoLoops(LoadCopies(n) \cup StoreCopies(n)) \ copyEdges

(* Faulty: a target is pushed only for its first objects.                  *)
GrownFromEmpty(n, E) == {m \in Node : <<n, m>> \in E /\ pts[m] = {} /\ pts[n] # {}}

Grown(n, E) == {m \in Node : <<n, m>> \in E /\ ~(pts[n] \subseteq pts[m])}

ProcessNode(n, queued) ==
  LET new == NewCopies(n)
      E   == copyEdges \cup new
  IN  /\ copyEdges' = E
      /\ pts' = [m \in Node |-> IF <<n, m>> \in E THEN pts[m] \cup pts[n]
                                                  ELSE pts[m]]
      /\ worklist' = queued \cup {e[1] : e \in new} \cup Grown(n, E)
      /\ UNCHANGED <<prog, phase, rep, subs, loadEdges, storeEdges, indCalls>>

(* solve, first loop: the nodes on the topological stack, each once.  They  *)
(* are taken in any order here: nothing depends on the topological one.    *)
ProcessTop(n) ==
  /\ phase = "solve"
  /\ n \in nodeStack
  /\ nodeStack' = nodeStack \ {n}
  /\ ProcessNode(n, worklist)

(* solve, second loop: pop a node and process its representative.          *)
ProcessWorklist(n) ==
  /\ phase = "solve"
  /\ nodeStack = {}
  /\ n \in worklist
  /\ ProcessNode(rep[n], worklist \ {n})
  /\ UNCHANGED nodeStack

(* Faulty: the analysis ends although calls were connected.                *)
UpdateCallGraphOnce ==
  /\ phase = "solve"
  /\ nodeStack = {} /\ worklist = {}
  /\ \E C \in NewCalls(prog, getPts, indCalls) :
       LET new == ParamCopies(prog, C, rep) \ copyEdges
       IN  /\ indCalls' = indCalls \cup C
           /\ copyEdges' = copyEdges \cup new
           /\ worklist' = {e[1] : e \in new}
  /\ phase' = "done"
  /\ UNCHANGED <<prog, rep, subs, loadEdges, storeEdges, pts, nodeStack>>

(* Faulty: a resolved call is not recorded in indCallMap.                  *)
UpdateCallGraphForgetful ==
  /\ phase = "solve"
  /\ nodeStack = {} /\ worklist = {}
  /\ \E C \in NewCalls(prog, getPts, indCalls) :
       LET new == ParamCopies(prog, C, rep) \ copyEdges
       IN  /\ copyEdges' = copyEdges \cup new
           /\ worklist' = {e[1] : e \in new}
           /\ phase' = IF C = {} THEN "done" ELSE "scc"
  /\ UNCHANGED <<prog, rep, subs, loadEdges, storeEdges, pts, nodeStack, indCalls>>

(***************************************************************************)
(* updateCallGraph: resolve the indirect calls, add the parameter copies   *)
(* and push the source of each new one.  Without a new call the analysis   *)
(* ends.                                                                   *)
(***************************************************************************)
UpdateCallGraph ==
  /\ phase = "solve"
  /\ nodeStack = {} /\ worklist = {}
  /\ \E C \in NewCalls(prog, getPts, indCalls) :
       LET new == ParamCopies(prog, C, rep) \ copyEdges
       IN  /\ indCalls' = indCalls \cup C
           /\ copyEdges' = copyEdges \cup new
           /\ worklist' = {e[1] : e \in new}
           /\ phase' = IF C = {} THEN "done" ELSE "scc"
  /\ UNCHANGED <<prog, rep, subs, loadEdges, storeEdges, pts, nodeStack>>

Terminated == phase = "done" /\ UNCHANGED vars

Next ==
  \/ ProcessAllAddr
  \/ SCCDetect
  \/ \E n \in Node : ProcessTop(n) \/ ProcessWorklist(n)
  \/ UpdateCallGraph
  \/ Terminated

(* One thread runs the analysis and nothing blocks it.                     *)
Spec == Init /\ [][Next]_vars /\ WF_vars(Next)

-----------------------------------------------------------------------------
(***************************************************************************)
(* Properties.                                                             *)
(***************************************************************************)

Done == phase = "done"

(* The call budget was not hit: every callable function is connected.      *)
CallsResolved == Callable(prog, getPts, indCalls) = {}

(* Soundness.  When the analysis ends its points-to sets satisfy every     *)
(* constraint of the program, call constraints too unless the budget of    *)
(* resolved calls ran out.  A missed push or an edge lost in a merge would *)
(* break it.                                                               *)
DoneIsSolution ==
  Done => LET S == getPts
          IN  /\ AddrHolds(prog, S)
              /\ CopyHolds(prog, S)
              /\ LoadHolds(prog, S)
              /\ StoreHolds(prog, S)
              /\ CallsResolved => CallHolds(prog, S)

(* Precision.  At no time does a pointer point to an object that some      *)
(* solution of the constraints keeps out: merging cycles loses nothing.    *)
NeverSpurious == NothingSpurious(prog, getPts)

(* The representative maps agree.  A representative stands for itself, and *)
(* the nodes listed under it are exactly those mapped to it, also after    *)
(* nodes that already stood for others were merged again.                  *)
RepSubsAgree ==
  \A n, r \in Node : rep[n] = r <=> rep[r] = r /\ n \in subs[r]

(* No edge of the graph ends at a node that has been merged away.          *)
EdgesAtRepresentatives ==
  \A e \in copyEdges \cup loadEdges \cup storeEdges :
    rep[e[1]] = e[1] /\ rep[e[2]] = e[2]

(* What a variable may point to only grows, across merges too.             *)
PointsToGrows == [][\A n \in Node : getPts[n] \subseteq getPts'[n]]_vars

(* The solver implements the abstract analysis: its steps only derive      *)
(* consequences of the constraints, and analyze() returns at a solution.   *)
Abstract == INSTANCE InclusionAnalysis WITH sol <- getPts, done <- Done

ImplementsInclusionAnalysis == Abstract!Spec

(* The fixpoint loop ends.                                                 *)
Termination == <>Done

=============================================================================
