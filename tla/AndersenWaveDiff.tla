-------------------------- MODULE AndersenWaveDiff --------------------------
(***************************************************************************)
(* The wave-propagation solver with difference propagation, class          *)
(* AndersenWaveDiff (option -ander), whose result the memory SSA form, the *)
(* value-flow graph and the flow-sensitive analysis are built from.        *)
(*                                                                         *)
(* A round of the analysis is a wave: copy cycles are merged, then every   *)
(* representative passes on, in topological order, what it has not passed  *)
(* on before.  The nodes that grew are on the worklist; their loads and    *)
(* stores are handled next, each for the objects its edge has not handled  *)
(* before, and a new copy edge asks for another wave (reanalyze).          *)
(***************************************************************************)
EXTENDS ConstraintGraph

VARIABLES
  prog,         \* the program analysed
  phase,        \* "addr", "scc", "solve", "params" or "done"
  rep,          \* nodeToRepMap
  subs,         \* nodeToSubsMap
  copyEdges,    \* directEdgeSet
  loadEdges,    \* LoadCGEdgeSet
  storeEdges,   \* StoreCGEdgeSet
  pts,          \* ptsMap, used at representatives only
  propaPts,     \* propaPtsMap: what a node has passed on already
  loadCache,    \* CacheMap: what has been handled at a load edge,
  storeCache,   \*           and at a store edge
  worklist,     \* nodes to post-process; FIFO order is abstracted
  nodeStack,    \* representatives the wave has not reached
  pendLoads,    \* load edges of the node popped last still to handle,
  pendStores,   \* and its store edges
  pendParams,   \* cpySrcNodes: new parameter copies to propagate along
  indCalls,     \* indCallMap: the resolved <<call site, callee>> pairs
  reanalyze     \* another wave is needed

graph   == <<rep, subs, copyEdges, loadEdges, storeEdges>>
caches  == <<loadCache, storeCache>>
pending == <<pendLoads, pendStores>>
vars    == <<prog, phase, graph, pts, propaPts, caches, worklist, nodeStack,
             pending, pendParams, indCalls, reanalyze>>

(* getPts(id): the points-to set of a node is that of its representative.  *)
getPts == [n \in Node |-> pts[rep[n]]]

TypeOK ==
  /\ prog \in Programs
  /\ phase \in {"addr", "scc", "solve", "params", "done"}
  /\ rep \in [Node -> Node]
  /\ subs \in [Node -> SUBSET Node]
  /\ copyEdges \subseteq Edge
  /\ loadEdges \subseteq Edge
  /\ storeEdges \subseteq Edge
  /\ pts \in Assignment
  /\ propaPts \in Assignment
  /\ loadCache \in [Edge -> SUBSET Obj]
  /\ storeCache \in [Edge -> SUBSET Obj]
  /\ worklist \subseteq Node
  /\ nodeStack \subseteq Node
  /\ pendLoads \subseteq loadEdges
  /\ pendStores \subseteq storeEdges
  /\ pendParams \subseteq Edge
  /\ indCalls \subseteq prog.callee
  /\ reanalyze \in BOOLEAN

(* initialize: the constraint graph is built from the program.             *)
Init ==
  /\ prog \in Programs
  /\ phase = "addr"
  /\ rep = [n \in Node |-> n]
  /\ subs = [n \in Node |-> {n}]
  /\ copyEdges = NoLoops(prog.copy)
  /\ loadEdges = prog.load
  /\ storeEdges = prog.store
  /\ pts = [n \in Node |-> {}]
  /\ propaPts = [n \in Node |-> {}]
  /\ loadCache = [e \in Edge |-> {}]
  /\ storeCache = [e \in Edge |-> {}]
  /\ worklist = {}
  /\ nodeStack = {}
  /\ pendLoads = {} /\ pendStores = {} /\ pendParams = {}
  /\ indCalls = {}
  /\ reanalyze = FALSE

(* processAllAddr                                                          *)
ProcessAllAddr ==
  /\ phase = "addr"
  /\ pts' = [n \in Node |-> {o \in Obj : <<o, n>> \in prog.addr}]
  /\ worklist' = {n \in Node : \E o \in Obj : <<o, n>> \in prog.addr}
  /\ phase' = "scc"
  /\ UNCHANGED <<prog, graph, propaPts, caches, nodeStack, pending,
                 pendParams, indCalls, reanalyze>>

(***************************************************************************)
(* SCCDetect and mergeSccCycle.  A representative has passed on what every *)
(* member of its component has (updatePropaPtsMap intersects).  An edge    *)
(* that is moved is a new edge with a new id, so its cache starts empty.   *)
(* Nothing is pushed.                                                      *)
(***************************************************************************)
(* Faulty: what the representative alone has passed on.                    *)
MergedPropaOwn(root) == propaPts

MergedPropa(root) ==
  [r \in Node |-> {o \in propaPts[r] : \A m \in Node : root[m] = r => o \in propaPts[m]}]

MovedCache(cache, E, root) ==
  [e \in Edge |-> IF e \in E /\ root[e[1]] = e[1] /\ root[e[2]] = e[2]
                  THEN cache[e] ELSE {}]

SCCDetect ==
  /\ phase = "scc"
  /\ \E root \in RootMaps(copyEdges) :
       /\ rep' = MergedRep(rep, subs, root)
       /\ subs' = MergedSubs(subs, root)
       /\ copyEdges' = NoLoops(Moved(copyEdges, root))
       /\ loadEdges' = Moved(loadEdges, root)
       /\ storeEdges' = Moved(storeEdges, root)
       /\ loadCache' = MovedCache(loadCache, loadEdges, root)
       /\ storeCache' = MovedCache(storeCache, storeEdges, root)
       /\ pts' = MergedPts(pts, root)
       /\ propaPts' = MergedPropa(root)
       /\ nodeStack' = {n \in Node : rep[n] = n /\ root[n] = n}
  /\ phase' = "solve"
  /\ UNCHANGED <<prog, worklist, pending, pendParams, indCalls, reanalyze>>

-----------------------------------------------------------------------------
(***************************************************************************)
(* processNode, handleCopyGep: the next node in topological order passes   *)
(* on its diff, what it points to and has not passed on before.            *)
(***************************************************************************)
ProcessNode(n) ==
  /\ phase = "solve"
  /\ n \in nodeStack
  /\ \A e \in copyEdges : e[2] = n => e[1] \notin nodeStack
  /\ nodeStack' = nodeStack \ {n}
  /\ LET diff == pts[n] \ propaPts[n]
     IN  /\ pts' = [m \in Node |-> IF <<n, m>> \in copyEdges
                                   THEN pts[m] \cup diff ELSE pts[m]]
         /\ worklist' = worklist \cup
              {m \in Node : <<n, m>> \in copyEdges /\ ~(diff \subseteq pts[m])}
  /\ propaPts' = [propaPts EXCEPT ![n] = pts[n]]
  /\ UNCHANGED <<prog, phase, graph, caches, pending, pendParams, indCalls, reanalyze>>

(***************************************************************************)
(* postProcessNode: pop a node; the loads from its representative and the  *)
(* stores through it are handled one by one, loads first.                  *)
(***************************************************************************)
PopFromWorklist(n) ==
  /\ phase = "solve"
  /\ nodeStack = {} /\ pendLoads = {} /\ pendStores = {}
  /\ n \in worklist
  /\ worklist' = worklist \ {n}
  /\ pendLoads' = {e \in loadEdges : e[1] = rep[n]}
  /\ pendStores' = {e \in storeEdges : e[2] = rep[n]}
  /\ UNCHANGED <<prog, phase, graph, pts, propaPts, caches, nodeStack,
                 pendParams, indCalls, reanalyze>>

(* Faulty: the targets wait for the next wave.                             *)
AddCopyEdgesLazily(E) ==
  /\ copyEdges' = copyEdges \cup E
  /\ reanalyze' = (reanalyze \/ E # {})
  /\ UNCHANGED <<pts, worklist>>

(* Faulty: the targets that grow are not pushed.                           *)
AddCopyEdgesUnpushed(E) ==
  LET into(m) == UNION {pts[e[1]] : e \in {f \in E : f[2] = m}}
  IN  /\ copyEdges' = copyEdges \cup E
      /\ pts' = [m \in Node |-> pts[m] \cup into(m)]
      /\ reanalyze' = (reanalyze \/ E # {})
      /\ UNCHANGED worklist

(***************************************************************************)
(* addCopyEdge: the sources of the new edges E flow to their targets at    *)
(* once, and the targets that grow are pushed.                             *)
(***************************************************************************)
AddCopyEdges(E) ==
  LET into(m) == UNION {pts[e[1]] : e \in {f \in E : f[2] = m}}
  IN  /\ copyEdges' = copyEdges \cup E
      /\ pts' = [m \in Node |-> pts[m] \cup into(m)]
      /\ worklist' = worklist \cup {m \in Node : ~(into(m) \subseteq pts[m])}
      /\ reanalyze' = (reanalyze \/ E # {})

(* Faulty: the new edge starts at the object, not at its representative.   *)
HandleLoadUnmapped(e) ==
  /\ e \in pendLoads
  /\ pendLoads' = pendLoads \ {e}
  /\ LET newPts == pts[e[1]] \ loadCache[e]
     IN  /\ loadCache' = [loadCache EXCEPT ![e] = @ \cup newPts]
         /\ AddCopyEdges(NoLoops({<<o, e[2]>> : o \in newPts \ Opaque}) \ copyEdges)
  /\ UNCHANGED <<prog, phase, rep, subs, loadEdges, storeEdges, propaPts, storeCache,
                 nodeStack, pendStores, pendParams, indCalls>>

(* handleLoad: for the objects new at this edge, o --copy--> dst.          *)
HandleLoad(e) ==
  /\ e \in pendLoads
  /\ pendLoads' = pendLoads \ {e}
  /\ LET newPts == pts[e[1]] \ loadCache[e]
     IN  /\ loadCache' = [loadCache EXCEPT ![e] = @ \cup newPts]
         /\ AddCopyEdges(NoLoops({<<rep[o], e[2]>> : o \in newPts \ Opaque}) \ copyEdges)
  /\ UNCHANGED <<prog, phase, rep, subs, loadEdges, storeEdges, propaPts, storeCache,
                 nodeStack, pendStores, pendParams, indCalls>>

(* Faulty: source and destination of the store are confused.               *)
HandleStoreSwapped(e) ==
  /\ pendLoads = {}
  /\ e \in pendStores
  /\ pendStores' = pendStores \ {e}
  /\ LET newPts == pts[e[1]] \ storeCache[e]
     IN  /\ storeCache' = [storeCache EXCEPT ![e] = @ \cup newPts]
         /\ AddCopyEdges(NoLoops({<<e[2], rep[o]>> : o \in newPts \ Opaque}) \ copyEdges)
  /\ UNCHANGED <<prog, phase, rep, subs, loadEdges, storeEdges, propaPts, loadCache,
                 nodeStack, pendLoads, pendParams, indCalls>>

(* handleStore: for the objects new at this edge, src --copy--> o.         *)
HandleStore(e) ==
  /\ pendLoads = {}
  /\ e \in pendStores
  /\ pendStores' = pendStores \ {e}
  /\ LET newPts == pts[e[2]] \ storeCache[e]
     IN  /\ storeCache' = [storeCache EXCEPT ![e] = @ \cup newPts]
         /\ AddCopyEdges(NoLoops({<<e[1], rep[o]>> : o \in newPts \ Opaque}) \ copyEdges)
  /\ UNCHANGED <<prog, phase, rep, subs, loadEdges, storeEdges, propaPts, loadCache,
                 nodeStack, pendLoads, pendParams, indCalls>>

-----------------------------------------------------------------------------
(***************************************************************************)
(* updateCallGraph: once the worklist is empty, resolve the indirect calls *)
(* and add all new parameter copies; then union along each of them and     *)
(* push its target.                                                        *)
(***************************************************************************)
UpdateCallGraph ==
  /\ phase = "solve"
  /\ nodeStack = {} /\ worklist = {} /\ pendLoads = {} /\ pendStores = {}
  /\ \E C \in NewCalls(prog, getPts, indCalls) :
       /\ indCalls' = indCalls \cup C
       /\ pendParams' = ParamCopies(prog, C, rep) \ copyEdges
       /\ copyEdges' = copyEdges \cup pendParams'
       /\ reanalyze' = (reanalyze \/ C # {})
  /\ phase' = "params"
  /\ UNCHANGED <<prog, rep, subs, loadEdges, storeEdges, pts, propaPts, caches,
                 worklist, nodeStack, pending>>

ConnectParam(e) ==
  /\ phase = "params"
  /\ e \in pendParams
  /\ pendParams' = pendParams \ {e}
  /\ pts' = [pts EXCEPT ![e[2]] = @ \cup pts[e[1]]]
  /\ worklist' = worklist \cup {e[2]}
  /\ UNCHANGED <<prog, phase, graph, propaPts, caches, nodeStack, pending,
                 indCalls, reanalyze>>

(* Faulty: reanalyze is not reset.                                         *)
EndRoundUnreset ==
  /\ phase = "params" /\ pendParams = {}
  /\ phase' = IF reanalyze THEN "scc" ELSE "done"
  /\ UNCHANGED <<prog, graph, pts, propaPts, caches, worklist, nodeStack, pending,
                 pendParams, indCalls, reanalyze>>

(* The loop of analyze: another wave if one was asked for.                 *)
EndRound ==
  /\ phase = "params" /\ pendParams = {}
  /\ phase' = IF reanalyze THEN "scc" ELSE "done"
  /\ reanalyze' = FALSE
  /\ UNCHANGED <<prog, graph, pts, propaPts, caches, worklist, nodeStack, pending,
                 pendParams, indCalls>>

Terminated == phase = "done" /\ UNCHANGED vars

Next ==
  \/ ProcessAllAddr
  \/ SCCDetect
  \/ \E n \in Node : ProcessNode(n) \/ PopFromWorklist(n)
  \/ \E e \in Edge : HandleLoad(e) \/ HandleStore(e) \/ ConnectParam(e)
  \/ UpdateCallGraph
  \/ EndRound
  \/ Terminated

(* One thread runs the analysis and nothing blocks it.                     *)
Spec == Init /\ [][Next]_vars /\ WF_vars(Next)

-----------------------------------------------------------------------------
(***************************************************************************)
(* Properties.                                                             *)
(***************************************************************************)

Done == phase = "done"

(* The call budget was not hit: every callable function is connected.      *)
CallsResolved == Callable(prog, getPts, indCalls) = {}

(* Difference propagation loses nothing.  When the analysis ends, address, *)
(* copy and (within the budget) call constraints hold, and so do the       *)
(* copies derived from loads and stores, although a node only ever passes  *)
(* on its diff and merged nodes take the intersection of what they had     *)
(* passed on.                                                              *)
DoneIsClosed ==
  Done => /\ AddrHolds(prog, getPts)
          /\ CopyHolds(prog, getPts)
          /\ \A e \in copyEdges : pts[e[1]] \subseteq pts[e[2]]
          /\ CallsResolved => CallHolds(prog, getPts)

(* Loads and stores are complete at the nodes that were never merged: the  *)
(* per-edge caches skip nothing that was not handled.                      *)
Unmerged(n) == rep[n] = n /\ subs[n] = {n}

DoneHandledUnmerged ==
  Done =>
    /\ \A e \in prog.load : Unmerged(e[1]) =>
         \A o \in pts[e[1]] \ Opaque : getPts[o] \subseteq getPts[e[2]]
    /\ \A e \in prog.store : Unmerged(e[2]) =>
         \A o \in pts[e[2]] \ Opaque : getPts[e[1]] \subseteq getPts[o]

(* Load and store constraints hold at the end.  Andersen.cpp:138-141 and   *)
(* 157-160 promise it: "node \in pts(src) ==> node--copy-->dst".           *)
DoneIsSolution == Done => IsSolution(prog, getPts)

(* Precision.  At no time does a pointer point to an object that some      *)
(* solution of the constraints keeps out: merging cycles, caches and diffs *)
(* introduce nothing.                                                      *)
NeverSpurious == NothingSpurious(prog, getPts)

(* What has been passed on has arrived, at every moment of every wave.     *)
PassedOnHasArrived ==
  \A e \in copyEdges \ pendParams : propaPts[e[1]] \subseteq pts[e[2]]

(* What is cached at a load or store edge has its copy edge, also after    *)
(* the objects or the edge's end were merged.                              *)
CachedIsConnected ==
  /\ \A e \in loadEdges : \A o \in loadCache[e] \ Opaque :
       rep[o] = e[2] \/ <<rep[o], e[2]>> \in copyEdges
  /\ \A e \in storeEdges : \A o \in storeCache[e] \ Opaque :
       rep[o] = e[1] \/ <<e[1], rep[o]>> \in copyEdges

(* The waves end.                                                          *)
Termination == <>Done

=============================================================================
