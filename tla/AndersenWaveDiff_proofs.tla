----------------------- MODULE AndersenWaveDiff_proofs -----------------------
(***************************************************************************)
(* Proofs about the wave-propagation solver, for every set of programs:    *)
(* its state is well formed, what a node has passed on has arrived, what   *)
(* is cached is connected, the result is closed under address, copy and    *)
(* call constraints, and it contains nothing a solution does without.      *)
(* Then about the same with fields (FieldWave), from LeastElement on: what *)
(* merging nodes in any order makes of the graph, that the state stays     *)
(* well formed, that a collapsed object stays whole, and that the analysis *)
(* ends closed.                                                            *)
(***************************************************************************)
EXTENDS FieldWave, ConstraintGraph_proofs, FiniteSetTheorems, WellFoundedInduction

-----------------------------------------------------------------------------
(* All edges join representatives, and the representative maps agree.      *)
GraphInv ==
  /\ RepAgree(rep, subs)
  /\ AtReps(copyEdges, rep)
  /\ AtReps(loadEdges, rep)
  /\ AtReps(storeEdges, rep)

(* During addr nothing is merged and nothing points anywhere; the stack    *)
(* and the edges still to handle belong to the wave, the parameter copies  *)
(* to the phase after it.                                                  *)
PhaseInv ==
  /\ phase = "addr" => rep = [n \in Node |-> n] /\ pts = [n \in Node |-> {}]
  /\ phase # "solve" => nodeStack = {} /\ pendLoads = {} /\ pendStores = {}
  /\ phase # "params" => pendParams = {}
  /\ pendParams \subseteq copyEdges

WellFormedInv == TypeOK /\ GraphInv /\ PhaseInv

LEMMA InitTypeOK == Init => TypeOK
<1> SUFFICES ASSUME Init PROVE TypeOK
  OBVIOUS
<1>1. prog \in Programs
  BY DEF Init
<1>2. prog.copy \subseteq Edge /\ prog.load \subseteq Edge /\ prog.store \subseteq Edge
  BY <1>1, ProgramFields
<1> QED BY <1>1, <1>2 DEF Init, TypeOK, NoLoops, Assignment

LEMMA InitWellFormed == Init => WellFormedInv
<1> SUFFICES ASSUME Init PROVE WellFormedInv
  OBVIOUS
<1>1. TypeOK
  BY InitTypeOK
<1>2. GraphInv
  BY <1>1 DEF TypeOK, Init, GraphInv, RepAgree, AtReps, Edge
<1>3. PhaseInv
  BY DEF Init, PhaseInv
<1> QED BY <1>1, <1>2, <1>3 DEF WellFormedInv

-----------------------------------------------------------------------------
(* Adding copy edges that join representatives does no harm, whatever load *)
(* or store asked for them.                                                *)
LEMMA AddCopyEdgesKeeps ==
  ASSUME TypeOK, GraphInv, NEW E, E \subseteq Edge, AtReps(E, rep), AddCopyEdges(E)
  PROVE  /\ copyEdges' \subseteq Edge /\ AtReps(copyEdges', rep)
         /\ pts' \in Assignment
         /\ worklist' \subseteq Node
         /\ reanalyze' \in BOOLEAN
<1>1. copyEdges' \subseteq Edge /\ AtReps(copyEdges', rep)
  BY DEF AddCopyEdges, TypeOK, GraphInv, AtReps
<1>2. \A f \in E : f[1] \in Node
  BY DEF Edge
<1>3. \A m \in Node : UNION {pts[e[1]] : e \in {f \in E : f[2] = m}} \subseteq Obj
  BY <1>2 DEF TypeOK, Assignment
<1>4. pts' \in Assignment
  BY <1>3 DEF AddCopyEdges, TypeOK, Assignment
<1>5. worklist' \subseteq Node /\ reanalyze' \in BOOLEAN
  BY DEF AddCopyEdges, TypeOK
<1> QED BY <1>1, <1>4, <1>5

(* What the objects in S are loaded into, or what is stored to them.       *)
LoadCopies(S, n)  == NoLoops({<<rep[o], n>> : o \in S \ Opaque}) \ copyEdges
StoreCopies(S, n) == NoLoops({<<n, rep[o]>> : o \in S \ Opaque}) \ copyEdges

LEMMA NewCopies ==
  ASSUME TypeOK, GraphInv, NEW S, S \subseteq Obj, NEW n \in Node, rep[n] = n
  PROVE  /\ LoadCopies(S, n) \subseteq Edge /\ AtReps(LoadCopies(S, n), rep)
         /\ StoreCopies(S, n) \subseteq Edge /\ AtReps(StoreCopies(S, n), rep)
<1>1. S \subseteq Node /\ \A m \in Node : rep[m] \in Node /\ rep[rep[m]] = rep[m]
  BY GraphAssumption DEF TypeOK, GraphInv, RepAgree
<1> QED BY <1>1 DEF LoadCopies, StoreCopies, NoLoops, Edge, AtReps

(* The two steps that handle an edge, with the copy edges they add named.  *)
LEMMA HandleLoadStep ==
  ASSUME TypeOK, GraphInv, NEW e \in Edge, HandleLoad(e)
  PROVE  /\ e \in pendLoads /\ e \in loadEdges
         /\ e[1] \in Node /\ e[2] \in Node /\ rep[e[2]] = e[2]
         /\ pts[e[1]] \ loadCache[e] \subseteq Obj
         /\ AddCopyEdges(LoadCopies(pts[e[1]] \ loadCache[e], e[2]))
         /\ loadCache' = [loadCache EXCEPT ![e] = @ \cup (pts[e[1]] \ loadCache[e])]
<1>1. e \in pendLoads /\ e \in loadEdges
  BY DEF HandleLoad, TypeOK
<1>2. e[1] \in Node /\ e[2] \in Node /\ rep[e[2]] = e[2]
  BY <1>1 DEF Edge, GraphInv, AtReps
<1>3. pts[e[1]] \ loadCache[e] \subseteq Obj
  BY <1>2 DEF TypeOK, Assignment
<1> QED BY <1>1, <1>2, <1>3 DEF HandleLoad, LoadCopies

LEMMA HandleStoreStep ==
  ASSUME TypeOK, GraphInv, NEW e \in Edge, HandleStore(e)
  PROVE  /\ e \in pendStores /\ e \in storeEdges
         /\ e[1] \in Node /\ e[2] \in Node /\ rep[e[1]] = e[1]
         /\ pts[e[2]] \ storeCache[e] \subseteq Obj
         /\ AddCopyEdges(StoreCopies(pts[e[2]] \ storeCache[e], e[1]))
         /\ storeCache' = [storeCache EXCEPT ![e] = @ \cup (pts[e[2]] \ storeCache[e])]
<1>1. e \in pendStores /\ e \in storeEdges
  BY DEF HandleStore, TypeOK
<1>2. e[1] \in Node /\ e[2] \in Node /\ rep[e[1]] = e[1]
  BY <1>1 DEF Edge, GraphInv, AtReps
<1>3. pts[e[2]] \ storeCache[e] \subseteq Obj
  BY <1>2 DEF TypeOK, Assignment
<1> QED BY <1>1, <1>2, <1>3 DEF HandleStore, StoreCopies

LEMMA HandleLoadKeepsForm ==
  ASSUME WellFormedInv, NEW e \in Edge, HandleLoad(e)
  PROVE  WellFormedInv'
<1>1. TypeOK /\ GraphInv /\ PhaseInv
  BY DEF WellFormedInv
<1>2. /\ copyEdges' \subseteq Edge /\ AtReps(copyEdges', rep)
      /\ pts' \in Assignment /\ worklist' \subseteq Node /\ reanalyze' \in BOOLEAN
  BY <1>1, HandleLoadStep, NewCopies, AddCopyEdgesKeeps
<1>3. loadCache' \in [Edge -> SUBSET Obj]
  <2>1. loadCache \in [Edge -> SUBSET Obj]
    BY <1>1 DEF TypeOK
  <2>2. PICK S \in SUBSET Obj : loadCache' = [loadCache EXCEPT ![e] = @ \cup S]
    BY <1>1, HandleLoadStep
  <2> QED BY <2>1, <2>2
<1>4. TypeOK'
  BY <1>1, <1>2, <1>3 DEF HandleLoad, TypeOK
<1>5. GraphInv'
  BY <1>1, <1>2 DEF HandleLoad, GraphInv
<1>6. PhaseInv'
  BY <1>1 DEF HandleLoad, AddCopyEdges, PhaseInv
<1> QED BY <1>4, <1>5, <1>6 DEF WellFormedInv

LEMMA HandleStoreKeepsForm ==
  ASSUME WellFormedInv, NEW e \in Edge, HandleStore(e)
  PROVE  WellFormedInv'
<1>1. TypeOK /\ GraphInv /\ PhaseInv
  BY DEF WellFormedInv
<1>2. /\ copyEdges' \subseteq Edge /\ AtReps(copyEdges', rep)
      /\ pts' \in Assignment /\ worklist' \subseteq Node /\ reanalyze' \in BOOLEAN
  BY <1>1, HandleStoreStep, NewCopies, AddCopyEdgesKeeps
<1>3. storeCache' \in [Edge -> SUBSET Obj]
  <2>1. storeCache \in [Edge -> SUBSET Obj]
    BY <1>1 DEF TypeOK
  <2>2. PICK S \in SUBSET Obj : storeCache' = [storeCache EXCEPT ![e] = @ \cup S]
    BY <1>1, HandleStoreStep
  <2> QED BY <2>1, <2>2
<1>4. TypeOK'
  BY <1>1, <1>2, <1>3 DEF HandleStore, TypeOK
<1>5. GraphInv'
  BY <1>1, <1>2 DEF HandleStore, GraphInv
<1>6. PhaseInv'
  BY <1>1 DEF HandleStore, AddCopyEdges, PhaseInv
<1> QED BY <1>4, <1>5, <1>6 DEF WellFormedInv

(* The merge.                                                              *)
LEMMA MergeStep ==
  ASSUME SCCDetect
  PROVE  \E root \in RootMaps(copyEdges) :
           /\ rep' = MergedRep(rep, subs, root)
           /\ subs' = MergedSubs(subs, root)
           /\ copyEdges' = NoLoops(Moved(copyEdges, root))
           /\ loadEdges' = Moved(loadEdges, root)
           /\ storeEdges' = Moved(storeEdges, root)
           /\ loadCache' = MovedCache(loadCache, loadEdges, root)
           /\ storeCache' = MovedCache(storeCache, storeEdges, root)
           /\ pts' = MergedPts(pts, root)
           /\ propaPts' = MergedPropa(root)
           /\ nodeStack' = {n \in Node : rep[n] = n /\ root[n] = n}
BY DEF SCCDetect

LEMMA MergeKeepsForm ==
  ASSUME WellFormedInv, SCCDetect
  PROVE  WellFormedInv'
<1>1. PICK root \in RootMaps(copyEdges) :
        /\ rep' = MergedRep(rep, subs, root)
        /\ subs' = MergedSubs(subs, root)
        /\ copyEdges' = NoLoops(Moved(copyEdges, root))
        /\ loadEdges' = Moved(loadEdges, root)
        /\ storeEdges' = Moved(storeEdges, root)
        /\ loadCache' = MovedCache(loadCache, loadEdges, root)
        /\ storeCache' = MovedCache(storeCache, storeEdges, root)
        /\ pts' = MergedPts(pts, root)
        /\ propaPts' = MergedPropa(root)
        /\ nodeStack' = {n \in Node : rep[n] = n /\ root[n] = n}
  BY MergeStep
<1>2. /\ rep \in [Node -> Node] /\ subs \in [Node -> SUBSET Node]
      /\ pts \in Assignment /\ propaPts \in Assignment
      /\ copyEdges \subseteq Edge /\ loadEdges \subseteq Edge /\ storeEdges \subseteq Edge
      /\ RepAgree(rep, subs)
      /\ AtReps(copyEdges, rep) /\ AtReps(loadEdges, rep) /\ AtReps(storeEdges, rep)
  BY DEF WellFormedInv, TypeOK, GraphInv
<1>3. /\ phase = "scc" /\ phase' = "solve" /\ prog' = prog /\ worklist' = worklist
      /\ pendLoads' = pendLoads /\ pendStores' = pendStores /\ pendParams' = pendParams
      /\ indCalls' = indCalls /\ reanalyze' = reanalyze
  BY DEF SCCDetect, pending
<1>4. pendLoads = {} /\ pendStores = {} /\ pendParams = {}
  BY <1>3 DEF WellFormedInv, PhaseInv
<1>5. rep' \in [Node -> Node] /\ subs' \in [Node -> SUBSET Node] /\ RepAgree(rep', subs')
  BY <1>1, <1>2, MergedMaps
<1>6. Moved(copyEdges, root) \subseteq Edge /\ AtReps(Moved(copyEdges, root), rep')
  BY <1>1, <1>2, MovedAtReps
<1>7. loadEdges' \subseteq Edge /\ AtReps(loadEdges', rep')
  BY <1>1, <1>2, MovedAtReps
<1>8. storeEdges' \subseteq Edge /\ AtReps(storeEdges', rep')
  BY <1>1, <1>2, MovedAtReps
<1>9. copyEdges' \subseteq Edge /\ AtReps(copyEdges', rep')
  BY <1>1, <1>6 DEF NoLoops, AtReps
<1>10. pts' \in Assignment
  BY <1>1, <1>2, MergedPtsAtRoot
<1>11. propaPts' \in Assignment
  BY <1>1, <1>2 DEF MergedPropa, Assignment
<1>12. loadCache' \in [Edge -> SUBSET Obj] /\ storeCache' \in [Edge -> SUBSET Obj]
  BY <1>1 DEF WellFormedInv, TypeOK, MovedCache
<1>13. nodeStack' \subseteq Node
  BY <1>1
<1>14. TypeOK'
  BY <1>3, <1>4, <1>5, <1>7, <1>8, <1>9, <1>10, <1>11, <1>12, <1>13
     DEF WellFormedInv, TypeOK
<1>15. GraphInv'
  BY <1>5, <1>7, <1>8, <1>9 DEF GraphInv
<1>16. PhaseInv'
  BY <1>3, <1>4 DEF PhaseInv
<1> QED BY <1>14, <1>15, <1>16 DEF WellFormedInv

LEMMA UpdateKeepsForm ==
  ASSUME WellFormedInv, UpdateCallGraph
  PROVE  WellFormedInv'
<1>1. PICK C \in NewCalls(prog, getPts, indCalls) :
        /\ indCalls' = indCalls \cup C
        /\ pendParams' = ParamCopies(prog, C, rep) \ copyEdges
        /\ copyEdges' = copyEdges \cup pendParams'
        /\ reanalyze' = (reanalyze \/ C # {})
  BY DEF UpdateCallGraph
<1>2. prog \in Programs /\ rep \in [Node -> Node]
  BY DEF WellFormedInv, TypeOK
<1>3. C \subseteq prog.callee
  BY <1>2, NewCallsCallable
<1>4. \A m \in Node : rep[rep[m]] = rep[m]
  BY <1>2 DEF WellFormedInv, GraphInv, RepAgree
<1>5. ParamCopies(prog, C, rep) \subseteq Edge /\ AtReps(ParamCopies(prog, C, rep), rep)
  BY <1>2, <1>3, <1>4, ParamCopiesAtReps
<1>6. copyEdges' \subseteq Edge /\ pendParams' \subseteq Edge
  BY <1>1, <1>5 DEF WellFormedInv, TypeOK
<1>7. TypeOK'
  BY <1>1, <1>3, <1>6 DEF WellFormedInv, TypeOK, UpdateCallGraph, caches, pending
<1>8. AtReps(copyEdges', rep)
  BY <1>1, <1>5 DEF WellFormedInv, GraphInv, AtReps
<1>9. GraphInv'
  BY <1>8 DEF WellFormedInv, GraphInv, UpdateCallGraph
<1>10. PhaseInv'
  BY <1>1 DEF UpdateCallGraph, PhaseInv, pending
<1> QED BY <1>7, <1>9, <1>10 DEF WellFormedInv

LEMMA NextWellFormed ==
  ASSUME WellFormedInv, [Next]_vars
  PROVE  WellFormedInv'
<1> USE DEF WellFormedInv
<1>1. CASE ProcessAllAddr
  BY <1>1 DEF ProcessAllAddr, graph, caches, pending, TypeOK, GraphInv, PhaseInv, Assignment
<1>2. ASSUME NEW n \in Node, ProcessNode(n) PROVE WellFormedInv'
  <2>1. pts' \in Assignment /\ propaPts' \in Assignment
    BY <1>2 DEF ProcessNode, TypeOK, Assignment
  <2>2. nodeStack' \subseteq Node /\ worklist' \subseteq Node
    BY <1>2 DEF ProcessNode, TypeOK
  <2>3. TypeOK'
    BY <1>2, <2>1, <2>2 DEF ProcessNode, graph, caches, pending, TypeOK
  <2>4. GraphInv' /\ PhaseInv'
    BY <1>2 DEF ProcessNode, graph, pending, GraphInv, PhaseInv
  <2> QED BY <2>3, <2>4
<1>3. ASSUME NEW n \in Node, PopFromWorklist(n) PROVE WellFormedInv'
  <2>1. TypeOK'
    BY <1>3 DEF PopFromWorklist, graph, caches, TypeOK
  <2>2. GraphInv' /\ PhaseInv'
    BY <1>3 DEF PopFromWorklist, graph, GraphInv, PhaseInv
  <2> QED BY <2>1, <2>2
<1>4. ASSUME NEW e \in Edge, ConnectParam(e) PROVE WellFormedInv'
  <2>1. e[1] \in Node /\ e[2] \in Node
    BY DEF Edge
  <2>2. pts' \in Assignment /\ worklist' \subseteq Node
    BY <1>4, <2>1 DEF ConnectParam, TypeOK, Assignment
  <2>3. TypeOK'
    BY <1>4, <2>2 DEF ConnectParam, graph, caches, pending, TypeOK
  <2>4. GraphInv' /\ PhaseInv'
    BY <1>4 DEF ConnectParam, graph, pending, GraphInv, PhaseInv
  <2> QED BY <2>3, <2>4
<1>5. CASE EndRound
  BY <1>5 DEF EndRound, graph, caches, pending, TypeOK, GraphInv, PhaseInv
<1>6. CASE UNCHANGED vars
  BY <1>6 DEF vars, graph, caches, pending, TypeOK, GraphInv, PhaseInv
<1> QED BY <1>1, <1>2, <1>3, <1>4, <1>5, <1>6, MergeKeepsForm, HandleLoadKeepsForm,
           HandleStoreKeepsForm, UpdateKeepsForm DEF Next, Terminated

LEMMA WellFormed == Spec => []WellFormedInv
<1>1. WellFormedInv /\ [Next]_vars => WellFormedInv'
  BY NextWellFormed
<1> QED BY <1>1, InitWellFormed, PTL DEF Spec

(* Every reachable state has the types declared.                           *)
THEOREM TypeCorrect == Spec => []TypeOK
<1>1. WellFormedInv => TypeOK
  BY DEF WellFormedInv
<1> QED BY <1>1, WellFormed, PTL

-----------------------------------------------------------------------------
(***************************************************************************)
(* What has been passed on has arrived, and never exceeds what there is.   *)
(***************************************************************************)
PropaInv ==
  /\ \A n \in Node : propaPts[n] \subseteq pts[n]
  /\ PassedOnHasArrived

(***************************************************************************)
(* The merged sets of a step: the representative of a component has passed *)
(* on no more than each of its members had.                                *)
(***************************************************************************)
LEMMA MergedPropaBelow ==
  ASSUME propaPts \in Assignment, NEW root \in RootMaps(copyEdges), NEW n \in Node
  PROVE  /\ MergedPropa(root)[root[n]] \subseteq propaPts[n]
         /\ MergedPropa(root)[n] \subseteq propaPts[n]
<1>1. root[n] \in Node
  BY RootOfComponent
<1> QED BY <1>1 DEF MergedPropa

(* A step of a load or store, or a new parameter copy, lets points-to sets *)
(* grow, and a new copy edge starts with all its source points to.         *)
LEMMA AddedCopiesArrive ==
  ASSUME TypeOK, NEW E, E \subseteq Edge, AddCopyEdges(E)
  PROVE  /\ \A n \in Node : pts[n] \subseteq pts'[n]
         /\ \A e \in E : pts[e[1]] \subseteq pts'[e[2]]
         /\ \A n \in Node : n \notin worklist' => pts'[n] = pts[n]
         /\ copyEdges' = copyEdges \cup E
         /\ worklist \subseteq worklist'
<1>1. \A e \in E : e[1] \in Node /\ e[2] \in Node
  BY DEF Edge
<1> QED BY <1>1 DEF AddCopyEdges, TypeOK, Assignment

LEMMA AddCopyEdgesPropa ==
  ASSUME TypeOK, PropaInv, NEW E, E \subseteq Edge, AddCopyEdges(E),
         propaPts' = propaPts, pendParams' = pendParams
  PROVE  PropaInv'
<1>1. /\ \A n \in Node : pts[n] \subseteq pts'[n]
      /\ \A e \in E : pts[e[1]] \subseteq pts'[e[2]]
      /\ copyEdges' = copyEdges \cup E
  BY AddedCopiesArrive
<1>2. \A e \in copyEdges \cup E : e[1] \in Node /\ e[2] \in Node
  BY DEF TypeOK, Edge
<1>3. \A n \in Node : propaPts'[n] \subseteq pts'[n]
  BY <1>1 DEF PropaInv
<1>4. ASSUME NEW e \in copyEdges' \ pendParams' PROVE propaPts'[e[1]] \subseteq pts'[e[2]]
  <2>1. CASE e \in E
    BY <2>1, <1>1, <1>2 DEF PropaInv
  <2>2. CASE e \in copyEdges
    BY <2>2, <1>1, <1>2, <1>4 DEF PropaInv, PassedOnHasArrived
  <2> QED BY <2>1, <2>2, <1>1, <1>4
<1> QED BY <1>3, <1>4 DEF PropaInv, PassedOnHasArrived

LEMMA MergePropa ==
  ASSUME WellFormedInv, PropaInv, SCCDetect
  PROVE  PropaInv'
<1>1. PICK root \in RootMaps(copyEdges) :
        /\ copyEdges' = NoLoops(Moved(copyEdges, root))
        /\ pts' = MergedPts(pts, root)
        /\ propaPts' = MergedPropa(root)
  BY MergeStep
<1>2. /\ pts \in Assignment /\ propaPts \in Assignment
      /\ \A e \in copyEdges : e[1] \in Node /\ e[2] \in Node
  BY DEF WellFormedInv, TypeOK, Edge
<1>3. pendParams = {}
  BY DEF SCCDetect, WellFormedInv, PhaseInv
<1>4. ASSUME NEW n \in Node PROVE propaPts'[n] \subseteq pts'[n]
  <2>1. propaPts'[n] \subseteq propaPts[n]
    BY <1>1, <1>2, MergedPropaBelow
  <2>2. CASE root[n] = n
    <3>1. pts[n] \subseteq pts'[n]
      BY <2>2, <1>1, <1>2, MergedPtsAtRoot
    <3> QED BY <2>1, <3>1 DEF PropaInv
  <2>3. CASE root[n] # n
    BY <2>1, <2>3, <1>1 DEF PropaInv, MergedPts
  <2> QED BY <2>2, <2>3
<1>5. ASSUME NEW e \in copyEdges' PROVE propaPts'[e[1]] \subseteq pts'[e[2]]
  <2>1. PICK d \in copyEdges : e = <<root[d[1]], root[d[2]]>>
    BY <1>1, <1>5 DEF NoLoops, Moved
  <2>2. propaPts'[root[d[1]]] \subseteq propaPts[d[1]]
    BY <1>1, <1>2, MergedPropaBelow
  <2>3. propaPts[d[1]] \subseteq pts[d[2]]
    BY <1>3 DEF PropaInv, PassedOnHasArrived
  <2>4. pts[d[2]] \subseteq pts'[root[d[2]]]
    BY <1>1, <1>2, MergedPtsAtRoot
  <2> QED BY <2>1, <2>2, <2>3, <2>4
<1> QED BY <1>4, <1>5 DEF PropaInv, PassedOnHasArrived

LEMMA ProcessNodePropa ==
  ASSUME WellFormedInv, PropaInv, NEW n \in Node, ProcessNode(n)
  PROVE  PropaInv'
<1>1. /\ pts \in Assignment /\ propaPts \in Assignment /\ pendParams = {}
      /\ \A e \in copyEdges : e[1] \in Node /\ e[2] \in Node /\ e = <<e[1], e[2]>>
  BY DEF WellFormedInv, TypeOK, PhaseInv, ProcessNode, Edge
<1>2. /\ pts' = [m \in Node |-> IF <<n, m>> \in copyEdges
                                THEN pts[m] \cup (pts[n] \ propaPts[n]) ELSE pts[m]]
      /\ propaPts' = [propaPts EXCEPT ![n] = pts[n]]
      /\ copyEdges' = copyEdges /\ pendParams' = pendParams
  BY DEF ProcessNode, graph
<1>3. \A m \in Node : pts[m] \subseteq pts'[m]
  BY <1>2
<1>4. \A m \in Node : propaPts'[m] = IF m = n THEN pts[n] ELSE propaPts[m]
  BY <1>1, <1>2 DEF Assignment
<1>5. \A m \in Node : propaPts'[m] \subseteq pts'[m]
  BY <1>3, <1>4 DEF PropaInv
<1>6. ASSUME NEW e \in copyEdges PROVE propaPts'[e[1]] \subseteq pts'[e[2]]
  <2>1. propaPts[e[1]] \subseteq pts[e[2]]
    BY <1>1 DEF PropaInv, PassedOnHasArrived
  <2>2. CASE e[1] = n
    BY <2>1, <2>2, <1>1, <1>2, <1>4
  <2>3. CASE e[1] # n
    BY <2>1, <2>3, <1>1, <1>3, <1>4
  <2> QED BY <2>2, <2>3
<1> QED BY <1>2, <1>5, <1>6 DEF PropaInv, PassedOnHasArrived

LEMMA NextPropa ==
  ASSUME WellFormedInv, PropaInv, [Next]_vars
  PROVE  PropaInv'
<1>1. TypeOK /\ GraphInv /\ PhaseInv
  BY DEF WellFormedInv
<1>2. CASE ProcessAllAddr
  BY <1>1, <1>2 DEF ProcessAllAddr, graph, PhaseInv, PropaInv, PassedOnHasArrived, TypeOK, Edge
<1>3. ASSUME NEW e \in Edge, HandleLoad(e) PROVE PropaInv'
  <2>1. PICK E \in SUBSET Edge : AddCopyEdges(E)
    BY <1>1, <1>3, HandleLoadStep, NewCopies
  <2> QED BY <2>1, <1>1, <1>3, AddCopyEdgesPropa DEF HandleLoad
<1>4. ASSUME NEW e \in Edge, HandleStore(e) PROVE PropaInv'
  <2>1. PICK E \in SUBSET Edge : AddCopyEdges(E)
    BY <1>1, <1>4, HandleStoreStep, NewCopies
  <2> QED BY <2>1, <1>1, <1>4, AddCopyEdgesPropa DEF HandleStore
<1>5. ASSUME NEW n \in Node, PopFromWorklist(n) PROVE PropaInv'
  BY <1>5 DEF PopFromWorklist, graph, PropaInv, PassedOnHasArrived
<1>6. CASE UpdateCallGraph
  <2>1. /\ pts' = pts /\ propaPts' = propaPts
        /\ copyEdges' \ pendParams' \subseteq copyEdges /\ pendParams = {}
    BY <1>1, <1>6 DEF UpdateCallGraph, PhaseInv
  <2> QED BY <2>1 DEF PropaInv, PassedOnHasArrived
<1>7. ASSUME NEW e \in Edge, ConnectParam(e) PROVE PropaInv'
  <2>1. /\ e[1] \in Node /\ e[2] \in Node
        /\ \A d \in copyEdges : d[1] \in Node /\ d[2] \in Node
    BY <1>1 DEF TypeOK, Edge
  <2>2. /\ \A n \in Node : pts[n] \subseteq pts'[n]
        /\ pts[e[1]] \subseteq pts'[e[2]]
    BY <2>1, <1>1, <1>7 DEF ConnectParam, TypeOK, Assignment
  <2>3. /\ propaPts' = propaPts /\ copyEdges' = copyEdges
        /\ pendParams' = pendParams \ {e}
    BY <1>7 DEF ConnectParam, graph
  <2> QED BY <2>1, <2>2, <2>3 DEF PropaInv, PassedOnHasArrived
<1>8. CASE EndRound
  BY <1>8 DEF EndRound, graph, PropaInv, PassedOnHasArrived
<1>9. CASE UNCHANGED vars
  BY <1>9 DEF vars, graph, PropaInv, PassedOnHasArrived
<1> QED BY <1>2, <1>3, <1>4, <1>5, <1>6, <1>7, <1>8, <1>9, MergePropa, ProcessNodePropa
        DEF Next, Terminated

LEMMA PropaInvariant == Spec => [](WellFormedInv /\ PropaInv)
<1>1. Init => WellFormedInv /\ PropaInv
  <2> SUFFICES ASSUME Init PROVE PropaInv
    BY InitWellFormed
  <2>1. \A e \in copyEdges : e[1] \in Node /\ e[2] \in Node
    BY InitTypeOK DEF TypeOK, Edge
  <2> QED BY <2>1 DEF Init, PropaInv, PassedOnHasArrived
<1>2. WellFormedInv /\ PropaInv /\ [Next]_vars => (WellFormedInv /\ PropaInv)'
  BY NextWellFormed, NextPropa
<1> QED BY <1>1, <1>2, PTL DEF Spec

(* Difference propagation forgets nothing: whatever a node has recorded as *)
(* passed on is at the target of each of its copy edges, through every     *)
(* merge, except where a new parameter copy still waits.                   *)
THEOREM Propagation == Spec => []PassedOnHasArrived
<1>1. WellFormedInv /\ PropaInv => PassedOnHasArrived
  BY DEF PropaInv
<1> QED BY <1>1, PropaInvariant, PTL

-----------------------------------------------------------------------------
(***************************************************************************)
(* The caches.  What is cached at an edge has its copy edge.               *)
(***************************************************************************)
LoadsConnected(cache) ==
  \A e \in loadEdges : \A o \in cache[e] \ Opaque : Connects(copyEdges, rep[o], e[2])

StoresConnected(cache) ==
  \A e \in storeEdges : \A o \in cache[e] \ Opaque : Connects(copyEdges, e[1], rep[o])

CacheInv == LoadsConnected(loadCache) /\ StoresConnected(storeCache)

(* A cache that outlives a merge belongs to an edge that was there before, *)
(* at nodes that keep their names.                                         *)
LEMMA CacheOfOldEdge ==
  ASSUME NEW cache, NEW E, NEW root, NEW e \in Edge, NEW o \in MovedCache(cache, E, root)[e]
  PROVE  e \in E /\ root[e[1]] = e[1] /\ root[e[2]] = e[2] /\ o \in cache[e]
BY DEF MovedCache

LEMMA MergeCaches ==
  ASSUME WellFormedInv, CacheInv, SCCDetect
  PROVE  CacheInv'
<1>1. PICK root \in RootMaps(copyEdges) :
        /\ rep' = MergedRep(rep, subs, root)
        /\ copyEdges' = NoLoops(Moved(copyEdges, root))
        /\ loadCache' = MovedCache(loadCache, loadEdges, root)
        /\ storeCache' = MovedCache(storeCache, storeEdges, root)
  BY MergeStep
<1>2. /\ rep \in [Node -> Node] /\ subs \in [Node -> SUBSET Node]
      /\ copyEdges \subseteq Edge /\ RepAgree(rep, subs) /\ AtReps(copyEdges, rep)
      /\ \A e \in Edge : loadCache[e] \subseteq Obj /\ storeCache[e] \subseteq Obj
      /\ Obj \subseteq Node
  BY GraphAssumption DEF WellFormedInv, TypeOK, GraphInv
<1>3. \A n \in Node : rep'[n] = root[rep[n]]
  BY <1>1, <1>2, MergedRepIsRoot
<1>4. loadEdges' \subseteq Edge /\ storeEdges' \subseteq Edge
  BY NextWellFormed DEF Next, WellFormedInv, TypeOK
<1>5. ASSUME NEW e \in loadEdges', NEW o \in loadCache'[e] \ Opaque
      PROVE  Connects(copyEdges', rep'[o], e[2])
  <2>1. e \in loadEdges /\ root[e[2]] = e[2] /\ o \in loadCache[e]
    BY <1>1, <1>4, <1>5, CacheOfOldEdge
  <2>2. o \in Node
    BY <2>1, <1>2, <1>4
  <2>3. Connects(copyEdges, rep[o], e[2])
    BY <2>1, <1>5 DEF CacheInv, LoadsConnected
  <2>4. Connects(copyEdges', root[rep[o]], root[e[2]])
    BY <2>3, <1>1, MergeKeepsConnects
  <2> QED BY <2>1, <2>2, <2>4, <1>3
<1>6. ASSUME NEW e \in storeEdges', NEW o \in storeCache'[e] \ Opaque
      PROVE  Connects(copyEdges', e[1], rep'[o])
  <2>1. e \in storeEdges /\ root[e[1]] = e[1] /\ o \in storeCache[e]
    BY <1>1, <1>4, <1>6, CacheOfOldEdge
  <2>2. o \in Node
    BY <2>1, <1>2, <1>4
  <2>3. Connects(copyEdges, e[1], rep[o])
    BY <2>1, <1>6 DEF CacheInv, StoresConnected
  <2>4. Connects(copyEdges', root[e[1]], root[rep[o]])
    BY <2>3, <1>1, MergeKeepsConnects
  <2> QED BY <2>1, <2>2, <2>4, <1>3
<1> QED BY <1>5, <1>6 DEF CacheInv, LoadsConnected, StoresConnected

(* The copies a load or a store asks for connect all it was asked about.   *)
LEMMA LoadCopiesConnect ==
  ASSUME NEW S, NEW n, NEW o \in S \ Opaque
  PROVE  Connects(copyEdges \cup LoadCopies(S, n), rep[o], n)
BY DEF LoadCopies, NoLoops, Connects

LEMMA StoreCopiesConnect ==
  ASSUME NEW S, NEW n, NEW o \in S \ Opaque
  PROVE  Connects(copyEdges \cup StoreCopies(S, n), n, rep[o])
BY DEF StoreCopies, NoLoops, Connects

LEMMA HandleLoadCaches ==
  ASSUME WellFormedInv, CacheInv, NEW e \in Edge, HandleLoad(e)
  PROVE  CacheInv'
<1> DEFINE S == pts[e[1]] \ loadCache[e]
<1>1. /\ copyEdges' = copyEdges \cup LoadCopies(S, e[2])
      /\ loadCache' = [loadCache EXCEPT ![e] = @ \cup S]
  BY HandleLoadStep DEF WellFormedInv, AddCopyEdges
<1>2. /\ rep' = rep /\ loadEdges' = loadEdges /\ storeEdges' = storeEdges
      /\ storeCache' = storeCache
  BY DEF HandleLoad
<1>3. loadCache \in [Edge -> SUBSET Obj] /\ loadEdges \subseteq Edge
  BY DEF WellFormedInv, TypeOK
<1>4. ASSUME NEW d \in loadEdges, NEW o \in loadCache'[d] \ Opaque
      PROVE  Connects(copyEdges', rep[o], d[2])
  <2>1. CASE o \in loadCache[d]
    BY <2>1, <1>1, <1>4 DEF CacheInv, LoadsConnected, Connects
  <2>2. CASE o \notin loadCache[d]
    <3>1. d = e /\ o \in S
      BY <2>2, <1>1, <1>3, <1>4
    <3> HIDE DEF S
    <3> QED BY <3>1, <1>1, <1>4, LoadCopiesConnect
  <2> QED BY <2>1, <2>2
<1>5. StoresConnected(storeCache)'
  BY <1>1, <1>2 DEF CacheInv, StoresConnected, Connects
<1> QED BY <1>2, <1>4, <1>5 DEF CacheInv, LoadsConnected

LEMMA HandleStoreCaches ==
  ASSUME WellFormedInv, CacheInv, NEW e \in Edge, HandleStore(e)
  PROVE  CacheInv'
<1> DEFINE S == pts[e[2]] \ storeCache[e]
<1>1. /\ copyEdges' = copyEdges \cup StoreCopies(S, e[1])
      /\ storeCache' = [storeCache EXCEPT ![e] = @ \cup S]
  BY HandleStoreStep DEF WellFormedInv, AddCopyEdges
<1>2. /\ rep' = rep /\ loadEdges' = loadEdges /\ storeEdges' = storeEdges
      /\ loadCache' = loadCache
  BY DEF HandleStore
<1>3. storeCache \in [Edge -> SUBSET Obj] /\ storeEdges \subseteq Edge
  BY DEF WellFormedInv, TypeOK
<1>4. ASSUME NEW d \in storeEdges, NEW o \in storeCache'[d] \ Opaque
      PROVE  Connects(copyEdges', d[1], rep[o])
  <2>1. CASE o \in storeCache[d]
    BY <2>1, <1>1, <1>4 DEF CacheInv, StoresConnected, Connects
  <2>2. CASE o \notin storeCache[d]
    <3>1. d = e /\ o \in S
      BY <2>2, <1>1, <1>3, <1>4
    <3> HIDE DEF S
    <3> QED BY <3>1, <1>1, <1>4, StoreCopiesConnect
  <2> QED BY <2>1, <2>2
<1>5. LoadsConnected(loadCache)'
  BY <1>1, <1>2 DEF CacheInv, LoadsConnected, Connects
<1> QED BY <1>2, <1>4, <1>5 DEF CacheInv, StoresConnected

LEMMA NextCaches ==
  ASSUME WellFormedInv, CacheInv, [Next]_vars
  PROVE  CacheInv'
<1>1. ASSUME copyEdges \subseteq copyEdges', UNCHANGED <<rep, loadEdges, storeEdges, caches>>
      PROVE  CacheInv'
  BY <1>1 DEF caches, CacheInv, LoadsConnected, StoresConnected, Connects
<1>2. CASE ProcessAllAddr
  BY <1>1, <1>2 DEF ProcessAllAddr, graph
<1>3. ASSUME NEW n \in Node, ProcessNode(n) PROVE CacheInv'
  BY <1>1, <1>3 DEF ProcessNode, graph
<1>4. ASSUME NEW n \in Node, PopFromWorklist(n) PROVE CacheInv'
  BY <1>1, <1>4 DEF PopFromWorklist, graph
<1>5. CASE UpdateCallGraph
  BY <1>1, <1>5 DEF UpdateCallGraph
<1>6. ASSUME NEW e \in Edge, ConnectParam(e) PROVE CacheInv'
  BY <1>1, <1>6 DEF ConnectParam, graph
<1>7. CASE EndRound
  BY <1>1, <1>7 DEF EndRound, graph
<1>8. CASE UNCHANGED vars
  BY <1>1, <1>8 DEF vars, graph
<1> QED BY <1>2, <1>3, <1>4, <1>5, <1>6, <1>7, <1>8, MergeCaches, HandleLoadCaches,
           HandleStoreCaches DEF Next, Terminated

LEMMA CacheInvariant == Spec => [](WellFormedInv /\ CacheInv)
<1>1. Init => WellFormedInv /\ CacheInv
  <2> SUFFICES ASSUME Init PROVE CacheInv
    BY InitWellFormed
  <2>1. loadEdges \subseteq Edge /\ storeEdges \subseteq Edge
    BY InitTypeOK DEF TypeOK
  <2> QED BY <2>1 DEF Init, CacheInv, LoadsConnected, StoresConnected
<1>2. WellFormedInv /\ CacheInv /\ [Next]_vars => (WellFormedInv /\ CacheInv)'
  BY NextWellFormed, NextCaches
<1> QED BY <1>1, <1>2, PTL DEF Spec

(* Whatever a load or store edge skips because it is in the edge's cache   *)
(* has its copy edge, however objects and ends were merged since.          *)
THEOREM Caching == Spec => []CachedIsConnected
<1>1. WellFormedInv /\ CacheInv => CachedIsConnected
  BY DEF CacheInv, LoadsConnected, StoresConnected, Connects, CachedIsConnected
<1> QED BY <1>1, CacheInvariant, PTL

-----------------------------------------------------------------------------
(***************************************************************************)
(* Precision.  Let T be any solution.  The points-to sets stay below T,    *)
(* T satisfies every edge of the graph as a constraint, and T gives a node *)
(* and its representative the same set.                                    *)
(***************************************************************************)
Below(T) ==
  \A n \in Node : pts[n] \subseteq T[n] /\ T[rep[n]] = T[n]

GraphHolds(T) ==
  /\ \A e \in copyEdges : T[e[1]] \subseteq T[e[2]]
  /\ \A e \in loadEdges : \A o \in T[e[1]] \ Opaque : T[o] \subseteq T[e[2]]
  /\ \A e \in storeEdges : \A o \in T[e[2]] \ Opaque : T[e[1]] \subseteq T[o]

PreciseInv ==
  \A T \in Assignment : IsSolution(prog, T) => Below(T) /\ GraphHolds(T)

LEMMA InitPrecise == Init => PreciseInv
<1> SUFFICES ASSUME Init, NEW T \in Assignment, IsSolution(prog, T)
             PROVE  Below(T) /\ GraphHolds(T)
  BY DEF PreciseInv
<1>1. Below(T)
  BY DEF Init, Below
<1>2. GraphHolds(T)
  BY DEF Init, GraphHolds, IsSolution, CopyHolds, LoadHolds, StoreHolds, NoLoops
<1> QED BY <1>1, <1>2

LEMMA AddrPrecise ==
  ASSUME WellFormedInv, PreciseInv, ProcessAllAddr
  PROVE  PreciseInv'
<1> SUFFICES ASSUME NEW T \in Assignment, IsSolution(prog, T)
             PROVE  (Below(T) /\ GraphHolds(T))'
  BY DEF PreciseInv, ProcessAllAddr
<1>1. Below(T) /\ GraphHolds(T)
  BY DEF PreciseInv
<1>2. Below(T)'
  BY <1>1 DEF Below, ProcessAllAddr, graph, IsSolution, AddrHolds
<1>3. GraphHolds(T)'
  BY <1>1 DEF GraphHolds, ProcessAllAddr, graph
<1> QED BY <1>2, <1>3

LEMMA MergePrecise ==
  ASSUME WellFormedInv, PreciseInv, SCCDetect
  PROVE  PreciseInv'
<1> SUFFICES ASSUME NEW T \in Assignment, IsSolution(prog, T)
             PROVE  (Below(T) /\ GraphHolds(T))'
  BY DEF PreciseInv, SCCDetect
<1>1. Below(T) /\ GraphHolds(T)
  BY DEF PreciseInv
<1>2. PICK root \in RootMaps(copyEdges) :
       /\ rep' = MergedRep(rep, subs, root)
       /\ copyEdges' = NoLoops(Moved(copyEdges, root))
       /\ loadEdges' = Moved(loadEdges, root)
       /\ storeEdges' = Moved(storeEdges, root)
       /\ pts' = MergedPts(pts, root)
  BY MergeStep
<1>3. /\ rep \in [Node -> Node] /\ subs \in [Node -> SUBSET Node] /\ pts \in Assignment
      /\ copyEdges \subseteq Edge /\ loadEdges \subseteq Edge /\ storeEdges \subseteq Edge
      /\ RepAgree(rep, subs) /\ AtReps(copyEdges, rep)
  BY DEF WellFormedInv, TypeOK, GraphInv
<1>4. \A n \in Node : T[root[n]] = T[n]
  BY <1>1, <1>2, <1>3, RootHasSameSet DEF GraphHolds
<1>5. \A n \in Node : rep'[n] = root[rep[n]]
  BY <1>2, <1>3, MergedRepIsRoot
<1>6. Below(T)'
  <2> SUFFICES ASSUME NEW n \in Node
               PROVE  pts'[n] \subseteq T[n] /\ T[rep'[n]] = T[n]
    BY DEF Below
  <2>1. T[rep'[n]] = T[n]
    BY <1>1, <1>3, <1>4, <1>5 DEF Below
  <2>2. ASSUME NEW o \in pts'[n] PROVE o \in T[n]
    <3>1. PICK m \in Node : root[m] = root[n] /\ o \in pts[m]
      BY <2>2, <1>2, <1>3, MergedPtsAtRoot
    <3>2. T[m] = T[n]
      BY <3>1, <1>4
    <3> QED BY <3>1, <3>2, <1>1 DEF Below
  <2> QED BY <2>1, <2>2
<1>7. GraphHolds(T)'
  <2>1. \A e \in Moved(copyEdges, root) : T[e[1]] \subseteq T[e[2]]
    BY <1>1, <1>3, <1>4, MovedEdgesHold DEF GraphHolds
  <2>2. \A e \in loadEdges' : \A o \in T[e[1]] \ Opaque : T[o] \subseteq T[e[2]]
    BY <1>1, <1>2, <1>3, <1>4, MovedEdgesHold DEF GraphHolds
  <2>3. \A e \in storeEdges' : \A o \in T[e[2]] \ Opaque : T[e[1]] \subseteq T[o]
    BY <1>1, <1>2, <1>3, <1>4, MovedEdgesHold DEF GraphHolds
  <2> QED BY <2>1, <2>2, <2>3, <1>2 DEF GraphHolds, NoLoops
<1> QED BY <1>6, <1>7

(* New copy edges that T satisfies keep everything below T.                *)
LEMMA AddedCopiesPrecise ==
  ASSUME TypeOK, NEW T, Below(T), GraphHolds(T), NEW E, E \subseteq Edge,
         \A e \in E : T[e[1]] \subseteq T[e[2]], AddCopyEdges(E),
         UNCHANGED <<rep, loadEdges, storeEdges>>
  PROVE  (Below(T) /\ GraphHolds(T))'
<1>1. GraphHolds(T)'
  BY DEF GraphHolds, AddCopyEdges
<1>2. \A e \in E : e[1] \in Node /\ e[2] \in Node /\ pts[e[1]] \subseteq T[e[2]]
  BY DEF Below, Edge
<1>3. \A n \in Node : pts'[n] \subseteq T[n]
  BY <1>2 DEF AddCopyEdges, Below
<1> QED BY <1>1, <1>3 DEF Below

LEMMA HandleLoadPrecise ==
  ASSUME WellFormedInv, PreciseInv, NEW e \in Edge, HandleLoad(e)
  PROVE  PreciseInv'
<1> SUFFICES ASSUME NEW T \in Assignment, IsSolution(prog, T)
             PROVE  (Below(T) /\ GraphHolds(T))'
  BY DEF PreciseInv, HandleLoad
<1> DEFINE S == pts[e[1]] \ loadCache[e]
           E == LoadCopies(S, e[2])
<1>1. Below(T) /\ GraphHolds(T) /\ TypeOK /\ GraphInv
  BY DEF PreciseInv, WellFormedInv
<1>2. /\ e \in loadEdges /\ e[1] \in Node /\ e[2] \in Node /\ rep[e[2]] = e[2]
      /\ S \subseteq Obj /\ AddCopyEdges(E)
  BY <1>1, HandleLoadStep
<1>3. E \subseteq Edge
  BY <1>1, <1>2, NewCopies
<1>4. ASSUME NEW d \in E PROVE T[d[1]] \subseteq T[d[2]]
  <2>1. PICK o \in S \ Opaque : d = <<rep[o], e[2]>>
    BY <1>4 DEF LoadCopies, NoLoops
  <2>2. T[rep[o]] = T[o] /\ o \in T[e[1]] \ Opaque
    BY <2>1, <1>1, <1>2, GraphAssumption DEF Below
  <2> QED BY <2>1, <2>2, <1>1, <1>2 DEF GraphHolds
<1>5. UNCHANGED <<rep, loadEdges, storeEdges>>
  BY DEF HandleLoad
<1> HIDE DEF E
<1> QED BY <1>1, <1>2, <1>3, <1>4, <1>5, AddedCopiesPrecise

LEMMA HandleStorePrecise ==
  ASSUME WellFormedInv, PreciseInv, NEW e \in Edge, HandleStore(e)
  PROVE  PreciseInv'
<1> SUFFICES ASSUME NEW T \in Assignment, IsSolution(prog, T)
             PROVE  (Below(T) /\ GraphHolds(T))'
  BY DEF PreciseInv, HandleStore
<1> DEFINE S == pts[e[2]] \ storeCache[e]
           E == StoreCopies(S, e[1])
<1>1. Below(T) /\ GraphHolds(T) /\ TypeOK /\ GraphInv
  BY DEF PreciseInv, WellFormedInv
<1>2. /\ e \in storeEdges /\ e[1] \in Node /\ e[2] \in Node /\ rep[e[1]] = e[1]
      /\ S \subseteq Obj /\ AddCopyEdges(E)
  BY <1>1, HandleStoreStep
<1>3. E \subseteq Edge
  BY <1>1, <1>2, NewCopies
<1>4. ASSUME NEW d \in E PROVE T[d[1]] \subseteq T[d[2]]
  <2>1. PICK o \in S \ Opaque : d = <<e[1], rep[o]>>
    BY <1>4 DEF StoreCopies, NoLoops
  <2>2. T[rep[o]] = T[o] /\ o \in T[e[2]] \ Opaque
    BY <2>1, <1>1, <1>2, GraphAssumption DEF Below
  <2> QED BY <2>1, <2>2, <1>1, <1>2 DEF GraphHolds
<1>5. UNCHANGED <<rep, loadEdges, storeEdges>>
  BY DEF HandleStore
<1> HIDE DEF E
<1> QED BY <1>1, <1>2, <1>3, <1>4, <1>5, AddedCopiesPrecise

LEMMA ProcessNodePrecise ==
  ASSUME WellFormedInv, PreciseInv, NEW n \in Node, ProcessNode(n)
  PROVE  PreciseInv'
<1> SUFFICES ASSUME NEW T \in Assignment, IsSolution(prog, T)
             PROVE  (Below(T) /\ GraphHolds(T))'
  BY DEF PreciseInv, ProcessNode
<1>1. Below(T) /\ GraphHolds(T)
  BY DEF PreciseInv
<1>2. \A m \in Node : <<n, m>> \in copyEdges => T[n] \subseteq T[m]
  BY <1>1 DEF GraphHolds
<1>3. Below(T)'
  BY <1>1, <1>2 DEF ProcessNode, graph, Below
<1>4. GraphHolds(T)'
  BY <1>1 DEF ProcessNode, graph, GraphHolds
<1> QED BY <1>3, <1>4

LEMMA UpdatePrecise ==
  ASSUME WellFormedInv, PreciseInv, UpdateCallGraph
  PROVE  PreciseInv'
<1> SUFFICES ASSUME NEW T \in Assignment, IsSolution(prog, T)
             PROVE  (Below(T) /\ GraphHolds(T))'
  BY DEF PreciseInv, UpdateCallGraph
<1>1. Below(T) /\ GraphHolds(T)
  BY DEF PreciseInv
<1>2. PICK C \in NewCalls(prog, getPts, indCalls) :
        copyEdges' = copyEdges \cup (ParamCopies(prog, C, rep) \ copyEdges)
  BY DEF UpdateCallGraph
<1>3. /\ pts' = pts /\ rep' = rep /\ loadEdges' = loadEdges /\ storeEdges' = storeEdges
  BY DEF UpdateCallGraph
<1>4. /\ prog \in Programs /\ rep \in [Node -> Node]
      /\ C \subseteq prog.callee /\ \A c \in C : c[2] \in getPts[prog.funptr[c[1]]]
  BY <1>2, NewCallsCallable DEF WellFormedInv, TypeOK
<1>5. ASSUME NEW e \in ParamCopies(prog, C, rep) PROVE T[e[1]] \subseteq T[e[2]]
  <2>1. PICK c \in C : \E d \in prog.params[c] : e = <<rep[d[1]], rep[d[2]]>>
    BY <1>5 DEF ParamCopies, NoLoops
  <2>2. PICK d \in prog.params[c] : e = <<rep[d[1]], rep[d[2]]>>
    BY <2>1
  <2>3. d[1] \in Node /\ d[2] \in Node /\ prog.funptr[c[1]] \in Node
    BY <1>4, ProgramFields DEF Edge
  <2>4. c[2] \in T[prog.funptr[c[1]]]
    BY <2>3, <1>1, <1>4 DEF getPts, Below
  <2>5. T[d[1]] \subseteq T[d[2]]
    BY <2>4, <1>4 DEF IsSolution, CallHolds
  <2> QED BY <2>2, <2>3, <2>5, <1>1 DEF Below
<1>6. Below(T)' /\ GraphHolds(T)'
  BY <1>1, <1>2, <1>3, <1>5 DEF Below, GraphHolds
<1> QED BY <1>6

LEMMA ConnectParamPrecise ==
  ASSUME WellFormedInv, PreciseInv, NEW e \in Edge, ConnectParam(e)
  PROVE  PreciseInv'
<1> SUFFICES ASSUME NEW T \in Assignment, IsSolution(prog, T)
             PROVE  (Below(T) /\ GraphHolds(T))'
  BY DEF PreciseInv, ConnectParam
<1>1. Below(T) /\ GraphHolds(T)
  BY DEF PreciseInv
<1>2. e \in copyEdges /\ e[1] \in Node /\ e[2] \in Node
  BY DEF ConnectParam, WellFormedInv, PhaseInv, Edge
<1>3. pts[e[1]] \subseteq T[e[2]]
  BY <1>1, <1>2 DEF Below, GraphHolds
<1>4. Below(T)'
  BY <1>1, <1>2, <1>3 DEF ConnectParam, graph, Below, WellFormedInv, TypeOK, Assignment
<1>5. GraphHolds(T)'
  BY <1>1 DEF ConnectParam, graph, GraphHolds
<1> QED BY <1>4, <1>5

LEMMA NextPrecise ==
  ASSUME WellFormedInv, PreciseInv, [Next]_vars
  PROVE  PreciseInv'
<1>1. ASSUME UNCHANGED <<prog, graph, pts>> PROVE PreciseInv'
  BY <1>1 DEF graph, PreciseInv, Below, GraphHolds
<1>2. CASE UNCHANGED vars
  BY <1>1, <1>2 DEF vars
<1>3. ASSUME NEW n \in Node, PopFromWorklist(n) PROVE PreciseInv'
  BY <1>1, <1>3 DEF PopFromWorklist
<1>4. CASE EndRound
  BY <1>1, <1>4 DEF EndRound
<1> QED BY <1>2, <1>3, <1>4, AddrPrecise, MergePrecise, HandleLoadPrecise, HandleStorePrecise,
           ProcessNodePrecise, UpdatePrecise, ConnectParamPrecise DEF Next, Terminated

LEMMA PreciseInvariant == Spec => [](WellFormedInv /\ PreciseInv)
<1>1. Init => WellFormedInv /\ PreciseInv
  BY InitWellFormed, InitPrecise
<1>2. WellFormedInv /\ PreciseInv /\ [Next]_vars => (WellFormedInv /\ PreciseInv)'
  BY NextWellFormed, NextPrecise
<1> QED BY <1>1, <1>2, PTL DEF Spec

LEMMA PreciseImplies ==
  ASSUME WellFormedInv, PreciseInv
  PROVE  NeverSpurious
<1> SUFFICES ASSUME NEW T \in Assignment, IsSolution(prog, T), NEW n \in Node
             PROVE  getPts[n] \subseteq T[n]
  BY DEF NeverSpurious, NothingSpurious
<1>1. Below(T)
  BY DEF PreciseInv
<1>2. rep[n] \in Node
  BY DEF WellFormedInv, TypeOK
<1> QED BY <1>1, <1>2 DEF Below, getPts

(* Precision: merging, caches and diffs introduce no object that some      *)
(* solution of the constraints keeps out.                                  *)
THEOREM Precision == Spec => []NeverSpurious
<1>1. WellFormedInv /\ PreciseInv => NeverSpurious
  BY PreciseImplies
<1> QED BY <1>1, PreciseInvariant, PTL

-----------------------------------------------------------------------------
(***************************************************************************)
(* Closure.  The constraints of the program stay in the graph, modulo      *)
(* merging.  In a wave that asks for no other, a representative off the    *)
(* stack has passed on all it points to, and so have its predecessors: the *)
(* guard of ProcessNode is topological order, so nothing reaches it later. *)
(***************************************************************************)
Joined(m, n) == Connects(copyEdges, rep[m], rep[n])

AddrKept  == phase # "addr" => \A e \in prog.addr : e[1] \in pts[rep[e[2]]]
CopyKept  == \A e \in prog.copy : Joined(e[1], e[2])
LoadKept  == \A e \in prog.load : <<rep[e[1]], rep[e[2]]>> \in loadEdges
StoreKept == \A e \in prog.store : <<rep[e[1]], rep[e[2]]>> \in storeEdges
CallKept  == \A c \in indCalls : \A e \in prog.params[c] : Joined(e[1], e[2])

ConstraintsKept == AddrKept /\ CopyKept /\ LoadKept /\ StoreKept /\ CallKept

WaveInv ==
  /\ phase \in {"solve", "params", "done"} /\ ~reanalyze =>
       /\ \A n \in Node : rep[n] = n /\ n \notin nodeStack => pts[n] \subseteq propaPts[n]
       /\ \A e \in copyEdges : e[2] \notin nodeStack => e[1] \notin nodeStack
       /\ pendParams = {}
       /\ phase # "solve" => worklist = {}
  /\ phase = "done" => ~reanalyze

(***************************************************************************)
(* The loads and stores of a node that has never been merged: they are     *)
(* connected for all the node points to, or the node is still queued, or   *)
(* the edge is about to be handled.                                        *)
(***************************************************************************)
LoadsHandled ==
  \A e \in loadEdges : Unmerged(e[1]) /\ e[1] \notin worklist /\ e \notin pendLoads =>
    \A o \in pts[e[1]] \ Opaque : Connects(copyEdges, rep[o], e[2])

StoresHandled ==
  \A e \in storeEdges : Unmerged(e[2]) /\ e[2] \notin worklist /\ e \notin pendStores =>
    \A o \in pts[e[2]] \ Opaque : Connects(copyEdges, e[1], rep[o])

HandledInv == LoadsHandled /\ StoresHandled

-----------------------------------------------------------------------------
LEMMA InitKept == Init => ConstraintsKept /\ WaveInv /\ HandledInv
<1> SUFFICES ASSUME Init PROVE ConstraintsKept /\ WaveInv /\ HandledInv
  OBVIOUS
<1>1. prog \in Programs
  BY DEF Init
<1>2. \A e \in prog.copy \cup prog.load \cup prog.store :
        e[1] \in Node /\ e[2] \in Node /\ e = <<e[1], e[2]>>
  BY <1>1, ProgramFields DEF Edge
<1>3. CopyKept /\ LoadKept /\ StoreKept
  BY <1>2 DEF Init, CopyKept, LoadKept, StoreKept, Joined, Connects, NoLoops
<1>4. AddrKept /\ CallKept /\ WaveInv
  BY DEF Init, AddrKept, CallKept, WaveInv
<1>5. HandledInv
  BY <1>2 DEF Init, HandledInv, LoadsHandled, StoresHandled
<1> QED BY <1>3, <1>4, <1>5 DEF ConstraintsKept

LEMMA AddrKeeps ==
  ASSUME WellFormedInv, ConstraintsKept, ProcessAllAddr
  PROVE  ConstraintsKept'
<1>1. rep = [n \in Node |-> n] /\ prog \in Programs
  BY DEF ProcessAllAddr, WellFormedInv, PhaseInv, TypeOK
<1>2. \A e \in prog.addr : e[1] \in Obj /\ e[2] \in Node /\ e = <<e[1], e[2]>>
  BY <1>1, ProgramFields
<1>3. AddrKept'
  BY <1>1, <1>2 DEF AddrKept, ProcessAllAddr, graph
<1>4. (CopyKept /\ LoadKept /\ StoreKept /\ CallKept)'
  BY DEF ConstraintsKept, CopyKept, LoadKept, StoreKept, CallKept, Joined, ProcessAllAddr, graph
<1> QED BY <1>3, <1>4 DEF ConstraintsKept

(* Outside merges and calls, constraints stay because sets and edges grow. *)
LEMMA GrowthKeeps ==
  ASSUME WellFormedInv, ConstraintsKept,
         UNCHANGED <<prog, rep, loadEdges, storeEdges, indCalls>>,
         copyEdges \subseteq copyEdges',
         \A n \in Node : pts[n] \subseteq pts'[n],
         phase # "addr"
  PROVE  ConstraintsKept'
<1>1. prog \in Programs /\ rep \in [Node -> Node]
  BY DEF WellFormedInv, TypeOK
<1>2. \A e \in prog.addr : rep[e[2]] \in Node
  BY <1>1, ProgramFields
<1>3. AddrKept'
  BY <1>2 DEF ConstraintsKept, AddrKept
<1>4. (CopyKept /\ LoadKept /\ StoreKept /\ CallKept)'
  BY DEF ConstraintsKept, CopyKept, LoadKept, StoreKept, CallKept, Joined, Connects
<1> QED BY <1>3, <1>4 DEF ConstraintsKept

LEMMA MergeKeeps ==
  ASSUME WellFormedInv, ConstraintsKept, SCCDetect
  PROVE  ConstraintsKept'
<1>1. PICK root \in RootMaps(copyEdges) :
       /\ rep' = MergedRep(rep, subs, root)
       /\ copyEdges' = NoLoops(Moved(copyEdges, root))
       /\ loadEdges' = Moved(loadEdges, root)
       /\ storeEdges' = Moved(storeEdges, root)
       /\ pts' = MergedPts(pts, root)
  BY MergeStep
<1>2. /\ rep \in [Node -> Node] /\ subs \in [Node -> SUBSET Node] /\ pts \in Assignment
      /\ copyEdges \subseteq Edge /\ prog \in Programs
      /\ RepAgree(rep, subs) /\ AtReps(copyEdges, rep)
      /\ indCalls \subseteq prog.callee
  BY DEF WellFormedInv, TypeOK, GraphInv
<1>3. \A n \in Node : rep'[n] = root[rep[n]]
  BY <1>1, <1>2, MergedRepIsRoot
<1>4. phase = "scc" /\ phase' = "solve" /\ prog' = prog /\ indCalls' = indCalls
  BY DEF SCCDetect
<1>5. ASSUME NEW m \in Node, NEW n \in Node, Joined(m, n) PROVE Joined(m, n)'
  <2>1. Connects(copyEdges', root[rep[m]], root[rep[n]])
    BY <1>1, <1>5, MergeKeepsConnects DEF Joined
  <2> QED BY <2>1, <1>3 DEF Joined
<1>6. AddrKept'
  <2> SUFFICES ASSUME NEW e \in prog.addr PROVE e[1] \in pts'[rep'[e[2]]]
    BY <1>4 DEF AddrKept
  <2>1. e[2] \in Node
    BY <1>2, ProgramFields
  <2>2. e[1] \in pts[rep[e[2]]]
    BY <1>4 DEF ConstraintsKept, AddrKept
  <2>3. pts[rep[e[2]]] \subseteq pts'[root[rep[e[2]]]]
    BY <1>1, <1>2, <2>1, MergedPtsAtRoot
  <2> QED BY <2>1, <2>2, <2>3, <1>3
<1>7. CopyKept'
  <2>1. \A e \in prog.copy : e[1] \in Node /\ e[2] \in Node
    BY <1>2, ProgramFields DEF Edge
  <2> QED BY <2>1, <1>4, <1>5 DEF ConstraintsKept, CopyKept
<1>8. LoadKept'
  <2>1. \A e \in prog.load : e[1] \in Node /\ e[2] \in Node
    BY <1>2, ProgramFields DEF Edge
  <2>2. \A e \in prog.load : <<root[rep[e[1]]], root[rep[e[2]]]>> \in loadEdges'
    BY <1>1, MovedEdge DEF ConstraintsKept, LoadKept
  <2> QED BY <2>1, <2>2, <1>3, <1>4 DEF LoadKept
<1>9. StoreKept'
  <2>1. \A e \in prog.store : e[1] \in Node /\ e[2] \in Node
    BY <1>2, ProgramFields DEF Edge
  <2>2. \A e \in prog.store : <<root[rep[e[1]]], root[rep[e[2]]]>> \in storeEdges'
    BY <1>1, MovedEdge DEF ConstraintsKept, StoreKept
  <2> QED BY <2>1, <2>2, <1>3, <1>4 DEF StoreKept
<1>10. CallKept'
  <2>1. \A c \in indCalls : \A e \in prog.params[c] : e[1] \in Node /\ e[2] \in Node
    BY <1>2, ProgramFields DEF Edge
  <2> QED BY <2>1, <1>4, <1>5 DEF ConstraintsKept, CallKept
<1> QED BY <1>6, <1>7, <1>8, <1>9, <1>10 DEF ConstraintsKept

LEMMA UpdateKeeps ==
  ASSUME WellFormedInv, ConstraintsKept, UpdateCallGraph
  PROVE  ConstraintsKept'
<1>1. PICK C \in NewCalls(prog, getPts, indCalls) :
        /\ indCalls' = indCalls \cup C
        /\ copyEdges' = copyEdges \cup (ParamCopies(prog, C, rep) \ copyEdges)
  BY DEF UpdateCallGraph
<1>2. /\ phase = "solve" /\ prog' = prog /\ rep' = rep /\ pts' = pts
      /\ loadEdges' = loadEdges /\ storeEdges' = storeEdges
  BY DEF UpdateCallGraph
<1>3. (AddrKept /\ CopyKept /\ LoadKept /\ StoreKept)'
  BY <1>1, <1>2 DEF ConstraintsKept, AddrKept, CopyKept, LoadKept, StoreKept, Joined, Connects
<1>4. CallKept'
  <2> SUFFICES ASSUME NEW c \in indCalls \cup C, NEW e \in prog.params[c]
               PROVE  Joined(e[1], e[2])'
    BY <1>1, <1>2 DEF CallKept
  <2>1. CASE c \in indCalls
    BY <2>1, <1>1, <1>2 DEF ConstraintsKept, CallKept, Joined, Connects
  <2>2. CASE c \in C
    <3>1. e \in UNION {prog.params[k] : k \in C}
      BY <2>2
    <3>2. Connects(ParamCopies(prog, C, rep), rep[e[1]], rep[e[2]])
      BY <3>1 DEF ParamCopies, NoLoops, Connects
    <3> QED BY <3>2, <1>1, <1>2 DEF Joined, Connects
  <2> QED BY <2>1, <2>2
<1> QED BY <1>3, <1>4 DEF ConstraintsKept

(* What the steps of a wave and of its parameter copies do to the sets.    *)
LEMMA HandleLoadGrows ==
  ASSUME WellFormedInv, NEW e \in Edge, HandleLoad(e)
  PROVE  /\ \A n \in Node : pts[n] \subseteq pts'[n]
         /\ \A n \in Node : n \notin worklist' => pts'[n] = pts[n]
         /\ copyEdges \subseteq copyEdges' /\ worklist \subseteq worklist'
         /\ ~reanalyze' => pts' = pts /\ copyEdges' = copyEdges /\ ~reanalyze
<1>1. PICK E \in SUBSET Edge : AddCopyEdges(E)
  BY HandleLoadStep, NewCopies DEF WellFormedInv
<1>2. ASSUME E = {} PROVE pts' = pts /\ copyEdges' = copyEdges
  <2>1. pts' = [m \in Node |-> pts[m]]
    BY <1>1, <1>2 DEF AddCopyEdges
  <2> QED BY <2>1, <1>1, <1>2 DEF AddCopyEdges, WellFormedInv, TypeOK, Assignment
<1>3. ~reanalyze' => E = {} /\ ~reanalyze
  BY <1>1 DEF AddCopyEdges
<1> QED BY <1>1, <1>2, <1>3, AddedCopiesArrive DEF WellFormedInv

LEMMA HandleStoreGrows ==
  ASSUME WellFormedInv, NEW e \in Edge, HandleStore(e)
  PROVE  /\ \A n \in Node : pts[n] \subseteq pts'[n]
         /\ \A n \in Node : n \notin worklist' => pts'[n] = pts[n]
         /\ copyEdges \subseteq copyEdges' /\ worklist \subseteq worklist'
         /\ ~reanalyze' => pts' = pts /\ copyEdges' = copyEdges /\ ~reanalyze
<1>1. PICK E \in SUBSET Edge : AddCopyEdges(E)
  BY HandleStoreStep, NewCopies DEF WellFormedInv
<1>2. ASSUME E = {} PROVE pts' = pts /\ copyEdges' = copyEdges
  <2>1. pts' = [m \in Node |-> pts[m]]
    BY <1>1, <1>2 DEF AddCopyEdges
  <2> QED BY <2>1, <1>1, <1>2 DEF AddCopyEdges, WellFormedInv, TypeOK, Assignment
<1>3. ~reanalyze' => E = {} /\ ~reanalyze
  BY <1>1 DEF AddCopyEdges
<1> QED BY <1>1, <1>2, <1>3, AddedCopiesArrive DEF WellFormedInv

LEMMA ProcessNodeGrows ==
  ASSUME WellFormedInv, NEW n \in Node, ProcessNode(n)
  PROVE  /\ \A m \in Node : pts[m] \subseteq pts'[m]
         /\ \A m \in Node : m \notin worklist' => pts'[m] = pts[m]
         /\ worklist \subseteq worklist'
BY DEF ProcessNode, WellFormedInv, TypeOK, Assignment

LEMMA ConnectParamGrows ==
  ASSUME WellFormedInv, NEW e \in Edge, ConnectParam(e)
  PROVE  /\ \A m \in Node : pts[m] \subseteq pts'[m]
         /\ \A m \in Node : m \notin worklist' => pts'[m] = pts[m]
         /\ worklist \subseteq worklist'
BY DEF ConnectParam, WellFormedInv, TypeOK, Assignment, Edge

LEMMA NextKept ==
  ASSUME WellFormedInv, ConstraintsKept, [Next]_vars
  PROVE  ConstraintsKept'
<1>1. ASSUME UNCHANGED <<prog, graph, pts, indCalls>>, phase # "addr" \/ phase' = phase
      PROVE  ConstraintsKept'
  BY <1>1 DEF graph, ConstraintsKept, AddrKept, CopyKept, LoadKept, StoreKept, CallKept, Joined
<1>2. CASE UNCHANGED vars
  BY <1>1, <1>2 DEF vars
<1>3. ASSUME NEW n \in Node, ProcessNode(n) PROVE ConstraintsKept'
  BY <1>3, ProcessNodeGrows, GrowthKeeps DEF ProcessNode, graph
<1>4. ASSUME NEW n \in Node, PopFromWorklist(n) PROVE ConstraintsKept'
  BY <1>1, <1>4 DEF PopFromWorklist
<1>5. ASSUME NEW e \in Edge, HandleLoad(e) PROVE ConstraintsKept'
  <2>1. phase # "addr"
    BY <1>5 DEF HandleLoad, WellFormedInv, PhaseInv
  <2> QED BY <1>5, <2>1, HandleLoadGrows, GrowthKeeps DEF HandleLoad
<1>6. ASSUME NEW e \in Edge, HandleStore(e) PROVE ConstraintsKept'
  <2>1. phase # "addr"
    BY <1>6 DEF HandleStore, WellFormedInv, PhaseInv
  <2> QED BY <1>6, <2>1, HandleStoreGrows, GrowthKeeps DEF HandleStore
<1>7. ASSUME NEW e \in Edge, ConnectParam(e) PROVE ConstraintsKept'
  BY <1>7, ConnectParamGrows, GrowthKeeps DEF ConnectParam, graph
<1>8. CASE EndRound
  BY <1>1, <1>8 DEF EndRound
<1> QED BY <1>2, <1>3, <1>4, <1>5, <1>6, <1>7, <1>8, AddrKeeps, MergeKeeps, UpdateKeeps
        DEF Next, Terminated

-----------------------------------------------------------------------------
LEMMA MergeWave ==
  ASSUME WellFormedInv, SCCDetect
  PROVE  WaveInv'
<1>1. PICK root \in RootMaps(copyEdges) :
       /\ rep' = MergedRep(rep, subs, root)
       /\ nodeStack' = {n \in Node : rep[n] = n /\ root[n] = n}
  BY MergeStep
<1>2. /\ rep \in [Node -> Node] /\ subs \in [Node -> SUBSET Node]
      /\ copyEdges \subseteq Edge /\ RepAgree(rep, subs) /\ AtReps(copyEdges, rep)
      /\ \A n \in Node : rep[n] \in Node /\ rep[rep[n]] = rep[n]
  BY DEF WellFormedInv, TypeOK, GraphInv, RepAgree
<1>3. \A n \in Node : rep'[n] = root[rep[n]]
  BY <1>1, <1>2, MergedRepIsRoot
<1>4. root \in [Node -> Node] /\ \A n \in Node : root[root[n]] = root[n]
  BY <1>1, RootOfComponent
<1>5. ASSUME NEW n \in Node, rep'[n] = n PROVE n \in nodeStack'
  <2>1. root[rep[n]] = n
    BY <1>3, <1>5
  <2>2. root[n] = n
    BY <2>1, <1>2, <1>4
  <2>3. rep[n] = n
    BY <2>1, <1>1, <1>2, RootOfLive
  <2> QED BY <2>2, <2>3, <1>1
<1>6. \A e \in copyEdges' : e[2] \in nodeStack'
  <2>1. copyEdges' \subseteq Edge /\ AtReps(copyEdges', rep')
    BY MergeKeepsForm DEF WellFormedInv, TypeOK, GraphInv
  <2> QED BY <2>1, <1>5 DEF AtReps, Edge
<1>7. phase = "scc" /\ phase' = "solve" /\ pendParams' = pendParams /\ pendParams = {}
  BY DEF SCCDetect, WellFormedInv, PhaseInv
<1> QED BY <1>5, <1>6, <1>7 DEF WaveInv

LEMMA ProcessNodeWave ==
  ASSUME WellFormedInv, WaveInv, NEW n \in Node, ProcessNode(n)
  PROVE  WaveInv'
<1>1. /\ phase = "solve" /\ phase' = phase /\ reanalyze' = reanalyze
      /\ rep' = rep /\ copyEdges' = copyEdges /\ pendParams' = pendParams
      /\ nodeStack' = nodeStack \ {n} /\ n \in nodeStack
      /\ \A e \in copyEdges : e[2] = n => e[1] \notin nodeStack
      /\ propaPts \in Assignment /\ propaPts' = [propaPts EXCEPT ![n] = pts[n]]
      /\ pts' = [m \in Node |-> IF <<n, m>> \in copyEdges
                                THEN pts[m] \cup (pts[n] \ propaPts[n]) ELSE pts[m]]
  BY DEF ProcessNode, graph, WellFormedInv, TypeOK
<1> SUFFICES ASSUME ~reanalyze
             PROVE  /\ \A m \in Node : rep[m] = m /\ m \notin nodeStack'
                         => pts'[m] \subseteq propaPts'[m]
                    /\ \A e \in copyEdges : e[2] \notin nodeStack' => e[1] \notin nodeStack'
                    /\ pendParams = {}
  BY <1>1 DEF WaveInv
<1>2. ASSUME NEW m \in Node, rep[m] = m, m \notin nodeStack'
      PROVE  pts'[m] \subseteq propaPts'[m]
  <2>1. CASE m = n
    BY <2>1, <1>1 DEF Assignment
  <2>2. CASE m # n
    <3>1. m \notin nodeStack
      BY <2>2, <1>1, <1>2
    <3>2. <<n, m>> \notin copyEdges
      BY <3>1, <1>1 DEF WaveInv
    <3>3. pts'[m] = pts[m] /\ propaPts'[m] = propaPts[m]
      BY <2>2, <3>2, <1>1 DEF Assignment
    <3> QED BY <3>1, <3>3, <1>1, <1>2 DEF WaveInv
  <2> QED BY <2>1, <2>2
<1>3. ASSUME NEW e \in copyEdges, e[2] \notin nodeStack' PROVE e[1] \notin nodeStack'
  BY <1>1, <1>3 DEF WaveInv
<1>4. pendParams = {}
  BY <1>1 DEF WaveInv
<1> QED BY <1>2, <1>3, <1>4

LEMMA UpdateWave ==
  ASSUME WellFormedInv, WaveInv, UpdateCallGraph
  PROVE  WaveInv'
<1>1. PICK C \in NewCalls(prog, getPts, indCalls) :
        /\ pendParams' = ParamCopies(prog, C, rep) \ copyEdges
        /\ copyEdges' = copyEdges \cup pendParams'
        /\ reanalyze' = (reanalyze \/ C # {})
  BY DEF UpdateCallGraph
<1>2. /\ phase = "solve" /\ phase' = "params" /\ worklist = {} /\ worklist' = worklist
      /\ rep' = rep /\ pts' = pts /\ propaPts' = propaPts /\ nodeStack' = nodeStack
  BY DEF UpdateCallGraph
<1>3. ASSUME ~reanalyze' PROVE ~reanalyze /\ pendParams' = {} /\ copyEdges' = copyEdges
  <2>1. C = {} /\ ~reanalyze
    BY <1>1, <1>3
  <2>2. ParamCopies(prog, C, rep) = {}
    BY <2>1 DEF ParamCopies, NoLoops
  <2> QED BY <2>1, <2>2, <1>1
<1> QED BY <1>2, <1>3 DEF WaveInv

LEMMA NextWave ==
  ASSUME WellFormedInv, WaveInv, [Next]_vars
  PROVE  WaveInv'
<1>1. CASE UNCHANGED vars
  BY <1>1 DEF vars, graph, WaveInv
<1>2. CASE ProcessAllAddr
  BY <1>2 DEF ProcessAllAddr, WaveInv
<1>3. ASSUME NEW n \in Node, PopFromWorklist(n) PROVE WaveInv'
  BY <1>3 DEF PopFromWorklist, graph, WaveInv
<1>4. ASSUME NEW e \in Edge, HandleLoad(e) PROVE WaveInv'
  <2>1. phase = "solve"
    BY <1>4 DEF HandleLoad, WellFormedInv, PhaseInv
  <2> QED BY <1>4, <2>1, HandleLoadGrows DEF HandleLoad, WaveInv
<1>5. ASSUME NEW e \in Edge, HandleStore(e) PROVE WaveInv'
  <2>1. phase = "solve"
    BY <1>5 DEF HandleStore, WellFormedInv, PhaseInv
  <2> QED BY <1>5, <2>1, HandleStoreGrows DEF HandleStore, WaveInv
<1>6. ASSUME NEW e \in Edge, ConnectParam(e) PROVE WaveInv'
  BY <1>6 DEF ConnectParam, WaveInv
<1>7. CASE EndRound
  BY <1>7 DEF EndRound, graph, WaveInv
<1> QED BY <1>1, <1>2, <1>3, <1>4, <1>5, <1>6, <1>7, MergeWave, ProcessNodeWave, UpdateWave
        DEF Next, Terminated

-----------------------------------------------------------------------------
LEMMA AddrHandled ==
  ASSUME WellFormedInv, ProcessAllAddr
  PROVE  HandledInv'
<1>1. \A n \in Node : n \notin worklist' => pts'[n] = {}
  BY DEF ProcessAllAddr
<1>2. \A e \in loadEdges' \cup storeEdges' : e[1] \in Node /\ e[2] \in Node
  BY DEF ProcessAllAddr, graph, WellFormedInv, TypeOK, Edge
<1> QED BY <1>1, <1>2 DEF HandledInv, LoadsHandled, StoresHandled

(* Adding copies and pushing what grows disturbs no handled edge.          *)
LEMMA GrowthKeepsHandled ==
  ASSUME WellFormedInv, HandledInv,
         UNCHANGED <<rep, subs, loadEdges, storeEdges>>,
         copyEdges \subseteq copyEdges', worklist \subseteq worklist',
         \A n \in Node : n \notin worklist' => pts'[n] = pts[n]
  PROVE  /\ pendLoads' = pendLoads => LoadsHandled'
         /\ pendStores' = pendStores => StoresHandled'
<1>1. \A e \in loadEdges \cup storeEdges : e[1] \in Node /\ e[2] \in Node
  BY DEF WellFormedInv, TypeOK, Edge
<1>2. \A n : Unmerged(n)' <=> Unmerged(n)
  BY DEF Unmerged
<1>3. ASSUME pendLoads' = pendLoads PROVE LoadsHandled'
  BY <1>1, <1>2, <1>3 DEF HandledInv, LoadsHandled, Connects
<1>4. ASSUME pendStores' = pendStores PROVE StoresHandled'
  BY <1>1, <1>2, <1>4 DEF HandledInv, StoresHandled, Connects
<1> QED BY <1>3, <1>4

LEMMA HandleLoadHandled ==
  ASSUME WellFormedInv, CacheInv, HandledInv, NEW e \in Edge, HandleLoad(e)
  PROVE  HandledInv'
<1>1. /\ UNCHANGED <<rep, subs, loadEdges, storeEdges>>
      /\ pendLoads' = pendLoads \ {e} /\ pendStores' = pendStores
  BY DEF HandleLoad
<1>2. /\ copyEdges \subseteq copyEdges' /\ worklist \subseteq worklist'
      /\ \A n \in Node : n \notin worklist' => pts'[n] = pts[n]
  BY HandleLoadGrows
<1>3. StoresHandled'
  BY <1>1, <1>2, GrowthKeepsHandled
<1>4. ASSUME NEW o \in pts[e[1]] \ Opaque PROVE Connects(copyEdges', rep[o], e[2])
  <2> DEFINE S == pts[e[1]] \ loadCache[e]
  <2>1. copyEdges' = copyEdges \cup LoadCopies(S, e[2]) /\ e \in loadEdges
    BY HandleLoadStep DEF WellFormedInv, AddCopyEdges
  <2>2. CASE o \in loadCache[e]
    BY <2>1, <2>2, <1>4 DEF CacheInv, LoadsConnected, Connects
  <2>3. CASE o \notin loadCache[e]
    <3>1. o \in S \ Opaque
      BY <2>3, <1>4
    <3> HIDE DEF S
    <3> QED BY <3>1, <2>1, LoadCopiesConnect
  <2> QED BY <2>2, <2>3
<1>5. LoadsHandled'
  <2> SUFFICES ASSUME NEW d \in loadEdges, Unmerged(d[1]), d[1] \notin worklist',
                      d \notin pendLoads', NEW o \in pts'[d[1]] \ Opaque
               PROVE  Connects(copyEdges', rep[o], d[2])
    BY <1>1 DEF LoadsHandled, Unmerged
  <2>1. d[1] \in Node
    BY DEF WellFormedInv, TypeOK, Edge
  <2>2. o \in pts[d[1]] \ Opaque /\ d[1] \notin worklist
    BY <2>1, <1>2
  <2>3. CASE d = e
    BY <2>2, <2>3, <1>4
  <2>4. CASE d # e
    BY <2>2, <2>4, <1>1, <1>2 DEF HandledInv, LoadsHandled, Connects
  <2> QED BY <2>3, <2>4
<1> QED BY <1>3, <1>5 DEF HandledInv

LEMMA HandleStoreHandled ==
  ASSUME WellFormedInv, CacheInv, HandledInv, NEW e \in Edge, HandleStore(e)
  PROVE  HandledInv'
<1>1. /\ UNCHANGED <<rep, subs, loadEdges, storeEdges>>
      /\ pendStores' = pendStores \ {e} /\ pendLoads' = pendLoads
  BY DEF HandleStore
<1>2. /\ copyEdges \subseteq copyEdges' /\ worklist \subseteq worklist'
      /\ \A n \in Node : n \notin worklist' => pts'[n] = pts[n]
  BY HandleStoreGrows
<1>3. LoadsHandled'
  BY <1>1, <1>2, GrowthKeepsHandled
<1>4. ASSUME NEW o \in pts[e[2]] \ Opaque PROVE Connects(copyEdges', e[1], rep[o])
  <2> DEFINE S == pts[e[2]] \ storeCache[e]
  <2>1. copyEdges' = copyEdges \cup StoreCopies(S, e[1]) /\ e \in storeEdges
    BY HandleStoreStep DEF WellFormedInv, AddCopyEdges
  <2>2. CASE o \in storeCache[e]
    BY <2>1, <2>2, <1>4 DEF CacheInv, StoresConnected, Connects
  <2>3. CASE o \notin storeCache[e]
    <3>1. o \in S \ Opaque
      BY <2>3, <1>4
    <3> HIDE DEF S
    <3> QED BY <3>1, <2>1, StoreCopiesConnect
  <2> QED BY <2>2, <2>3
<1>5. StoresHandled'
  <2> SUFFICES ASSUME NEW d \in storeEdges, Unmerged(d[2]), d[2] \notin worklist',
                      d \notin pendStores', NEW o \in pts'[d[2]] \ Opaque
               PROVE  Connects(copyEdges', d[1], rep[o])
    BY <1>1 DEF StoresHandled, Unmerged
  <2>1. d[2] \in Node
    BY DEF WellFormedInv, TypeOK, Edge
  <2>2. o \in pts[d[2]] \ Opaque /\ d[2] \notin worklist
    BY <2>1, <1>2
  <2>3. CASE d = e
    BY <2>2, <2>3, <1>4
  <2>4. CASE d # e
    BY <2>2, <2>4, <1>1, <1>2 DEF HandledInv, StoresHandled, Connects
  <2> QED BY <2>3, <2>4
<1> QED BY <1>3, <1>5 DEF HandledInv

(* A node that stands for itself alone is alone in its component.          *)
LEMMA UnmergedIsAlone ==
  ASSUME WellFormedInv, NEW root \in RootMaps(copyEdges),
         NEW n \in Node, MergedSubs(subs, root)[n] = {n},
         NEW m \in Node, rep[m] = m, root[m] = n
  PROVE  m = n /\ subs[n] = {n}
<1>1. subs \in [Node -> SUBSET Node] /\ m \in subs[m] /\ root \in [Node -> Node]
  BY RootOfComponent DEF WellFormedInv, TypeOK, GraphInv, RepAgree
<1>2. m = n
  <2> SUFFICES ASSUME m # n PROVE FALSE
    OBVIOUS
  <2>1. m \in MergedSubs(subs, root)[n]
    BY <1>1 DEF MergedSubs, MergedNodes
  <2> QED BY <2>1
<1>3. subs[n] \subseteq {n}
  BY DEF MergedSubs
<1> QED BY <1>1, <1>2, <1>3

LEMMA MergeHandled ==
  ASSUME WellFormedInv, HandledInv, SCCDetect
  PROVE  HandledInv'
<1>1. PICK root \in RootMaps(copyEdges) :
       /\ rep' = MergedRep(rep, subs, root)
       /\ subs' = MergedSubs(subs, root)
       /\ copyEdges' = NoLoops(Moved(copyEdges, root))
       /\ loadEdges' = Moved(loadEdges, root)
       /\ storeEdges' = Moved(storeEdges, root)
       /\ pts' = MergedPts(pts, root)
  BY MergeStep
<1>2. /\ rep \in [Node -> Node] /\ subs \in [Node -> SUBSET Node] /\ pts \in Assignment
      /\ copyEdges \subseteq Edge /\ RepAgree(rep, subs)
      /\ AtReps(copyEdges, rep) /\ AtReps(loadEdges, rep) /\ AtReps(storeEdges, rep)
      /\ \A e \in loadEdges \cup storeEdges : e[1] \in Node /\ e[2] \in Node
      /\ \A n \in Node : pts[n] \subseteq Node
  BY GraphAssumption DEF WellFormedInv, TypeOK, GraphInv, Assignment, Edge
<1>3. \A n \in Node : rep'[n] = root[rep[n]]
  BY <1>1, <1>2, MergedRepIsRoot
<1>4. root \in [Node -> Node] /\ \A n \in Node : root[root[n]] = root[n]
  BY <1>1, RootOfComponent
<1>5. pendLoads = {} /\ pendStores = {} /\ worklist' = worklist
  BY DEF SCCDetect, WellFormedInv, PhaseInv
<1>6. ASSUME NEW n \in Node, rep[n] = n, Unmerged(root[n])'
      PROVE  /\ root[n] = n /\ Unmerged(n)
             /\ pts'[n] \subseteq pts[n]
  <2>1. root[n] = n /\ subs[n] = {n}
    BY <1>1, <1>4, <1>6, UnmergedIsAlone DEF Unmerged
  <2>2. ASSUME NEW o \in pts'[n] PROVE o \in pts[n]
    <3>1. PICK m \in Node : root[m] = n /\ o \in pts[m]
      BY <2>1, <2>2, <1>1, <1>2, MergedPtsAtRoot
    <3>2. rep[m] = m
      BY <3>1, <1>1, <1>2, <1>6, RootOfLive
    <3>3. m = n
      BY <3>1, <3>2, <2>1, <1>1, <1>6, UnmergedIsAlone DEF Unmerged
    <3> QED BY <3>1, <3>3
  <2> QED BY <2>1, <2>2, <1>6 DEF Unmerged
<1>7. LoadsHandled'
  <2> SUFFICES ASSUME NEW e \in loadEdges', Unmerged(e[1])', e[1] \notin worklist,
                      NEW o \in pts'[e[1]] \ Opaque
               PROVE  Connects(copyEdges', rep'[o], e[2])
    BY <1>5 DEF LoadsHandled
  <2>1. PICK d \in loadEdges : e = <<root[d[1]], root[d[2]]>>
    BY <1>1 DEF Moved
  <2>2. d[1] \in Node /\ rep[d[1]] = d[1]
    BY <1>2 DEF AtReps
  <2>3. e[1] = d[1] /\ Unmerged(d[1]) /\ o \in pts[d[1]] \ Opaque
    BY <2>1, <2>2, <1>6
  <2>4. Connects(copyEdges, rep[o], d[2])
    BY <2>3, <1>5 DEF HandledInv, LoadsHandled
  <2>5. Connects(copyEdges', root[rep[o]], root[d[2]])
    BY <2>4, <1>1, MergeKeepsConnects
  <2>6. o \in Node
    BY <2>2, <2>3, <1>2
  <2> QED BY <2>1, <2>5, <2>6, <1>3
<1>8. StoresHandled'
  <2> SUFFICES ASSUME NEW e \in storeEdges', Unmerged(e[2])', e[2] \notin worklist,
                      NEW o \in pts'[e[2]] \ Opaque
               PROVE  Connects(copyEdges', e[1], rep'[o])
    BY <1>5 DEF StoresHandled
  <2>1. PICK d \in storeEdges : e = <<root[d[1]], root[d[2]]>>
    BY <1>1 DEF Moved
  <2>2. d[2] \in Node /\ rep[d[2]] = d[2]
    BY <1>2 DEF AtReps
  <2>3. e[2] = d[2] /\ Unmerged(d[2]) /\ o \in pts[d[2]] \ Opaque
    BY <2>1, <2>2, <1>6
  <2>4. Connects(copyEdges, d[1], rep[o])
    BY <2>3, <1>5 DEF HandledInv, StoresHandled
  <2>5. Connects(copyEdges', root[d[1]], root[rep[o]])
    BY <2>4, <1>1, MergeKeepsConnects
  <2>6. o \in Node
    BY <2>2, <2>3, <1>2
  <2> QED BY <2>1, <2>5, <2>6, <1>3
<1> QED BY <1>7, <1>8 DEF HandledInv

(* The node popped has its edges pending next, if it is its own            *)
(* representative; if not, it is merged, and the one it stands for is not  *)
(* unmerged.                                                               *)
LEMMA PopHandled ==
  ASSUME WellFormedInv, HandledInv, NEW n \in Node, PopFromWorklist(n)
  PROVE  HandledInv'
<1>1. /\ UNCHANGED <<rep, subs, copyEdges, loadEdges, storeEdges, pts>>
      /\ pendLoads = {} /\ pendStores = {} /\ worklist' = worklist \ {n}
      /\ pendLoads' = {e \in loadEdges : e[1] = rep[n]}
      /\ pendStores' = {e \in storeEdges : e[2] = rep[n]}
  BY DEF PopFromWorklist, graph
<1>2. ASSUME Unmerged(n) PROVE rep[n] = n
  BY <1>2 DEF Unmerged
<1>3. LoadsHandled'
  BY <1>1, <1>2 DEF HandledInv, LoadsHandled, Unmerged
<1>4. StoresHandled'
  BY <1>1, <1>2 DEF HandledInv, StoresHandled, Unmerged
<1> QED BY <1>3, <1>4 DEF HandledInv

LEMMA NextHandled ==
  ASSUME WellFormedInv, CacheInv, HandledInv, [Next]_vars
  PROVE  HandledInv'
<1>1. ASSUME UNCHANGED <<rep, subs, loadEdges, storeEdges, pending>>,
             copyEdges \subseteq copyEdges', worklist \subseteq worklist',
             \A n \in Node : n \notin worklist' => pts'[n] = pts[n]
      PROVE  HandledInv'
  BY <1>1, GrowthKeepsHandled DEF pending, HandledInv
<1>2. CASE UNCHANGED vars
  BY <1>1, <1>2 DEF vars, graph
<1>3. ASSUME NEW n \in Node, ProcessNode(n) PROVE HandledInv'
  BY <1>1, <1>3, ProcessNodeGrows DEF ProcessNode, graph
<1>4. CASE UpdateCallGraph
  BY <1>1, <1>4 DEF UpdateCallGraph
<1>5. ASSUME NEW e \in Edge, ConnectParam(e) PROVE HandledInv'
  BY <1>1, <1>5, ConnectParamGrows DEF ConnectParam, graph
<1>6. CASE EndRound
  BY <1>1, <1>6 DEF EndRound, graph
<1> QED BY <1>2, <1>3, <1>4, <1>5, <1>6, AddrHandled, MergeHandled, PopHandled,
           HandleLoadHandled, HandleStoreHandled DEF Next, Terminated

-----------------------------------------------------------------------------
ClosedInv ==
  WellFormedInv /\ PropaInv /\ CacheInv /\ ConstraintsKept /\ WaveInv /\ HandledInv

LEMMA ClosedInvariant == Spec => []ClosedInv
<1>1. Init => ConstraintsKept /\ WaveInv /\ HandledInv
  BY InitKept
<1>2. ClosedInv /\ [Next]_vars => (ConstraintsKept /\ WaveInv /\ HandledInv)'
  BY NextKept, NextWave, NextHandled DEF ClosedInv
<1> QED BY <1>1, <1>2, PropaInvariant, CacheInvariant, PTL DEF Spec, ClosedInv

(* At the end every copy edge is closed: its source has passed on all it   *)
(* points to, and what was passed on has arrived.                          *)
LEMMA DoneCopiesClosed ==
  ASSUME ClosedInv, Done
  PROVE  /\ \A e \in copyEdges : pts[e[1]] \subseteq pts[e[2]]
         /\ \A m, n \in Node : Joined(m, n) => getPts[m] \subseteq getPts[n]
<1>1. /\ nodeStack = {} /\ pendParams = {}
      /\ \A n \in Node : rep[n] = n => pts[n] \subseteq propaPts[n]
      /\ PassedOnHasArrived
  BY DEF ClosedInv, Done, WellFormedInv, PhaseInv, WaveInv, PropaInv
<1>2. \A e \in copyEdges : e[1] \in Node /\ rep[e[1]] = e[1]
  BY DEF ClosedInv, WellFormedInv, TypeOK, GraphInv, AtReps, Edge
<1>3. \A e \in copyEdges : pts[e[1]] \subseteq pts[e[2]]
  BY <1>1, <1>2 DEF PassedOnHasArrived
<1>4. \A m, n \in Node : Joined(m, n) => getPts[m] \subseteq getPts[n]
  BY <1>3 DEF Joined, Connects, getPts
<1> QED BY <1>3, <1>4

LEMMA ClosedAtEnd ==
  ASSUME ClosedInv
  PROVE  DoneIsClosed
<1> SUFFICES ASSUME Done
             PROVE  /\ AddrHolds(prog, getPts)
                    /\ CopyHolds(prog, getPts)
                    /\ \A e \in copyEdges : pts[e[1]] \subseteq pts[e[2]]
                    /\ CallsResolved => CallHolds(prog, getPts)
  BY DEF DoneIsClosed
<1>1. prog \in Programs /\ ConstraintsKept /\ phase = "done"
  BY DEF ClosedInv, WellFormedInv, TypeOK, Done
<1>2. \A m, n \in Node : Joined(m, n) => getPts[m] \subseteq getPts[n]
  BY DoneCopiesClosed
<1>3. AddrHolds(prog, getPts)
  <2>1. \A e \in prog.addr : e[2] \in Node
    BY <1>1, ProgramFields
  <2> QED BY <2>1, <1>1 DEF AddrHolds, ConstraintsKept, AddrKept, getPts
<1>4. CopyHolds(prog, getPts)
  <2>1. \A e \in prog.copy : e[1] \in Node /\ e[2] \in Node
    BY <1>1, ProgramFields DEF Edge
  <2> QED BY <2>1, <1>1, <1>2 DEF CopyHolds, ConstraintsKept, CopyKept
<1>5. ASSUME CallsResolved PROVE CallHolds(prog, getPts)
  <2> SUFFICES ASSUME NEW c \in prog.callee, c[2] \in getPts[prog.funptr[c[1]]],
                      NEW e \in prog.params[c]
               PROVE  getPts[e[1]] \subseteq getPts[e[2]]
    BY DEF CallHolds
  <2>1. c \in indCalls
    BY <1>5 DEF CallsResolved, Callable
  <2>2. e[1] \in Node /\ e[2] \in Node
    BY <1>1, ProgramFields DEF Edge
  <2> QED BY <2>1, <2>2, <1>1, <1>2 DEF ConstraintsKept, CallKept
<1> QED BY <1>3, <1>4, <1>5, DoneCopiesClosed

LEMMA HandledAtEnd ==
  ASSUME ClosedInv
  PROVE  DoneHandledUnmerged
<1> SUFFICES ASSUME Done PROVE DoneHandledUnmerged
  BY DEF DoneHandledUnmerged
<1>1. /\ prog \in Programs /\ rep \in [Node -> Node] /\ pts \in Assignment
      /\ \A n \in Node : rep[n] \in Node /\ rep[rep[n]] = rep[n]
      /\ Obj \subseteq Node
  BY GraphAssumption DEF ClosedInv, WellFormedInv, TypeOK, GraphInv, RepAgree
<1>2. worklist = {} /\ pendLoads = {} /\ pendStores = {}
  BY DEF ClosedInv, WellFormedInv, PhaseInv, WaveInv, Done
<1>3. \A m, n \in Node : Joined(m, n) => getPts[m] \subseteq getPts[n]
  BY DoneCopiesClosed
<1>4. ASSUME NEW e \in prog.load, Unmerged(e[1]), NEW o \in pts[e[1]] \ Opaque
      PROVE  getPts[o] \subseteq getPts[e[2]]
  <2>1. e[1] \in Node /\ e[2] \in Node
    BY <1>1, ProgramFields DEF Edge
  <2>2. <<e[1], rep[e[2]]>> \in loadEdges
    BY <1>4 DEF ClosedInv, ConstraintsKept, LoadKept, Unmerged
  <2>3. Joined(o, e[2])
    BY <2>2, <1>2, <1>4 DEF ClosedInv, HandledInv, LoadsHandled, Joined
  <2>4. o \in Node
    BY <2>1, <1>1 DEF Assignment
  <2> QED BY <2>1, <2>3, <2>4, <1>3
<1>5. ASSUME NEW e \in prog.store, Unmerged(e[2]), NEW o \in pts[e[2]] \ Opaque
      PROVE  getPts[e[1]] \subseteq getPts[o]
  <2>1. e[1] \in Node /\ e[2] \in Node
    BY <1>1, ProgramFields DEF Edge
  <2>2. <<rep[e[1]], e[2]>> \in storeEdges
    BY <1>5 DEF ClosedInv, ConstraintsKept, StoreKept, Unmerged
  <2>3. Joined(e[1], o)
    BY <2>2, <1>2, <1>5 DEF ClosedInv, HandledInv, StoresHandled, Joined
  <2>4. o \in Node
    BY <2>1, <1>1 DEF Assignment
  <2> QED BY <2>1, <2>3, <2>4, <1>3
<1> QED BY <1>4, <1>5 DEF DoneHandledUnmerged

(* Difference propagation loses nothing: when the analysis ends, address,  *)
(* copy and call constraints hold, and every copy edge is closed.          *)
THEOREM Closure == Spec => []DoneIsClosed
<1>1. ClosedInv => DoneIsClosed
  BY ClosedAtEnd
<1> QED BY <1>1, ClosedInvariant, PTL

(* At a node that was never merged the caches skip no load and no store:   *)
(* the known incompleteness of the solver is confined to merged nodes.     *)
THEOREM UnmergedComplete == Spec => []DoneHandledUnmerged
<1>1. ClosedInv => DoneHandledUnmerged
  BY HandledAtEnd
<1> QED BY <1>1, ClosedInvariant, PTL

-----------------------------------------------------------------------------
(* Folding a sequence from the left: there is a function that gives, for   *)
(* each set of its positions, the fold of the elements there.              *)
LEMMA LeastElement ==
  ASSUME NEW X, X \subseteq Nat, X # {}
  PROVE  \E i \in X : \A j \in X : i <= j
<1>1. PICK i \in X : \A j \in X : <<j, i>> \notin OpToRel(<, Nat)
  BY NatLessThanWellFounded, WFMin
<1>2. \A j \in X : ~(j < i)
  BY <1>1 DEF OpToRel
<1> QED BY <1>2

LEMMA IsOfAllNaturals ==
  ASSUME NEW T, T \subseteq Nat, 0 \in T, \A i \in T : i + 1 \in T
  PROVE  T = Nat
<1> SUFFICES ASSUME T # Nat PROVE FALSE
  OBVIOUS
<1>1. PICK x \in Nat \ T : \A y \in Nat \ T : x <= y
  <2>1. Nat \ T # {}
    OBVIOUS
  <2> QED BY <2>1, LeastElement
<1>2. x - 1 \in Nat /\ x - 1 \in T
  BY <1>1
<1> QED BY <1>1, <1>2

LastOf(T) == CHOOSE x \in T : \A y \in T : x >= y

LEMMA LastExists ==
  ASSUME NEW m \in Nat, NEW T \in SUBSET (1 .. m), T # {}
  PROVE  LastOf(T) \in T
<1> DEFINE X == {m - y : y \in T}
<1>1. X \subseteq Nat /\ X # {}
  <2>1. \A y \in T : m - y \in Nat
    OBVIOUS
  <2>2. \E y \in T : TRUE
    OBVIOUS
  <2> QED BY <2>1, <2>2
<1>2. PICK z \in X : \A y \in X : z <= y
  <2> HIDE DEF X
  <2> QED BY <1>1, LeastElement
<1>3. PICK x \in T : z = m - x
  BY <1>2
<1>4. \A y \in T : m - x <= m - y
  BY <1>2, <1>3
<1>5. \A y \in T : x >= y
  BY <1>4
<1> QED BY <1>5 DEF LastOf

FoldOver(m, V, base, step, f) ==
  /\ f \in [SUBSET (1 .. m) -> V]
  /\ \A T \in SUBSET (1 .. m) :
       f[T] = IF T = {} THEN base ELSE step[<<f[T \ {LastOf(T)}], LastOf(T)>>]

LEMMA FoldExists ==
  ASSUME NEW V, NEW base \in V, NEW m \in Nat, NEW step \in [V \X (1 .. m) -> V]
  PROVE  \E f : FoldOver(m, V, base, step, f)
<1> DEFINE P == {k \in Nat : k <= m => \E f : FoldOver(k, V, base, step, f)}
<1>1. 0 \in P
  <2> DEFINE f == [T \in SUBSET (1 .. 0) |-> base]
  <2>1. SUBSET (1 .. 0) = {{}}
    OBVIOUS
  <2>2. FoldOver(0, V, base, step, f)
    BY <2>1 DEF FoldOver
  <2> QED BY <2>2
<1>2. ASSUME NEW k \in P, k + 1 <= m
      PROVE  \E f : FoldOver(k + 1, V, base, step, f)
  <2>1. PICK f : FoldOver(k, V, base, step, f)
    BY <1>2
  <2> DEFINE g == [T \in SUBSET (1 .. k + 1) |->
                     IF k + 1 \in T THEN step[<<f[T \ {k + 1}], k + 1>>] ELSE f[T]]
  <2>2. \A T \in SUBSET (1 .. k + 1) : k + 1 \notin T => T \in SUBSET (1 .. k)
    BY <1>2
  <2>3. \A T \in SUBSET (1 .. k + 1) :
          k + 1 \in T => T # {} /\ LastOf(T) = k + 1 /\ T \ {k + 1} \in SUBSET (1 .. k)
    <3> SUFFICES ASSUME NEW T \in SUBSET (1 .. k + 1), k + 1 \in T
                 PROVE  LastOf(T) = k + 1 /\ T \ {k + 1} \in SUBSET (1 .. k)
      OBVIOUS
    <3>1. \A x \in T : x \in Nat /\ (x # k + 1 => x \in 1 .. k)
      BY <1>2
    <3>2. \A y \in T : k + 1 >= y
      BY <1>2
    <3>3. LastOf(T) \in T /\ \A y \in T : LastOf(T) >= y
      BY <3>2 DEF LastOf
    <3>4. LastOf(T) = k + 1
      <4>1. LastOf(T) \in Nat /\ LastOf(T) >= k + 1 /\ k + 1 >= LastOf(T)
        BY <3>1, <3>2, <3>3
      <4> QED BY <4>1, <1>2
    <3> QED BY <3>1, <3>4
  <2>4. k + 1 \in 1 .. m
    BY <1>2
  <2>5. \A T \in SUBSET (1 .. k) : f[T] \in V
    BY <2>1 DEF FoldOver
  <2>6. \A T \in SUBSET (1 .. k + 1) : g[T] \in V
    BY <2>2, <2>3, <2>4, <2>5
  <2>7. \A T \in SUBSET (1 .. k) : T # {} => T \ {LastOf(T)} \in SUBSET (1 .. k)
    OBVIOUS
  <2>8. \A T \in SUBSET (1 .. k) : T \in SUBSET (1 .. k + 1) /\ k + 1 \notin T
    BY <1>2
  <2>9. \A T \in SUBSET (1 .. k) : g[T] = f[T]
    BY <2>8
  <2>10. ASSUME NEW T \in SUBSET (1 .. k + 1)
         PROVE  g[T] = IF T = {} THEN base ELSE step[<<g[T \ {LastOf(T)}], LastOf(T)>>]
    <3>1. CASE k + 1 \in T
      <4>1. g[T] = step[<<f[T \ {k + 1}], k + 1>>]
        BY <3>1
      <4>2. T # {} /\ LastOf(T) = k + 1 /\ T \ {k + 1} \in SUBSET (1 .. k)
        BY <2>3, <3>1
      <4> HIDE DEF g
      <4> QED BY <4>1, <4>2, <2>9
    <3>2. CASE k + 1 \notin T
      <4>1. T \in SUBSET (1 .. k)
        BY <2>2, <3>2
      <4>2. f[T] = IF T = {} THEN base ELSE step[<<f[T \ {LastOf(T)}], LastOf(T)>>]
        BY <2>1, <4>1 DEF FoldOver
      <4> HIDE DEF g
      <4> QED BY <4>1, <4>2, <2>7, <2>9
    <3> QED BY <3>1, <3>2
  <2>11. g \in [SUBSET (1 .. k + 1) -> V]
    BY <2>6
  <2>12. FoldOver(k + 1, V, base, step, g)
    <3> HIDE DEF g
    <3> QED BY <2>10, <2>11 DEF FoldOver
  <2> QED BY <2>12
<1>3. P = Nat
  <2>1. \A k \in P : k + 1 \in P
    <3> SUFFICES ASSUME NEW k \in P
                 PROVE  k + 1 \in P
      OBVIOUS
    <3>1. k + 1 <= m => \E f : FoldOver(k + 1, V, base, step, f)
      BY <1>2
    <3> QED BY <3>1
  <2>2. P \subseteq Nat
    OBVIOUS
  <2> HIDE DEF P
  <2> QED BY <1>1, <2>1, <2>2, IsOfAllNaturals
<1>4. m \in P
  BY <1>3
<1> QED BY <1>4

-----------------------------------------------------------------------------
(***************************************************************************)
(* Merging, one node after the other.                                      *)
(***************************************************************************)
GraphType ==
  [rep : [Node -> Node], subs : [Node -> SUBSET Node], copy : SUBSET Edge,
   load : SUBSET Edge, store : SUBSET Edge, pts : Assignment, propa : Assignment,
   gep : SUBSET Gep, variant : SUBSET Edge, pwc : SUBSET Node]

LEMMA GraphFields ==
  ASSUME NEW g \in GraphType
  PROVE  /\ g.rep \in [Node -> Node] /\ g.subs \in [Node -> SUBSET Node]
         /\ g.copy \subseteq Edge /\ g.load \subseteq Edge /\ g.store \subseteq Edge
         /\ g.pts \in Assignment /\ g.propa \in Assignment
         /\ g.gep \subseteq Gep /\ g.variant \subseteq Edge /\ g.pwc \subseteq Node
BY DEF GraphType

(* What a merge yields, field by field.                                    *)
Onto(n, r) == [m \in Node |-> IF m = n THEN r ELSE m]

(* Another edge is where e would be moved to.                              *)
Taken(g, n, r, e) ==
  \E f \in g.gep : n \notin Ends(f) /\ f[1] = Onto(n, r)[e[1]] /\ f[2] = Onto(n, r)[e[2]]

IsMerge(g, n, r, misread, h) ==
  /\ h.rep = [m \in Node |-> IF m \in g.subs[n] THEN r ELSE g.rep[m]]
  /\ h.subs = [g.subs EXCEPT ![r] = @ \cup g.subs[n]]
  /\ h.copy = NoLoops(Moved(g.copy, Onto(n, r)))
  /\ h.load = Moved(g.load, Onto(n, r))
  /\ h.store = Moved(g.store, Onto(n, r))
  /\ h.pts = [g.pts EXCEPT ![r] = @ \cup g.pts[n]]
  /\ h.propa = [g.propa EXCEPT ![r] = @ \cap g.propa[n]]
  /\ h.gep = {e \in g.gep : n \notin Ends(e)} \cup
        NoLoops({<<Onto(n, r)[e[1]], Onto(n, r)[e[2]], e[3]>> :
                   e \in {f \in g.gep : n \in Ends(f) /\ ~Taken(g, n, r, f)}})
  /\ h.variant = NoLoops(Moved(g.variant, Onto(n, r)))
  /\ h.pwc = Pwc(g, n, r, misread)
  /\ h = [rep |-> h.rep, subs |-> h.subs, copy |-> h.copy, load |-> h.load,
          store |-> h.store, pts |-> h.pts, propa |-> h.propa, gep |-> h.gep,
          variant |-> h.variant, pwc |-> h.pwc]

LEMMA MergeFields ==
  ASSUME NEW g, NEW n, NEW r, NEW misread
  PROVE  IsMerge(g, n, r, misread, MergeNodeToRep(g, n, r, misread))
BY DEF MergeNodeToRep, Onto, Taken, IsMerge

LEMMA MovedInEdge ==
  ASSUME NEW E, E \subseteq Edge, NEW mv \in [Node -> Node]
  PROVE  Moved(E, mv) \subseteq Edge
<1>1. \A e \in E : e[1] \in Node /\ e[2] \in Node
  BY DEF Edge
<1> QED BY <1>1 DEF Moved, Edge

LEMMA MergeType ==
  ASSUME NEW g \in GraphType, NEW n \in Node, NEW r \in Node, NEW misread
  PROVE  MergeNodeToRep(g, n, r, misread) \in GraphType
<1>1. PICK h : h = MergeNodeToRep(g, n, r, misread)
  OBVIOUS
<1>10. IsMerge(g, n, r, misread, h)
  BY <1>1, MergeFields
<1> DEFINE mv == Onto(n, r)
<1>2. mv \in [Node -> Node]
  BY DEF Onto
<1> HIDE DEF mv
<1>3. h.rep \in [Node -> Node] /\ h.subs \in [Node -> SUBSET Node]
  BY <1>10, GraphFields DEF IsMerge
<1>4. h.copy \subseteq Edge /\ h.load \subseteq Edge /\ h.store \subseteq Edge /\ h.variant \subseteq Edge
  <2>1. Moved(g.copy, mv) \subseteq Edge /\ Moved(g.load, mv) \subseteq Edge
        /\ Moved(g.store, mv) \subseteq Edge /\ Moved(g.variant, mv) \subseteq Edge
    BY <1>2, MovedInEdge, GraphFields
  <2> QED BY <1>10, <2>1 DEF IsMerge, NoLoops, mv
<1>5. h.pts \in Assignment /\ h.propa \in Assignment
  BY <1>10, GraphFields DEF IsMerge, Assignment
<1>6. h.gep \subseteq Gep
  <2>1. \A e \in g.gep : e[1] \in Node /\ e[2] \in Node /\ e[3] \in Nat /\ e \in Gep
    BY GraphFields DEF Gep
  <2>2. \A e \in g.gep : <<mv[e[1]], mv[e[2]], e[3]>> \in Gep
    BY <2>1, <1>2 DEF Gep
  <2>3. h.gep = {e \in g.gep : n \notin Ends(e)} \cup
               NoLoops({<<mv[e[1]], mv[e[2]], e[3]>> :
                          e \in {f \in g.gep : n \in Ends(f) /\ ~Taken(g, n, r, f)}})
    BY <1>10 DEF IsMerge, mv
  <2> QED BY <2>1, <2>2, <2>3 DEF NoLoops
<1>7. h.pwc \subseteq Node
  BY <1>10, GraphFields DEF IsMerge, Pwc
<1>8. h = [rep |-> h.rep, subs |-> h.subs, copy |-> h.copy, load |-> h.load,
           store |-> h.store, pts |-> h.pts, propa |-> h.propa, gep |-> h.gep,
           variant |-> h.variant, pwc |-> h.pwc]
  BY <1>10 DEF IsMerge
<1>9. h \in GraphType
  BY <1>3, <1>4, <1>5, <1>6, <1>7, <1>8 DEF GraphType
<1> QED BY <1>1, <1>9

(***************************************************************************)
(* What holds of a graph and what has been merged so far, and is kept by   *)
(* each merge, holds when all is merged, in whatever order.                *)
(***************************************************************************)
KeptByMerges(I, pairs) ==
  \A D \in SUBSET pairs : \A e \in pairs \ D : \A h \in GraphType : \A misread \in Misread :
    <<D, h>> \in I => <<D \cup {e}, MergeNodeToRep(h, e[1], e[2], misread)>> \in I

LEMMA MergesInduct ==
  ASSUME NEW g \in GraphType, NEW pairs, pairs \subseteq Edge,
         NEW merged \in Merges(g, pairs), NEW I, <<{}, g>> \in I, KeptByMerges(I, pairs)
  PROVE  <<pairs, merged>> \in I /\ merged \in GraphType
<1> DEFINE m == Cardinality(pairs)
<1>1. IsFiniteSet(pairs) /\ m \in Nat
  <2>1. IsFiniteSet(Node)
    BY FieldAssumption
  <2>2. IsFiniteSet(Edge)
    BY <2>1, FS_Product DEF Edge
  <2> QED BY <2>2, FS_Subset, FS_CardinalityType
<1>2. PICK order \in SetToSeqs(pairs), misread \in Misread :
        merged = MergeInOrder(g, order, misread)
  BY DEF Merges
<1>3. order \in [1 .. m -> pairs] /\ \A i, j \in 1 .. m : i # j => order[i] # order[j]
  BY <1>2 DEF SetToSeqs
<1>4. \A e \in pairs : \E i \in 1 .. m : order[i] = e
  <2>1. order \in Injection(1 .. m, pairs)
    BY <1>3 DEF Injection, IsInjective
  <2>2. Cardinality(1 .. m) = m
    BY <1>1, FS_Interval
  <2>3. order \in Surjection(1 .. m, pairs)
    BY <1>1, <2>1, <2>2, FS_Injection
  <2> QED BY <2>3 DEF Surjection
<1> DEFINE step == [x \in GraphType \X (1 .. m) |->
                      MergeNodeToRep(x[1], order[x[2]][1], order[x[2]][2], misread)]
<1>5. \A i \in 1 .. m : order[i] \in pairs /\ order[i][1] \in Node /\ order[i][2] \in Node
  BY <1>3 DEF Edge
<1>6. step \in [GraphType \X (1 .. m) -> GraphType]
  BY <1>5, MergeType
<1>7. PICK f : FoldOver(m, GraphType, g, step, f)
  <2> HIDE DEF step, m
  <2> QED BY <1>1, <1>6, FoldExists
<1> DEFINE IsFold(h) ==
      h = [T \in SUBSET (1 .. m) |->
             IF T = {} THEN g
             ELSE MergeNodeToRep(h[T \ {LastOf(T)}], order[LastOf(T)][1], order[LastOf(T)][2], misread)]
<1>8. IsFold(f)
  <2>1. ASSUME NEW T \in SUBSET (1 .. m), T # {}
        PROVE  f[T] = MergeNodeToRep(f[T \ {LastOf(T)}], order[LastOf(T)][1], order[LastOf(T)][2], misread)
    <3>1. LastOf(T) \in 1 .. m
      BY <1>1, <2>1, LastExists
    <3>2. f[T \ {LastOf(T)}] \in GraphType
      BY <1>7 DEF FoldOver
    <3>3. f[T] = step[<<f[T \ {LastOf(T)}], LastOf(T)>>]
      BY <1>7, <2>1 DEF FoldOver
    <3> QED BY <3>1, <3>2, <3>3
  <2>2. f[{}] = g /\ f = [T \in SUBSET (1 .. m) |-> f[T]]
    BY <1>7 DEF FoldOver
  <2> HIDE DEF step, m
  <2> QED BY <2>1, <2>2
<1> DEFINE fold == CHOOSE h : IsFold(h)
<1>9. IsFold(fold)
  <2> HIDE DEF IsFold
  <2> QED BY <1>8
<1>10. merged = fold[1 .. m]
  <2>1. DOMAIN order = 1 .. m
    BY <1>3
  <2>2. merged = (CHOOSE h : h = [T \in SUBSET (DOMAIN order) |->
             IF T = {} THEN g
             ELSE MergeNodeToRep(h[T \ {LastOf(T)}], order[LastOf(T)][1], order[LastOf(T)][2], misread)])[DOMAIN order]
    BY <1>2 DEF MergeInOrder, FoldLeft, MapThenFoldSet, Max, LastOf
  <2> QED BY <2>1, <2>2
<1> DEFINE done(k) == {order[i] : i \in 1 .. k}
           K == {k \in Nat : k <= m => fold[1 .. k] \in GraphType /\ <<done(k), fold[1 .. k]>> \in I}
<1>11. 0 \in K
  <2>1. 1 .. 0 = {} /\ 1 .. 0 \in SUBSET (1 .. m)
    BY <1>1
  <2>2. fold[1 .. 0] = g
    <3> HIDE DEF fold
    <3> QED BY <1>9, <2>1
  <2>3. done(0) = {}
    BY <2>1
  <2> HIDE DEF fold, done
  <2> QED BY <2>2, <2>3
<1>12. ASSUME NEW k \in K, k + 1 <= m
       PROVE  fold[1 .. k + 1] \in GraphType /\ <<done(k + 1), fold[1 .. k + 1]>> \in I
  <2>1. k \in Nat /\ k <= m /\ k + 1 \in 1 .. m
    BY <1>1, <1>12
  <2>2. fold[1 .. k] \in GraphType /\ <<done(k), fold[1 .. k]>> \in I
    <3> HIDE DEF fold, done, m
    <3> QED BY <2>1
  <2>3. LastOf(1 .. k + 1) = k + 1
    <3>1. k + 1 \in 1 .. k + 1 /\ \A y \in 1 .. k + 1 : y \in Nat /\ k + 1 >= y
      BY <2>1
    <3>2. LastOf(1 .. k + 1) \in 1 .. k + 1 /\ \A y \in 1 .. k + 1 : LastOf(1 .. k + 1) >= y
      BY <3>1 DEF LastOf
    <3> QED BY <3>1, <3>2, <2>1
  <2>4. 1 .. k + 1 \in SUBSET (1 .. m) /\ 1 .. k + 1 # {} /\ (1 .. k + 1) \ {k + 1} = 1 .. k
    <3>1. k \in Nat /\ m \in Nat /\ k + 1 <= m
      BY <1>1, <1>12, <2>1
    <3> HIDE DEF m
    <3>2. \A i \in 1 .. k + 1 : i \in 1 .. m
      BY <3>1
    <3>3. k + 1 \in 1 .. k + 1 /\ (1 .. k + 1) \ {k + 1} = 1 .. k
      BY <3>1
    <3> QED BY <3>2, <3>3
  <2>5. fold[1 .. k + 1] = MergeNodeToRep(fold[1 .. k], order[k + 1][1], order[k + 1][2], misread)
    <3> HIDE DEF fold, m
    <3> QED BY <1>9, <2>3, <2>4
  <2>6. order[k + 1] \in pairs \ done(k)
    <3> HIDE DEF m
    <3>1. \A i \in 1 .. k : i \in 1 .. m /\ i # k + 1
      BY <1>1, <2>1
    <3> QED BY <1>3, <2>1, <3>1
  <2>7. done(k) \in SUBSET pairs /\ done(k + 1) = done(k) \cup {order[k + 1]}
    <3> HIDE DEF m
    <3>1. \A i \in 1 .. k : i \in 1 .. m
      BY <1>1, <2>1
    <3>2. 1 .. k + 1 = (1 .. k) \cup {k + 1}
      BY <2>1
    <3> QED BY <1>5, <2>1, <3>1, <3>2
  <2>8. fold[1 .. k + 1] \in GraphType
    <3> HIDE DEF fold, m
    <3> QED BY <1>5, <2>1, <2>2, <2>5, MergeType
  <2>9. <<done(k) \cup {order[k + 1]}, MergeNodeToRep(fold[1 .. k], order[k + 1][1], order[k + 1][2], misread)>> \in I
    <3> HIDE DEF fold, done, m
    <3> QED BY <1>2, <2>2, <2>6, <2>7 DEF KeptByMerges
  <2> HIDE DEF fold, done, m
  <2> QED BY <2>5, <2>7, <2>8, <2>9
<1>13. K = Nat
  <2>1. \A k \in K : k + 1 \in K
    <3> SUFFICES ASSUME NEW k \in K PROVE k + 1 \in K
      OBVIOUS
    <3>1. k \in Nat
      OBVIOUS
    <3> HIDE DEF fold, done, m
    <3> QED BY <1>12, <3>1
  <2>2. K \subseteq Nat
    OBVIOUS
  <2> HIDE DEF K
  <2> QED BY <1>11, <2>1, <2>2, IsOfAllNaturals
<1>14. fold[1 .. m] \in GraphType /\ <<done(m), fold[1 .. m]>> \in I
  <2>1. m \in K
    BY <1>1, <1>13
  <2> HIDE DEF fold, done
  <2> QED BY <2>1, <1>1
<1>15. done(m) = pairs
  BY <1>4, <1>5
<1> QED BY <1>10, <1>14, <1>15

-----------------------------------------------------------------------------
(* All edges join representatives, at most one gep edge for each pair.     *)
GepsUnique(E) == \A e, f \in E : e[1] = f[1] /\ e[2] = f[2] => e = f

GoodGraph(g) ==
  /\ RepAgree(g.rep, g.subs)
  /\ AtReps(g.copy, g.rep) /\ AtReps(g.load, g.rep) /\ AtReps(g.store, g.rep)
  /\ AtReps(g.gep, g.rep) /\ AtReps(g.variant, g.rep)
  /\ GepsUnique(g.gep)

(* Pairs that can be merged in any order: each representative goes away at *)
(* most once, and into one that stays.                                     *)
MergePairs(g, pairs) ==
  /\ pairs \subseteq Edge
  /\ \A e \in pairs : g.rep[e[1]] = e[1] /\ g.rep[e[2]] = e[2] /\ e[1] # e[2]
  /\ \A e, f \in pairs : (e[1] = f[1] => e = f) /\ e[1] # f[2]

LEMMA MergeRep ==
  ASSUME NEW g \in GraphType, NEW n \in Node, NEW r \in Node, NEW misread, NEW h,
         IsMerge(g, n, r, misread, h), RepAgree(g.rep, g.subs),
         g.rep[n] = n, g.rep[r] = r, n # r
  PROVE  /\ \A m \in Node : h.rep[m] = IF g.rep[m] = n THEN r ELSE g.rep[m]
         /\ RepAgree(h.rep, h.subs)
<1>1. g.rep \in [Node -> Node] /\ g.subs \in [Node -> SUBSET Node]
  BY GraphFields
<1>2. \A m \in Node : m \in g.subs[n] <=> g.rep[m] = n
  BY DEF RepAgree
<1>3. \A m \in Node : h.rep[m] = IF g.rep[m] = n THEN r ELSE g.rep[m]
  BY <1>2 DEF IsMerge
<1>4. \A m, k \in Node : k \in h.subs[m] <=> k \in g.subs[m] \/ (m = r /\ k \in g.subs[n])
  BY <1>1 DEF IsMerge
<1>5. ASSUME NEW m \in Node, NEW k \in Node, h.rep[m] = k
      PROVE  h.rep[k] = k /\ m \in h.subs[k]
  BY <1>1, <1>2, <1>3, <1>4, <1>5 DEF RepAgree
<1>6. ASSUME NEW m \in Node, NEW k \in Node, h.rep[k] = k, m \in h.subs[k]
      PROVE  h.rep[m] = k
  BY <1>1, <1>2, <1>3, <1>4, <1>6 DEF RepAgree
<1> QED BY <1>3, <1>5, <1>6 DEF RepAgree

LEMMA OntoAtReps ==
  ASSUME NEW E, E \subseteq Edge, NEW n \in Node, NEW r \in Node, n # r, NEW old, NEW new,
         AtReps(E, old), old[r] = r,
         \A m \in Node : new[m] = IF old[m] = n THEN r ELSE old[m]
  PROVE  AtReps(Moved(E, Onto(n, r)), new)
<1>1. \A e \in E : e[1] \in Node /\ e[2] \in Node
  BY DEF Edge
<1>2. \A m \in Node : old[m] = m => new[Onto(n, r)[m]] = Onto(n, r)[m]
  BY DEF Onto
<1> QED BY <1>1, <1>2 DEF AtReps, Moved

LEMMA MergeGeps ==
  ASSUME NEW g \in GraphType, NEW n \in Node, NEW r \in Node, NEW misread, NEW h,
         IsMerge(g, n, r, misread, h), n # r,
         AtReps(g.gep, g.rep), GepsUnique(g.gep), g.rep[r] = r,
         \A m \in Node : h.rep[m] = IF g.rep[m] = n THEN r ELSE g.rep[m]
  PROVE  AtReps(h.gep, h.rep) /\ GepsUnique(h.gep)
<1> DEFINE mv == Onto(n, r)
           old == {e \in g.gep : n \notin Ends(e)}
           new == {<<mv[e[1]], mv[e[2]], e[3]>> : e \in {f \in g.gep : n \in Ends(f) /\ ~Taken(g, n, r, f)}}
<1>1. \A e \in g.gep : e[1] \in Node /\ e[2] \in Node /\ e[3] \in Nat /\ e = <<e[1], e[2], e[3]>>
  BY GraphFields DEF Gep
<1>2. h.gep = old \cup NoLoops(new)
  BY DEF IsMerge
<1>3. ASSUME NEW e \in h.gep PROVE h.rep[e[1]] = e[1] /\ h.rep[e[2]] = e[2]
  <2>1. CASE e \in old
    BY <2>1, <1>1 DEF AtReps, Ends
  <2>2. ASSUME NEW d \in g.gep, e = <<mv[d[1]], mv[d[2]], d[3]>>
        PROVE  h.rep[e[1]] = e[1] /\ h.rep[e[2]] = e[2]
    BY <2>2, <1>1 DEF AtReps, Onto
  <2> QED BY <1>2, <2>1, <2>2 DEF NoLoops
<1>4. ASSUME NEW e \in h.gep, NEW f \in h.gep, e[1] = f[1], e[2] = f[2] PROVE e = f
  <2>1. CASE e \in old /\ f \in old
    BY <1>4, <2>1 DEF GepsUnique
  <2>2. ASSUME NEW d \in g.gep, ~Taken(g, n, r, d), NEW x \in old,
               x[1] = mv[d[1]], x[2] = mv[d[2]]
        PROVE  FALSE
    BY <2>2 DEF Taken
  <2>3. ASSUME e \in old, f \in NoLoops(new) PROVE FALSE
    <3>1. PICK d \in g.gep : ~Taken(g, n, r, d) /\ f = <<mv[d[1]], mv[d[2]], d[3]>>
      BY <2>3 DEF NoLoops
    <3>2. e[1] = mv[d[1]] /\ e[2] = mv[d[2]]
      BY <1>4, <3>1
    <3> HIDE DEF mv
    <3> QED BY <2>2, <2>3, <3>1, <3>2
  <2>4. ASSUME f \in old, e \in NoLoops(new) PROVE FALSE
    <3>1. PICK d \in g.gep : ~Taken(g, n, r, d) /\ e = <<mv[d[1]], mv[d[2]], d[3]>>
      BY <2>4 DEF NoLoops
    <3>2. f[1] = mv[d[1]] /\ f[2] = mv[d[2]]
      BY <1>4, <3>1
    <3> HIDE DEF mv
    <3> QED BY <2>2, <2>4, <3>1, <3>2
  <2>5. CASE e \in NoLoops(new) /\ f \in NoLoops(new)
    <3>1. PICK d \in g.gep : n \in Ends(d) /\ e = <<mv[d[1]], mv[d[2]], d[3]>>
      BY <2>5 DEF NoLoops
    <3>2. PICK x \in g.gep : n \in Ends(x) /\ f = <<mv[x[1]], mv[x[2]], x[3]>>
      BY <2>5 DEF NoLoops
    <3>3. mv[d[1]] = mv[x[1]] /\ mv[d[2]] = mv[x[2]] /\ mv[d[1]] # mv[d[2]]
      BY <1>4, <2>5, <3>1, <3>2 DEF NoLoops
    <3>4. d[1] = x[1] /\ d[2] = x[2]
      BY <1>1, <3>1, <3>2, <3>3 DEF Onto, Ends
    <3> QED BY <3>1, <3>2, <3>4 DEF GepsUnique
  <2> QED BY <1>2, <2>1, <2>3, <2>4, <2>5
<1> QED BY <1>3, <1>4 DEF AtReps, GepsUnique

LEMMA MergeGood ==
  ASSUME NEW g \in GraphType, GoodGraph(g), NEW n \in Node, NEW r \in Node, NEW misread,
         NEW h, IsMerge(g, n, r, misread, h), g.rep[n] = n, g.rep[r] = r, n # r
  PROVE  /\ \A m \in Node : h.rep[m] = IF g.rep[m] = n THEN r ELSE g.rep[m]
         /\ GoodGraph(h)
<1>1. /\ \A m \in Node : h.rep[m] = IF g.rep[m] = n THEN r ELSE g.rep[m]
      /\ RepAgree(h.rep, h.subs)
  BY MergeRep DEF GoodGraph
<1>2. AtReps(h.gep, h.rep) /\ GepsUnique(h.gep)
  BY <1>1, MergeGeps DEF GoodGraph
<1>3. ASSUME NEW E, E \subseteq Edge, AtReps(E, g.rep) PROVE AtReps(Moved(E, Onto(n, r)), h.rep)
  BY <1>1, <1>3, OntoAtReps
<1>4. /\ AtReps(Moved(g.copy, Onto(n, r)), h.rep) /\ AtReps(h.load, h.rep)
      /\ AtReps(h.store, h.rep) /\ AtReps(Moved(g.variant, Onto(n, r)), h.rep)
  BY <1>3, GraphFields DEF GoodGraph, IsMerge
<1>5. AtReps(h.copy, h.rep) /\ AtReps(h.variant, h.rep)
  BY <1>4 DEF IsMerge, NoLoops, AtReps
<1> QED BY <1>1, <1>2, <1>4, <1>5 DEF GoodGraph

(* Where the representatives are once the pairs D have been merged.        *)
RepsMoved(g, D, h) ==
  \A m \in Node :
    /\ \A e \in D : e[1] = g.rep[m] => h.rep[m] = e[2]
    /\ (\A e \in D : e[1] # g.rep[m]) => h.rep[m] = g.rep[m]

(* What one more merge does after some of the pairs.                       *)
LEMMA RepsMovedFurther ==
  ASSUME NEW g \in GraphType, RepAgree(g.rep, g.subs), NEW pairs, MergePairs(g, pairs),
         NEW D \in SUBSET pairs, NEW e \in pairs \ D, NEW h \in GraphType, GoodGraph(h),
         RepsMoved(g, D, h), NEW misread, NEW k, IsMerge(h, e[1], e[2], misread, k)
  PROVE  /\ h.rep[e[1]] = e[1] /\ h.rep[e[2]] = e[2] /\ e[1] # e[2]
         /\ e[1] \in Node /\ e[2] \in Node
         /\ \A m \in Node : k.rep[m] = IF h.rep[m] = e[1] THEN e[2] ELSE h.rep[m]
         /\ GoodGraph(k)
         /\ RepsMoved(g, D \cup {e}, k)
<1>1. /\ e[1] \in Node /\ e[2] \in Node /\ e[1] # e[2]
      /\ g.rep[e[1]] = e[1] /\ g.rep[e[2]] = e[2]
  BY DEF MergePairs, Edge
<1>2. h.rep[e[1]] = e[1] /\ h.rep[e[2]] = e[2]
  BY <1>1 DEF MergePairs, RepsMoved
<1>3. /\ \A m \in Node : k.rep[m] = IF h.rep[m] = e[1] THEN e[2] ELSE h.rep[m]
      /\ GoodGraph(k)
  BY <1>1, <1>2, MergeGood
<1>4. ASSUME NEW m \in Node, NEW f \in D \cup {e}, f[1] = g.rep[m] PROVE k.rep[m] = f[2]
  <2>1. CASE f \in D
    BY <1>3, <1>4, <2>1 DEF MergePairs, RepsMoved
  <2>2. CASE f = e
    BY <1>3, <1>4, <2>2 DEF MergePairs, RepsMoved
  <2> QED BY <2>1, <2>2
<1>5. ASSUME NEW m \in Node, \A f \in D \cup {e} : f[1] # g.rep[m] PROVE k.rep[m] = g.rep[m]
  BY <1>3, <1>5 DEF RepsMoved
<1>6. RepsMoved(g, D \cup {e}, k)
  BY <1>4, <1>5 DEF RepsMoved
<1> QED BY <1>1, <1>2, <1>3, <1>6

(* All the pairs merged.                                                   *)
LEMMA MergesGood ==
  ASSUME NEW g \in GraphType, GoodGraph(g), NEW pairs, MergePairs(g, pairs),
         NEW merged \in Merges(g, pairs)
  PROVE  /\ merged \in GraphType
         /\ GoodGraph(merged)
         /\ RepsMoved(g, pairs, merged)
         /\ \A n \in Node : \A o \in merged.pts[n] : \E m \in Node : o \in g.pts[m]
<1> DEFINE I == {x \in (SUBSET pairs) \X GraphType :
                   /\ GoodGraph(x[2])
                   /\ RepsMoved(g, x[1], x[2])
                   /\ \A n \in Node : \A o \in x[2].pts[n] : \E m \in Node : o \in g.pts[m]}
<1>1. <<{}, g>> \in I
  BY DEF RepsMoved
<1>2. ASSUME NEW D \in SUBSET pairs, NEW e \in pairs \ D, NEW h \in GraphType, NEW misread \in Misread,
             <<D, h>> \in I
      PROVE  <<D \cup {e}, MergeNodeToRep(h, e[1], e[2], misread)>> \in I
  <2>1. PICK k : k = MergeNodeToRep(h, e[1], e[2], misread)
    OBVIOUS
  <2>2. IsMerge(h, e[1], e[2], misread, k)
    BY <2>1, MergeFields
  <2>3. /\ GoodGraph(h) /\ RepsMoved(g, D, h)
        /\ \A n \in Node : \A o \in h.pts[n] : \E m \in Node : o \in g.pts[m]
    BY <1>2
  <2>4. e[1] \in Node /\ e[2] \in Node /\ GoodGraph(k) /\ RepsMoved(g, D \cup {e}, k)
    BY <2>2, <2>3, RepsMovedFurther DEF GoodGraph
  <2>5. k \in GraphType
    BY <2>1, <2>4, MergeType
  <2>6. ASSUME NEW n \in Node, NEW o \in k.pts[n] PROVE \E m \in Node : o \in g.pts[m]
    <3>1. h.pts \in Assignment
      BY GraphFields
    <3>2. \E m \in Node : o \in h.pts[m]
      BY <2>2, <2>4, <2>6, <3>1 DEF IsMerge, Assignment
    <3> QED BY <2>3, <3>2
  <2>7. <<D \cup {e}, k>> \in I
    BY <2>4, <2>5, <2>6
  <2> QED BY <2>1, <2>7
<1>3. pairs \subseteq Edge
  BY DEF MergePairs
<1>4. KeptByMerges(I, pairs)
  <2> HIDE DEF I
  <2> QED BY <1>2 DEF KeptByMerges
<1>5. <<pairs, merged>> \in I /\ merged \in GraphType
  <2> HIDE DEF I
  <2> QED BY <1>1, <1>3, <1>4, MergesInduct
<1> QED BY <1>5

-----------------------------------------------------------------------------
(***************************************************************************)
(* The state of the analysis with fields is well formed.  Collapsing goes  *)
(* on in the wave only, before loads and stores are handled.               *)
(***************************************************************************)
FieldGraphInv ==
  /\ GraphInv
  /\ AtReps(gepEdges, rep) /\ AtReps(variantEdges, rep)

FieldPhaseInv ==
  /\ PhaseInv
  /\ phase = "addr" => insensitive = {}
  /\ nodeStack # {} \/ ~Idle => phase = "solve" /\ pendLoads = {} /\ pendStores = {}

FieldFormInv == FieldTypeOK /\ FieldGraphInv /\ FieldPhaseInv

LEMMA FieldFormIsForm ==
  ASSUME FieldFormInv
  PROVE  /\ TypeOK /\ GraphInv /\ PhaseInv /\ WellFormedInv
         /\ Graph \in GraphType /\ GoodGraph(Graph)
BY DEF FieldFormInv, FieldTypeOK, FieldGraphInv, FieldPhaseInv, WellFormedInv, TypeOK, GraphInv,
       Graph, GraphType, GoodGraph, GepsUnique

LEMMA FieldInitForm == FieldInit => FieldFormInv
<1> SUFFICES ASSUME FieldInit PROVE FieldFormInv
  OBVIOUS
<1>1. TypeOK /\ GraphInv /\ PhaseInv
  BY InitWellFormed DEF FieldInit, WellFormedInv
<1>2. geps \in GepPrograms /\ geps.normal \subseteq Gep /\ geps.variant \subseteq Edge
  BY FieldAssumption DEF FieldInit
<1>3. FieldTypeOK
  BY <1>1, <1>2, FieldAssumption DEF FieldInit, FieldTypeOK
<1>4. \A e \in gepEdges \cup variantEdges : e[1] \in Node /\ e[2] \in Node
  BY <1>2 DEF FieldInit, Gep, Edge
<1>5. FieldGraphInv
  BY <1>1, <1>4 DEF FieldInit, Init, FieldGraphInv, AtReps
<1>6. FieldPhaseInv
  BY <1>1 DEF FieldInit, Init, FieldPhaseInv, Idle
<1> QED BY <1>3, <1>5, <1>6 DEF FieldFormInv

-----------------------------------------------------------------------------
(* What a state becomes when a well-formed graph takes the place of its    *)
(* own.                                                                    *)
LEMMA EmptiedType ==
  ASSUME NEW cache \in [Edge -> SUBSET Obj], NEW g
  PROVE  Emptied(cache, g) \in [Edge -> SUBSET Obj]
BY DEF Emptied

LEMMA BecomesForm ==
  ASSUME FieldFormInv, NEW g \in GraphType, GoodGraph(g), Becomes(g)
  PROVE  /\ rep' \in [Node -> Node] /\ subs' \in [Node -> SUBSET Node]
         /\ copyEdges' \subseteq Edge /\ loadEdges' \subseteq Edge /\ storeEdges' \subseteq Edge
         /\ loadCache' \in [Edge -> SUBSET Obj] /\ storeCache' \in [Edge -> SUBSET Obj]
         /\ pts' \in Assignment /\ propaPts' \in Assignment
         /\ gepEdges' \subseteq Gep /\ GepsUnique(gepEdges')
         /\ variantEdges' \subseteq Edge /\ pwc' \subseteq Node
         /\ FieldGraphInv'
<1>1. loadCache' \in [Edge -> SUBSET Obj] /\ storeCache' \in [Edge -> SUBSET Obj]
  <2>1. loadCache \in [Edge -> SUBSET Obj] /\ storeCache \in [Edge -> SUBSET Obj]
    BY FieldFormIsForm DEF TypeOK
  <2> QED BY <2>1, EmptiedType DEF Becomes
<1>2. FieldGraphInv'
  BY DEF Becomes, GoodGraph, FieldGraphInv, GraphInv
<1> QED BY <1>1, <1>2, GraphFields DEF Becomes, GoodGraph

(* The pairs a cycle's merge consists of.                                  *)
DirectEdges == copyEdges \cup Pairs(gepEdges) \cup variantEdges

LEMMA DirectEdgesForm ==
  ASSUME FieldFormInv
  PROVE  DirectEdges \subseteq Edge /\ AtReps(DirectEdges, rep)
<1>1. copyEdges \subseteq Edge /\ variantEdges \subseteq Edge /\ gepEdges \subseteq Gep
  BY DEF FieldFormInv, FieldTypeOK, TypeOK
<1>2. \A e \in gepEdges : e[1] \in Node /\ e[2] \in Node
  BY <1>1 DEF Gep
<1> QED BY <1>1, <1>2 DEF DirectEdges, Pairs, Edge, AtReps, FieldFormInv, FieldGraphInv, GraphInv

RootPairs(root) == {<<n, root[n]>> : n \in MergedNodes(root)}

LEMMA RootPairsMerge ==
  ASSUME FieldFormInv, NEW root \in RootMaps(DirectEdges)
  PROVE  MergePairs(Graph, RootPairs(root))
<1>1. root \in [Node -> Node] /\ \A n \in Node : root[root[n]] = root[n]
  BY RootOfComponent
<1>2. \A n \in Node : rep[n] = n <=> rep[root[n]] = root[n]
  BY DirectEdgesForm, RootOfLive
<1>3. ASSUME NEW n \in Node, root[n] # n PROVE rep[n] = n
  <2>1. SUFFICES ASSUME rep[n] # n PROVE FALSE
    OBVIOUS
  <2>2. \A e \in DirectEdges : e[1] # n /\ e[2] # n
    BY <2>1, DirectEdgesForm DEF AtReps
  <2> QED BY <1>3, <2>2, DirectEdgesForm, RootOfIsolatedIsItself
<1>4. RootPairs(root) \subseteq Edge
  BY <1>1 DEF RootPairs, MergedNodes, Edge
<1>5. \A e \in RootPairs(root) : \E n \in Node : root[n] # n /\ e = <<n, root[n]>>
  BY DEF RootPairs, MergedNodes
<1>6. \A e \in RootPairs(root) : rep[e[1]] = e[1] /\ rep[e[2]] = e[2] /\ e[1] # e[2]
  BY <1>2, <1>3, <1>5
<1>7. \A e, f \in RootPairs(root) : (e[1] = f[1] => e = f) /\ e[1] # f[2]
  BY <1>1, <1>5
<1> QED BY <1>4, <1>6, <1>7 DEF MergePairs, Graph

(* The merge of the cycles, with its parts named.                          *)
LEMMA FieldSCCStep ==
  ASSUME FieldFormInv, FieldSCCDetect
  PROVE  \E root \in RootMaps(DirectEdges) :
         \E merged \in Merges(Graph, RootPairs(root)) :
           /\ Becomes(merged)
           /\ nodeStack' = {n \in Node : rep[n] = n /\ root[n] = n}
           /\ waveEdges' = merged.copy \cup Pairs(merged.gep) \cup merged.variant
           /\ MergePairs(Graph, RootPairs(root))
           /\ merged \in GraphType /\ GoodGraph(merged) /\ RepsMoved(Graph, RootPairs(root), merged)
           /\ \A n \in Node : \A o \in merged.pts[n] : \E m \in Node : o \in pts[m]
<1>1. PICK root \in RootMaps(DirectEdges) :
      \E merged \in Merges(Graph, RootPairs(root)) :
        /\ Becomes(merged)
        /\ nodeStack' = {n \in Node : rep[n] = n /\ root[n] = n}
        /\ waveEdges' = merged.copy \cup Pairs(merged.gep) \cup merged.variant
  BY DEF FieldSCCDetect, DirectEdges, RootPairs
<1>2. PICK merged \in Merges(Graph, RootPairs(root)) :
        /\ Becomes(merged)
        /\ nodeStack' = {n \in Node : rep[n] = n /\ root[n] = n}
        /\ waveEdges' = merged.copy \cup Pairs(merged.gep) \cup merged.variant
  BY <1>1
<1>3. MergePairs(Graph, RootPairs(root)) /\ Graph \in GraphType /\ GoodGraph(Graph)
  BY RootPairsMerge, FieldFormIsForm
<1>4. /\ merged \in GraphType /\ GoodGraph(merged) /\ RepsMoved(Graph, RootPairs(root), merged)
      /\ \A n \in Node : \A o \in merged.pts[n] : \E m \in Node : o \in Graph.pts[m]
  BY <1>3, MergesGood
<1>5. Graph.pts = pts
  BY DEF Graph
<1> QED BY <1>2, <1>3, <1>4, <1>5

LEMMA FieldSCCForm ==
  ASSUME FieldFormInv, FieldSCCDetect
  PROVE  FieldFormInv'
<1>1. PICK root \in RootMaps(DirectEdges), merged \in GraphType :
        /\ Becomes(merged) /\ GoodGraph(merged)
        /\ nodeStack' = {n \in Node : rep[n] = n /\ root[n] = n}
        /\ waveEdges' = merged.copy \cup Pairs(merged.gep) \cup merged.variant
  BY FieldSCCStep
<1>2. phase = "scc" /\ phase' = "solve" /\ pendParams = {} /\ pendLoads = {} /\ pendStores = {}
  BY DEF FieldSCCDetect, FieldFormInv, FieldPhaseInv, PhaseInv
<1>3. waveEdges' \subseteq Edge
  <2>1. \A e \in merged.gep : e[1] \in Node /\ e[2] \in Node
    BY GraphFields DEF Gep
  <2> QED BY <1>1, <2>1, GraphFields DEF Pairs, Edge
<1>4. FieldTypeOK'
  <2>1. TypeOK'
    BY <1>1, <1>2, BecomesForm DEF FieldSCCDetect, FieldFormInv, FieldTypeOK, TypeOK
  <2> QED BY <1>1, <1>3, <2>1, BecomesForm DEF FieldSCCDetect, FieldFormInv, FieldTypeOK, GepsUnique
<1>5. FieldGraphInv'
  BY <1>1, BecomesForm
<1>6. FieldPhaseInv'
  BY <1>2 DEF FieldSCCDetect, FieldFormInv, FieldPhaseInv, PhaseInv
<1> QED BY <1>4, <1>5, <1>6 DEF FieldFormInv

-----------------------------------------------------------------------------
(* Collapsing.                                                             *)
LEMMA WholeIsObj ==
  ASSUME NEW m \in Mem, hasFields(m)
  PROVE  <<m, -1>> \in Obj /\ <<m, -1>> \in Node /\ m \notin BlkOrConstant
<1>1. Limit[m] \in Nat \ {0} /\ m \notin BlkOrConstant
  BY FieldAssumption DEF hasFields
<1>2. <<m, 0>> \in Obj
  BY <1>1, FieldAssumption
<1>3. <<m, -1>> \in Obj
  BY <1>2, FieldAssumption DEF whole
<1> QED BY <1>1, <1>3, GraphAssumption

LEMMA ReplacedIs ==
  ASSUME pts \in Assignment, NEW m \in Mem, hasFields(m)
  PROVE  /\ Replaced(m) \in Assignment
         /\ \A n \in Node : Replaced(m)[n] \cap fields(m) = {}
         /\ \A n \in Node : \A o \in Replaced(m)[n] : o \notin fields(m) /\ (o \in pts[n] \/ o = <<m, -1>>)
         /\ \A n \in Node : \A o \in pts[n] \ fields(m) : o \in Replaced(m)[n]
         /\ \A n \in Node : \A o \in pts[n] \cap fields(m) : <<m, -1>> \in Replaced(m)[n]
         /\ \A n \in Node : \A o \in Replaced(m)[n] \ pts[n] : pts[n] \cap fields(m) # {}
<1>1. <<m, -1>> \in Obj /\ <<m, -1>> \notin fields(m)
  BY WholeIsObj DEF fields, isField
<1> QED BY <1>1 DEF Replaced, Assignment

FieldPairs(m) == ({rep[f] : f \in fields(m)} \ {rep[<<m, -1>>]}) \X {rep[<<m, -1>>]}
Replacing(m)  == [Graph EXCEPT !.pts = Replaced(m)]

LEMMA ReplacingFields ==
  ASSUME NEW m
  PROVE  /\ Replacing(m).rep = rep /\ Replacing(m).subs = subs
         /\ Replacing(m).copy = copyEdges /\ Replacing(m).load = loadEdges
         /\ Replacing(m).store = storeEdges
         /\ Replacing(m).pts = Replaced(m) /\ Replacing(m).propa = propaPts
         /\ Replacing(m).gep = gepEdges /\ Replacing(m).variant = variantEdges
         /\ Replacing(m).pwc = pwc
BY DEF Replacing, Graph

LEMMA ReplacingGood ==
  ASSUME FieldFormInv, NEW m \in Mem, hasFields(m)
  PROVE  /\ Replacing(m) \in GraphType /\ GoodGraph(Replacing(m))
         /\ MergePairs(Replacing(m), FieldPairs(m))
<1>1. Graph \in GraphType /\ GoodGraph(Graph) /\ TypeOK /\ GraphInv
  BY FieldFormIsForm
<1>2. Replaced(m) \in Assignment
  BY <1>1, ReplacedIs DEF TypeOK
<1>3. Replacing(m) \in GraphType
  BY <1>1, <1>2 DEF Replacing, GraphType
<1>4. GoodGraph(Replacing(m))
  BY <1>1, ReplacingFields DEF GoodGraph, Graph
<1>5. fields(m) \subseteq Node /\ <<m, -1>> \in Node
  BY WholeIsObj, GraphAssumption DEF fields
<1>6. \A n \in Node : rep[n] \in Node /\ rep[rep[n]] = rep[n]
  BY <1>1 DEF TypeOK, GraphInv, RepAgree
<1>7. MergePairs(Replacing(m), FieldPairs(m))
  BY <1>5, <1>6, ReplacingFields DEF MergePairs, FieldPairs, Edge
<1> QED BY <1>3, <1>4, <1>7

(* A collapse, with its parts named.                                       *)
LEMMA CollapseStep ==
  ASSUME FieldFormInv, NEW m \in Mem, hasFields(m), NEW rest, CollapseField(m, rest)
  PROVE  \E merged \in Merges(Replacing(m), FieldPairs(m)) :
           /\ insensitive' = insensitive \cup {m}
           /\ reanalyze' = (reanalyze \/ Replaced(m) # pts)
           /\ Becomes(merged)
           /\ pendingPts' = rest \cup
                IF rep[<<m, -1>>] \in merged.pwc
                THEN collapseNodePts(merged.pts[rep[<<m, -1>>]], insensitive \cup {m}) ELSE {}
           /\ merged \in GraphType /\ GoodGraph(merged)
           /\ RepsMoved(Replacing(m), FieldPairs(m), merged)
           /\ \A n \in Node : \A o \in merged.pts[n] : \E k \in Node : o \in Replaced(m)[k]
<1>1. PICK merged \in Merges(Replacing(m), FieldPairs(m)) :
           /\ insensitive' = insensitive \cup {m}
           /\ reanalyze' = (reanalyze \/ Replaced(m) # pts)
           /\ Becomes(merged)
           /\ pendingPts' = rest \cup
                IF rep[<<m, -1>>] \in merged.pwc
                THEN collapseNodePts(merged.pts[rep[<<m, -1>>]], insensitive \cup {m}) ELSE {}
  BY DEF CollapseField, FieldPairs, Replacing, ReanalyzeAfter
<1>2. /\ merged \in GraphType /\ GoodGraph(merged)
      /\ RepsMoved(Replacing(m), FieldPairs(m), merged)
      /\ \A n \in Node : \A o \in merged.pts[n] : \E k \in Node : o \in Replacing(m).pts[k]
  BY ReplacingGood, MergesGood
<1> QED BY <1>1, <1>2, ReplacingFields

LEMMA CollapseForm ==
  ASSUME FieldFormInv, NEW m \in Mem, NEW rest \in SUBSET Obj, CollapseField(m, rest)
  PROVE  /\ rep' \in [Node -> Node] /\ subs' \in [Node -> SUBSET Node]
         /\ copyEdges' \subseteq Edge /\ loadEdges' \subseteq Edge /\ storeEdges' \subseteq Edge
         /\ loadCache' \in [Edge -> SUBSET Obj] /\ storeCache' \in [Edge -> SUBSET Obj]
         /\ pts' \in Assignment /\ propaPts' \in Assignment
         /\ gepEdges' \subseteq Gep /\ GepsUnique(gepEdges')
         /\ variantEdges' \subseteq Edge /\ pwc' \subseteq Node
         /\ FieldGraphInv'
         /\ reanalyze' \in BOOLEAN
         /\ insensitive' \subseteq Mem \ BlkOrConstant /\ insensitive \subseteq insensitive'
         /\ pendingPts' \subseteq Obj
<1>1. CASE ~hasFields(m)
  <2>1. CollapseNothing(rest)
    BY <1>1 DEF CollapseField
  <2>2. FieldGraphInv'
    BY <2>1 DEF CollapseNothing, FieldFormInv, FieldGraphInv, GraphInv
  <2> QED BY <2>1, <2>2 DEF CollapseNothing, FieldFormInv, FieldTypeOK, TypeOK, GepsUnique
<1>2. CASE hasFields(m)
  <2>1. PICK merged \in Merges(Replacing(m), FieldPairs(m)) :
           /\ insensitive' = insensitive \cup {m}
           /\ reanalyze' = (reanalyze \/ Replaced(m) # pts)
           /\ Becomes(merged)
           /\ pendingPts' = rest \cup
                IF rep[<<m, -1>>] \in merged.pwc
                THEN collapseNodePts(merged.pts[rep[<<m, -1>>]], insensitive \cup {m}) ELSE {}
           /\ merged \in GraphType /\ GoodGraph(merged)
    BY <1>2, CollapseStep
  <2>2. rep[<<m, -1>>] \in Node /\ insensitive \subseteq Mem \ BlkOrConstant
    BY <1>2, WholeIsObj DEF FieldFormInv, FieldTypeOK, TypeOK
  <2>3. pendingPts' \subseteq Obj
    <3>1. merged.pts \in Assignment
      BY <2>1, GraphFields
    <3> QED BY <2>1, <2>2, <3>1 DEF collapseNodePts, Assignment
  <2>4. insensitive' \subseteq Mem \ BlkOrConstant /\ insensitive \subseteq insensitive'
    BY <1>2, <2>1, <2>2, WholeIsObj
  <2>5. reanalyze' \in BOOLEAN
    BY <2>1
  <2> QED BY <2>1, <2>3, <2>4, <2>5, BecomesForm
<1> QED BY <1>1, <1>2

LEMMA FieldAtIsObj ==
  ASSUME NEW o \in Obj, NEW k \in Nat
  PROVE  FieldAt(o, k) \in Obj /\ whole(o) \in Obj /\ o[1] \in Mem
<1>1. o[1] \in Mem /\ o[2] \in Int /\ whole(o) \in Obj
  BY FieldAssumption
<1>2. ASSUME o[1] \notin BlkOrConstant, NEW i \in Int
      PROVE  <<o[1], i % Limit[o[1]]>> \in Obj
  <2>1. Limit[o[1]] \in Nat \ {0}
    BY <1>1, FieldAssumption
  <2>2. i % Limit[o[1]] \in 0 .. Limit[o[1]] - 1
    BY <2>1
  <2> QED BY <1>1, <1>2, <2>2, FieldAssumption
<1>3. (IF isField(o) THEN o[2] + k ELSE k) \in Int
  BY <1>1
<1> QED BY <1>1, <1>2, <1>3 DEF FieldAt

LEMMA HandedIsObj ==
  ASSUME FieldFormInv, NEW n \in Node, NEW m \in Node, NEW D \in SUBSET Obj
  PROVE  Handed(n, m, D) \subseteq Obj
<1>1. \A e \in gepEdges : e[3] \in Nat
  BY DEF FieldFormInv, FieldTypeOK, Gep
<1>2. ASSUME NEW e \in gepEdges PROVE {FieldAt(o, e[3]) : o \in D} \subseteq Obj
  BY <1>1, FieldAtIsObj
<1>3. {whole(o) : o \in D} \subseteq Obj
  BY FieldAtIsObj
<1>4. UNION {{FieldAt(o, e[3]) : o \in D} : e \in {f \in gepEdges : f[1] = n /\ f[2] = m}} \subseteq Obj
  BY <1>2
<1> QED BY <1>3, <1>4 DEF Handed

LEMMA HandleCopyGepForm ==
  ASSUME FieldFormInv, NEW n \in Node, HandleCopyGep(n)
  PROVE  FieldFormInv'
<1>1. CASE rep[n] # n
  <2>1. UNCHANGED <<pts, propaPts, worklist, insensitive, toCollapse>>
    BY <1>1 DEF HandleCopyGep
  <2>2. FieldTypeOK'
    BY <2>1 DEF HandleCopyGep, FieldFormInv, FieldTypeOK, TypeOK
  <2>3. FieldGraphInv' /\ FieldPhaseInv'
    BY <2>1 DEF HandleCopyGep, FieldFormInv, FieldGraphInv, GraphInv, FieldPhaseInv, PhaseInv, Idle
  <2> QED BY <2>2, <2>3 DEF FieldFormInv
<1>2. CASE rep[n] = n
  <2> DEFINE diff == pts[n] \ propaPts[n]
             new  == {o \in diff : o[1] \notin BlkOrConstant /\ \E e \in variantEdges : e[1] = n}
  <2>1. /\ propaPts' = [propaPts EXCEPT ![n] = pts[n]]
        /\ pts' = [m \in Node |-> pts[m] \cup Handed(n, m, diff)]
        /\ worklist' = worklist \cup {m \in Node : ~(Handed(n, m, diff) \subseteq pts[m])}
        /\ MarkVariant(new)
    BY <1>2 DEF HandleCopyGep
  <2>2. pts \in Assignment /\ propaPts \in Assignment /\ diff \subseteq Obj
    BY DEF FieldFormInv, FieldTypeOK, TypeOK, Assignment
  <2>3. \A m \in Node : Handed(n, m, diff) \subseteq Obj
    BY <2>2, HandedIsObj
  <2>4. pts' \in Assignment /\ propaPts' \in Assignment
    BY <2>1, <2>2, <2>3 DEF Assignment
  <2>5. \A o \in new : o[1] \in Mem \ BlkOrConstant
    BY <2>2, FieldAtIsObj
  <2>6. insensitive' \subseteq Mem \ BlkOrConstant /\ toCollapse' \subseteq insensitive'
    BY <2>1, <2>5 DEF MarkVariant, FieldFormInv, FieldTypeOK
  <2>7. worklist' \subseteq Node
    BY <2>1 DEF FieldFormInv, FieldTypeOK, TypeOK
  <2>8. TypeOK'
    BY <2>4, <2>7 DEF HandleCopyGep, FieldFormInv, FieldTypeOK, TypeOK
  <2>9. FieldTypeOK'
    BY <2>6, <2>8 DEF HandleCopyGep, FieldFormInv, FieldTypeOK
  <2>10. FieldGraphInv'
    BY DEF HandleCopyGep, FieldFormInv, FieldGraphInv, GraphInv
  <2>11. phase = "solve" /\ phase' = "solve" /\ pendLoads = {} /\ pendStores = {}
    BY DEF HandleCopyGep, FieldFormInv, FieldPhaseInv, Idle
  <2>12. FieldPhaseInv'
    BY <2>11 DEF HandleCopyGep, FieldFormInv, FieldPhaseInv, PhaseInv
  <2> QED BY <2>9, <2>10, <2>12 DEF FieldFormInv
<1> QED BY <1>1, <1>2

LEMMA StartNodeForm ==
  ASSUME FieldFormInv, NEW n \in Node, StartNode(n)
  PROVE  FieldFormInv'
<1>1. pendingPts' \subseteq Obj
  BY DEF StartNode, collapseNodePts, FieldFormInv, FieldTypeOK, TypeOK, Assignment
<1>2. TypeOK'
  BY DEF StartNode, FieldFormInv, FieldTypeOK, TypeOK
<1>3. waveEdges' \subseteq Edge /\ current' \subseteq Node
  BY DEF StartNode, FieldFormInv, FieldTypeOK
<1>4. FieldTypeOK'
  BY <1>1, <1>2, <1>3 DEF StartNode, fieldGraph, FieldFormInv, FieldTypeOK
<1>5. FieldGraphInv'
  BY DEF StartNode, fieldGraph, FieldFormInv, FieldGraphInv, GraphInv
<1>6. FieldPhaseInv'
  BY DEF StartNode, fieldGraph, FieldFormInv, FieldPhaseInv, PhaseInv, Idle
<1> QED BY <1>4, <1>5, <1>6 DEF FieldFormInv

(* In the middle of a node's collapses.                                    *)
LEMMA CollapsingForm ==
  ASSUME FieldFormInv, ~Idle, NEW m \in Mem, NEW rest \in SUBSET Obj, CollapseField(m, rest),
         UNCHANGED <<prog, phase, worklist, nodeStack, pendLoads, pendStores, pendParams, indCalls>>,
         UNCHANGED <<geps, waveEdges, current>>, toCollapse' \subseteq toCollapse
  PROVE  FieldFormInv'
<1>1. phase = "solve" /\ pendLoads = {} /\ pendStores = {} /\ pendParams = {}
  BY DEF FieldFormInv, FieldPhaseInv, PhaseInv
<1>2. /\ rep' \in [Node -> Node] /\ subs' \in [Node -> SUBSET Node]
      /\ copyEdges' \subseteq Edge /\ loadEdges' \subseteq Edge /\ storeEdges' \subseteq Edge
      /\ loadCache' \in [Edge -> SUBSET Obj] /\ storeCache' \in [Edge -> SUBSET Obj]
      /\ pts' \in Assignment /\ propaPts' \in Assignment
      /\ gepEdges' \subseteq Gep /\ GepsUnique(gepEdges')
      /\ variantEdges' \subseteq Edge /\ pwc' \subseteq Node
      /\ FieldGraphInv'
      /\ reanalyze' \in BOOLEAN
      /\ insensitive' \subseteq Mem \ BlkOrConstant /\ insensitive \subseteq insensitive'
      /\ pendingPts' \subseteq Obj
  BY CollapseForm
<1>3. TypeOK'
  BY <1>1, <1>2 DEF FieldFormInv, FieldTypeOK, TypeOK
<1>4. FieldTypeOK'
  BY <1>2, <1>3 DEF FieldFormInv, FieldTypeOK, GepsUnique
<1>5. FieldPhaseInv'
  BY <1>1 DEF FieldFormInv, FieldPhaseInv, PhaseInv
<1> QED BY <1>2, <1>4, <1>5 DEF FieldFormInv

LEMMA CollapsePointeeForm ==
  ASSUME FieldFormInv, NEW o \in Obj, CollapsePointee(o)
  PROVE  FieldFormInv'
<1>1. CASE o[1] \in insensitive
  <2>1. /\ pendingPts' = pendingPts \ {o}
        /\ UNCHANGED <<vars, fieldGraph>> /\ UNCHANGED <<geps, waveEdges, current, toCollapse>>
    BY <1>1 DEF CollapsePointee
  <2>2. FieldTypeOK'
    BY <2>1 DEF vars, graph, caches, pending, fieldGraph, FieldFormInv, FieldTypeOK, TypeOK
  <2>3. FieldGraphInv'
    BY <2>1 DEF vars, graph, fieldGraph, FieldFormInv, FieldGraphInv, GraphInv
  <2>4. o \in pendingPts
    BY DEF CollapsePointee
  <2>5. FieldPhaseInv'
    BY <2>1, <2>4 DEF vars, graph, pending, fieldGraph, FieldFormInv, FieldPhaseInv, PhaseInv, Idle
  <2> QED BY <2>2, <2>3, <2>5 DEF FieldFormInv
<1>2. CASE o[1] \notin insensitive
  <2>1. /\ CollapseField(o[1], pendingPts \ {o})
        /\ UNCHANGED <<prog, phase, worklist, nodeStack, pendLoads, pendStores, pendParams, indCalls>>
        /\ UNCHANGED <<geps, waveEdges, current>> /\ toCollapse' = toCollapse
    BY <1>2 DEF CollapsePointee
  <2>2. ~Idle /\ o[1] \in Mem /\ pendingPts \ {o} \in SUBSET Obj
    BY FieldAssumption DEF CollapsePointee, Idle, FieldFormInv, FieldTypeOK
  <2> QED BY <2>1, <2>2, CollapsingForm
<1> QED BY <1>1, <1>2

LEMMA CollapseNextForm ==
  ASSUME FieldFormInv, NEW m \in Mem, CollapseNext(m)
  PROVE  FieldFormInv' 
<1>1. /\ CollapseField(m, {})
      /\ UNCHANGED <<prog, phase, worklist, nodeStack, pendLoads, pendStores, pendParams, indCalls>>
      /\ UNCHANGED <<geps, waveEdges, current>> /\ toCollapse' \subseteq toCollapse
      /\ ~Idle
  BY DEF CollapseNext, Idle
<1> QED BY <1>1, CollapsingForm

LEMMA WaveStepIsNext ==
  ASSUME WaveStep
  PROVE  Next
<1>1. CASE \E n \in Node : PopFromWorklist(n)
  BY <1>1 DEF Next
<1>2. CASE \E e \in Edge : HandleLoad(e) \/ HandleStore(e) \/ ConnectParam(e)
  BY <1>2 DEF Next
<1> QED BY <1>1, <1>2 DEF WaveStep, Next

LEMMA WaveStepForm ==
  ASSUME FieldFormInv, WaveStep
  PROVE  FieldFormInv'
<1>1. WellFormedInv'
  BY WaveStepIsNext, NextWellFormed, FieldFormIsForm
<1>2. Idle /\ UNCHANGED fieldVars
  BY DEF WaveStep
<1>3. FieldTypeOK'
  BY <1>1, <1>2 DEF WellFormedInv, FieldFormInv, FieldTypeOK, fieldVars, fieldGraph
<1>4. UNCHANGED rep \/ UNCHANGED <<rep, gepEdges, variantEdges>>
  BY DEF WaveStep, ProcessAllAddr, PopFromWorklist, HandleLoad, HandleStore, ConnectParam,
         UpdateCallGraph, EndRound, graph
<1>5. FieldGraphInv'
  BY <1>1, <1>2, <1>4 DEF WellFormedInv, FieldFormInv, FieldGraphInv, fieldVars, fieldGraph
<1>6. phase' = "addr" => phase = "addr"
  BY DEF WaveStep, ProcessAllAddr, PopFromWorklist, HandleLoad, HandleStore, ConnectParam,
         UpdateCallGraph, EndRound
<1>7. nodeStack' = nodeStack /\ (nodeStack = {} \/ phase = "solve")
  BY DEF WaveStep, ProcessAllAddr, PopFromWorklist, HandleLoad, HandleStore, ConnectParam,
         UpdateCallGraph, EndRound, graph, pending, FieldFormInv, FieldPhaseInv, PhaseInv
<1>8. nodeStack' = {}
  <2>1. nodeStack # {} => phase = "solve" /\ pendLoads = {} /\ pendStores = {}
    BY DEF FieldFormInv, FieldPhaseInv
  <2> QED BY <1>7, <2>1 DEF WaveStep, ProcessAllAddr, PopFromWorklist, HandleLoad, HandleStore,
         ConnectParam, UpdateCallGraph, EndRound
<1>9. FieldPhaseInv'
  BY <1>1, <1>2, <1>6, <1>8 DEF WellFormedInv, FieldFormInv, FieldPhaseInv, fieldVars, fieldGraph, Idle
<1> QED BY <1>3, <1>5, <1>9 DEF FieldFormInv

LEMMA FieldStutterForm ==
  ASSUME FieldFormInv, UNCHANGED allVars
  PROVE  FieldFormInv'
<1>1. WellFormedInv'
  BY NextWellFormed, FieldFormIsForm DEF allVars
<1> QED BY <1>1 DEF allVars, vars, graph, pending, caches, fieldVars, fieldGraph, WellFormedInv,
       FieldFormInv, FieldTypeOK, FieldGraphInv, FieldPhaseInv, Idle

LEMMA FieldNextForm ==
  ASSUME FieldFormInv, [FieldNext]_allVars
  PROVE  FieldFormInv'
<1>1. CASE UNCHANGED allVars
  BY <1>1, FieldStutterForm
<1>2. CASE FieldNext
  BY <1>1, <1>2, FieldSCCForm, StartNodeForm, HandleCopyGepForm, CollapsePointeeForm,
     CollapseNextForm, WaveStepForm DEF FieldNext, FieldTerminated
<1> QED BY <1>1, <1>2

LEMMA FieldForm == FieldSpec => []FieldFormInv
<1>1. FieldFormInv /\ [FieldNext]_allVars => FieldFormInv'
  BY FieldNextForm
<1> QED BY <1>1, FieldInitForm, PTL DEF FieldSpec

(* With fields too, every reachable state has the types declared: of two   *)
(* gep edges that merging brings together only one is kept, and no edge is *)
(* left at a node that was merged, although objects are collapsed in the   *)
(* middle of a wave.                                                       *)
THEOREM FieldTypeCorrect == FieldSpec => []FieldTypeOK
<1>1. FieldFormInv => FieldTypeOK
  BY DEF FieldFormInv
<1> QED BY <1>1, FieldForm, PTL

-----------------------------------------------------------------------------
(***************************************************************************)
(* Once collapsed, an object stays whole.                                  *)
(***************************************************************************)
CollapsedInv ==
  \A m \in insensitive \ toCollapse : hasFields(m) =>
    \A f \in fields(m) : rep[f] = rep[<<m, -1>>] /\ \A n \in Node : f \notin pts[n]

(* Nodes that are one stay one, whatever is merged.                        *)
LEMMA RepsStayEqual ==
  ASSUME NEW g, NEW D, MergePairs(g, D), NEW h, RepsMoved(g, D, h),
         NEW a \in Node, NEW b \in Node, g.rep[a] = g.rep[b]
  PROVE  h.rep[a] = h.rep[b]
<1>1. CASE \E e \in D : e[1] = g.rep[a]
  BY <1>1 DEF RepsMoved
<1>2. CASE \A e \in D : e[1] # g.rep[a]
  BY <1>2 DEF RepsMoved
<1> QED BY <1>1, <1>2

LEMMA FieldNode ==
  ASSUME NEW m \in Mem, hasFields(m), NEW f \in fields(m)
  PROVE  f \in Node /\ f \in Obj /\ f[1] = m /\ f[2] # -1 /\ <<m, -1>> \in Node /\ f # <<m, -1>>
BY WholeIsObj, GraphAssumption DEF fields, isField

LEMMA SCCCollapsed ==
  ASSUME FieldFormInv, CollapsedInv, FieldSCCDetect
  PROVE  CollapsedInv'
<1>1. PICK root \in RootMaps(DirectEdges), merged \in GraphType :
        /\ Becomes(merged) /\ MergePairs(Graph, RootPairs(root))
        /\ RepsMoved(Graph, RootPairs(root), merged)
        /\ \A n \in Node : \A o \in merged.pts[n] : \E m \in Node : o \in pts[m]
  BY FieldSCCStep
<1>2. UNCHANGED <<insensitive, toCollapse>> /\ rep' = merged.rep /\ pts' = merged.pts
  BY <1>1 DEF FieldSCCDetect, Becomes
<1>3. insensitive \subseteq Mem
  BY DEF FieldFormInv, FieldTypeOK
<1>4. ASSUME NEW m \in insensitive \ toCollapse, hasFields(m), NEW f \in fields(m)
      PROVE  rep'[f] = rep'[<<m, -1>>] /\ \A n \in Node : f \notin pts'[n]
  <2>1. rep[f] = rep[<<m, -1>>] /\ \A n \in Node : f \notin pts[n]
    BY <1>4 DEF CollapsedInv
  <2>2. f \in Node /\ <<m, -1>> \in Node
    BY <1>3, <1>4, FieldNode
  <2>3. Graph.rep = rep
    BY DEF Graph
  <2>4. rep'[f] = rep'[<<m, -1>>]
    BY <1>1, <1>2, <2>1, <2>2, <2>3, RepsStayEqual
  <2> QED BY <1>1, <1>2, <2>1, <2>4
<1> QED BY <1>2, <1>4 DEF CollapsedInv

(* A collapse makes the object one node, which nothing points into, and    *)
(* undoes no earlier one.                                                  *)
LEMMA CollapseCollapsed ==
  ASSUME FieldFormInv, CollapsedInv, NEW m \in Mem, NEW rest, CollapseField(m, rest),
         toCollapse \ {m} \subseteq toCollapse'
  PROVE  CollapsedInv'
<1>1. CASE ~hasFields(m)
  <2>1. UNCHANGED <<rep, pts, insensitive>>
    BY <1>1 DEF CollapseField, CollapseNothing
  <2> QED BY <1>1, <2>1 DEF CollapsedInv
<1>2. CASE hasFields(m)
  <2> DEFINE base == rep[<<m, -1>>]
  <2>1. PICK merged \in Merges(Replacing(m), FieldPairs(m)) :
           /\ insensitive' = insensitive \cup {m}
           /\ Becomes(merged)
           /\ RepsMoved(Replacing(m), FieldPairs(m), merged)
           /\ \A n \in Node : \A o \in merged.pts[n] : \E k \in Node : o \in Replaced(m)[k]
    BY <1>2, CollapseStep
  <2>2. rep' = merged.rep /\ pts' = merged.pts /\ Replacing(m).rep = rep
    BY <2>1, ReplacingFields DEF Becomes
  <2>3. MergePairs(Replacing(m), FieldPairs(m))
    BY <1>2, ReplacingGood
  <2>4. \A n \in Node : \A o \in pts'[n] :
          o \notin fields(m) /\ (o = <<m, -1>> \/ \E k \in Node : o \in pts[k])
    <3>1. pts \in Assignment
      BY DEF FieldFormInv, FieldTypeOK, TypeOK
    <3> QED BY <1>2, <2>1, <2>2, <3>1, ReplacedIs
  <2>5. ASSUME NEW f \in fields(m) PROVE rep'[f] = rep'[<<m, -1>>]
    <3>1. f \in Node /\ <<m, -1>> \in Node
      BY <1>2, FieldNode
    <3>2. CASE rep[f] = base
      BY <2>1, <2>2, <2>3, <3>1, <3>2, RepsStayEqual
    <3>3. CASE rep[f] # base
      <4>1. <<rep[f], base>> \in FieldPairs(m)
        BY <3>3 DEF FieldPairs
      <4>2. rep'[f] = base
        BY <2>1, <2>2, <3>1, <4>1 DEF RepsMoved
      <4>3. \A e \in FieldPairs(m) : e[1] # base
        BY DEF FieldPairs
      <4>4. rep'[<<m, -1>>] = base
        BY <2>1, <2>2, <3>1, <4>3 DEF RepsMoved
      <4> QED BY <4>2, <4>4
    <3> QED BY <3>2, <3>3
  <2>6. ASSUME NEW k \in insensitive' \ toCollapse', hasFields(k), NEW f \in fields(k)
        PROVE  rep'[f] = rep'[<<k, -1>>] /\ \A n \in Node : f \notin pts'[n]
    <3>1. CASE k = m
      BY <2>4, <2>5, <2>6, <3>1
    <3>2. CASE k # m
      <4>1. k \in insensitive \ toCollapse
        BY <2>1, <2>6, <3>2
      <4>2. k \in Mem
        BY <4>1 DEF FieldFormInv, FieldTypeOK
      <4>3. f \in Node /\ <<k, -1>> \in Node /\ f[1] = k
        BY <2>6, <4>2, FieldNode
      <4>4. rep[f] = rep[<<k, -1>>] /\ \A n \in Node : f \notin pts[n]
        BY <2>6, <4>1 DEF CollapsedInv
      <4>5. rep'[f] = rep'[<<k, -1>>]
        BY <2>1, <2>2, <2>3, <4>3, <4>4, RepsStayEqual
      <4>6. f # <<m, -1>>
        BY <3>2, <4>3
      <4> QED BY <2>4, <4>4, <4>5, <4>6
    <3> QED BY <3>1, <3>2
  <2> QED BY <2>6 DEF CollapsedInv
<1> QED BY <1>1, <1>2

(* No gep leads into an object that is marked.                             *)
LEMMA HandedIsWhole ==
  ASSUME FieldFormInv, NEW n \in Node, NEW k \in Node, NEW D \in SUBSET Obj,
         NEW f \in Handed(n, k, D), f \notin D, f[1] \in insensitive
  PROVE  ~isField(f)
<1>1. insensitive \cap BlkOrConstant = {}
  BY DEF FieldFormInv, FieldTypeOK
<1>2. PICK o \in D : f = whole(o) \/ \E e \in gepEdges : f = FieldAt(o, e[3])
  BY DEF Handed
<1>3. f[1] = o[1]
  BY <1>2, SMT DEF FieldAt, whole
<1>4. f = whole(o)
  BY <1>1, <1>2, <1>3 DEF FieldAt
<1> QED BY <1>4 DEF whole, isField

LEMMA HandleCopyGepCollapsed ==
  ASSUME FieldFormInv, CollapsedInv, NEW n \in Node, HandleCopyGep(n)
  PROVE  CollapsedInv'
<1>1. CASE rep[n] # n
  BY <1>1 DEF HandleCopyGep, CollapsedInv
<1>2. CASE rep[n] = n
  <2> DEFINE diff == pts[n] \ propaPts[n]
  <2>1. pts' = [k \in Node |-> pts[k] \cup Handed(n, k, diff)] /\ rep' = rep
    BY <1>2 DEF HandleCopyGep
  <2>2. diff \in SUBSET Obj
    BY DEF FieldFormInv, FieldTypeOK, TypeOK, Assignment
  <2>3. insensitive' \ toCollapse' \subseteq insensitive \ toCollapse
    BY <1>2 DEF HandleCopyGep, MarkVariant
  <2>4. ASSUME NEW m \in insensitive \ toCollapse, hasFields(m), NEW f \in fields(m), NEW k \in Node
        PROVE  f \notin pts'[k]
    <3>1. f[1] \in insensitive /\ isField(f)
      BY <2>4 DEF fields
    <3>2. f \notin pts[k] /\ f \notin diff
      BY <2>4 DEF CollapsedInv
    <3>3. f \notin Handed(n, k, diff)
      BY <2>2, <3>1, <3>2, HandedIsWhole
    <3> QED BY <2>1, <3>2, <3>3
  <2> QED BY <2>1, <2>3, <2>4 DEF CollapsedInv
<1> QED BY <1>1, <1>2

(* Points-to sets grow by what something else points to.                   *)
LEMMA WaveStepPts ==
  ASSUME FieldFormInv, WaveStep, phase # "addr"
  PROVE  rep' = rep /\ \A n \in Node : \A o \in pts'[n] : \E m \in Node : o \in pts[m]
<1>1. pts \in Assignment
  BY DEF FieldFormInv, FieldTypeOK, TypeOK
<1>2. ASSUME NEW E, E \subseteq Edge, AddCopyEdges(E)
      PROVE  \A n \in Node : \A o \in pts'[n] : \E m \in Node : o \in pts[m]
  <2>1. \A e \in E : e[1] \in Node
    BY <1>2 DEF Edge
  <2>2. \A n \in Node : \A o \in UNION {pts[e[1]] : e \in {f \in E : f[2] = n}} : \E m \in Node : o \in pts[m]
    BY <2>1
  <2> QED BY <1>2, <2>2 DEF AddCopyEdges
<1>3. ASSUME NEW e \in Edge, HandleLoad(e) \/ HandleStore(e)
      PROVE  rep' = rep /\ \A n \in Node : \A o \in pts'[n] : \E m \in Node : o \in pts[m]
  <2>1. TypeOK /\ GraphInv
    BY FieldFormIsForm
  <2>2. rep' = rep
    BY <1>3 DEF HandleLoad, HandleStore
  <2>3. CASE HandleLoad(e)
    BY <1>2, <2>1, <2>2, <2>3, HandleLoadStep, NewCopies
  <2>4. CASE HandleStore(e)
    BY <1>2, <2>1, <2>2, <2>4, HandleStoreStep, NewCopies
  <2> QED BY <1>3, <2>3, <2>4
<1>4. ASSUME NEW e \in Edge, ConnectParam(e)
      PROVE  rep' = rep /\ \A n \in Node : \A o \in pts'[n] : \E m \in Node : o \in pts[m]
  <2>1. e[1] \in Node /\ e[2] \in Node
    BY DEF Edge
  <2> QED BY <1>1, <1>4, <2>1 DEF ConnectParam, graph, Assignment
<1>5. ASSUME UNCHANGED <<rep, pts>>
      PROVE  rep' = rep /\ \A n \in Node : \A o \in pts'[n] : \E m \in Node : o \in pts[m]
  BY <1>5
<1>6. ASSUME (\E n \in Node : PopFromWorklist(n)) \/ UpdateCallGraph \/ EndRound
      PROVE  UNCHANGED <<rep, pts>>
  BY <1>6 DEF PopFromWorklist, UpdateCallGraph, EndRound, graph
<1>7. ~ProcessAllAddr
  BY DEF ProcessAllAddr
<1> QED BY <1>3, <1>4, <1>5, <1>6, <1>7 DEF WaveStep

LEMMA NextCollapsed ==
  ASSUME FieldFormInv, CollapsedInv, [FieldNext]_allVars
  PROVE  CollapsedInv'
<1>1. ASSUME UNCHANGED <<rep, pts, insensitive, toCollapse>> PROVE CollapsedInv'
  BY <1>1 DEF CollapsedInv
<1>2. CASE WaveStep
  <2>1. insensitive' = insensitive /\ toCollapse' = toCollapse
    BY <1>2 DEF WaveStep, fieldVars, fieldGraph
  <2>2. CASE phase = "addr"
    BY <2>1, <2>2 DEF FieldFormInv, FieldPhaseInv, CollapsedInv
  <2>3. CASE phase # "addr"
    <3>1. rep' = rep /\ \A n \in Node : \A o \in pts'[n] : \E m \in Node : o \in pts[m]
      BY <1>2, <2>3, WaveStepPts
    <3> QED BY <2>1, <3>1 DEF CollapsedInv
  <2> QED BY <2>2, <2>3
<1>3. ASSUME NEW o \in Obj, CollapsePointee(o) PROVE CollapsedInv'
  <2>1. CASE o[1] \in insensitive
    BY <1>1, <1>3, <2>1 DEF CollapsePointee, vars, graph, fieldGraph
  <2>2. CASE o[1] \notin insensitive
    BY <1>3, <2>2, CollapseCollapsed, FieldAssumption DEF CollapsePointee
  <2> QED BY <2>1, <2>2
<1>4. ASSUME NEW m \in Mem, CollapseNext(m) PROVE CollapsedInv'
  BY <1>4, CollapseCollapsed DEF CollapseNext
<1>5. ASSUME NEW n \in Node, StartNode(n) PROVE CollapsedInv'
  BY <1>1, <1>5 DEF StartNode, fieldGraph
<1>6. CASE UNCHANGED allVars
  BY <1>1, <1>6 DEF allVars, vars, graph, fieldVars, fieldGraph
<1> QED BY <1>2, <1>3, <1>4, <1>5, <1>6, SCCCollapsed, HandleCopyGepCollapsed
        DEF FieldNext, FieldTerminated

LEMMA CollapsedImplies == FieldFormInv /\ CollapsedInv => CollapsedAreWhole
<1> SUFFICES ASSUME FieldFormInv, CollapsedInv,
                    NEW o \in Obj, o[1] \in insensitive \ toCollapse, hasFields(o[1]), isField(o)
             PROVE  rep[o] = rep[whole(o)] /\ \A n \in Node : o \notin getPts[n]
  BY DEF CollapsedAreWhole
<1>1. o \in fields(o[1])
  BY DEF fields
<1>2. \A n \in Node : rep[n] \in Node
  BY DEF FieldFormInv, FieldTypeOK, TypeOK
<1> QED BY <1>1, <1>2 DEF CollapsedInv, whole, getPts

(* Whatever is merged, handed on or replaced afterwards, in the same wave  *)
(* or a later one, an object whose collapse is over is one node, and no    *)
(* points-to set names its fields: a store through the whole is found by a *)
(* load of a field (collapseField, Andersen.cpp:325).                      *)
THEOREM Collapsing == FieldSpec => []CollapsedAreWhole
<1>1. FieldInit => CollapsedInv
  BY DEF FieldInit, CollapsedInv
<1>2. FieldFormInv /\ CollapsedInv /\ [FieldNext]_allVars => CollapsedInv'
  BY NextCollapsed
<1> QED BY <1>1, <1>2, FieldForm, CollapsedImplies, PTL DEF FieldSpec

-----------------------------------------------------------------------------
(***************************************************************************)
(* What becomes of the edges and of the sets when the pairs D are merged:  *)
(* every edge of the result stems from one at the same nodes before, and   *)
(* an edge only disappears when its ends are one, and then leaves a trace. *)
(***************************************************************************)
LoopFree(g) == \A e \in g.copy \cup g.variant \cup g.gep : e[1] # e[2]

SetsTraced(g, D, h) ==
  /\ \A a \in Node : g.rep[a] = a =>
       g.pts[a] \subseteq h.pts[h.rep[a]] /\ h.propa[h.rep[a]] \subseteq g.propa[a]
  /\ \A a \in Node : g.pts[a] \subseteq h.pts[a] /\ h.propa[a] \subseteq g.propa[a]
  /\ \A a \in Node : \A o \in h.pts[a] :
       \E b \in Node : (b = a \/ <<b, a>> \in D) /\ o \in g.pts[b]

Joins(E, map, d) == \E e \in E : e[1] = map[d[1]] /\ e[2] = map[d[2]]

EdgesTraced(g, h) ==
  /\ h.copy \subseteq Moved(g.copy, h.rep)
  /\ h.variant \subseteq Moved(g.variant, h.rep)
  /\ h.load = Moved(g.load, h.rep)
  /\ h.store = Moved(g.store, h.rep)
  /\ h.gep \subseteq {<<h.rep[d[1]], h.rep[d[2]], d[3]>> : d \in g.gep}
  /\ \A d \in g.copy : h.rep[d[1]] = h.rep[d[2]] \/ Joins(h.copy, h.rep, d)
  /\ \A d \in g.variant :
       \/ Joins(h.variant, h.rep, d)
       \/ h.rep[d[1]] = h.rep[d[2]] /\ h.rep[d[1]] \in h.pwc
  /\ \A d \in g.gep :
       \/ Joins(h.gep, h.rep, d)
       \/ /\ h.rep[d[1]] = h.rep[d[2]]
          /\ \/ TRUE \in Misread
             \/ h.rep[d[1]] \in h.pwc
             \/ \E x \in g.gep : x[3] = 0 /\ h.rep[x[1]] = h.rep[d[1]] /\ h.rep[x[2]] = h.rep[d[2]]

PwcTraced(g, h) ==
  /\ \A a \in g.pwc : g.rep[a] = a => h.rep[a] \in h.pwc
  /\ \A b \in h.pwc :
       \/ b \in g.pwc
       \/ \E n \in g.pwc : n # b /\ h.rep[n] = b
       \/ \E d \in g.variant \cup g.gep : d[1] # d[2] /\ h.rep[d[1]] = b /\ h.rep[d[2]] = b

Traces(g, D, h) ==
  LoopFree(h) /\ SetsTraced(g, D, h) /\ EdgesTraced(g, h) /\ PwcTraced(g, h)

LEMMA TracesItself ==
  ASSUME NEW g \in GraphType, GoodGraph(g), LoopFree(g)
  PROVE  Traces(g, {}, g)
<1>1. \A e \in g.copy \cup g.load \cup g.store \cup g.variant :
        e[1] \in Node /\ e[2] \in Node /\ e = <<e[1], e[2]>>
  BY GraphFields DEF Edge
<1>2. \A e \in g.gep : e[1] \in Node /\ e[2] \in Node /\ e[3] \in Nat /\ e = <<e[1], e[2], e[3]>>
  BY GraphFields DEF Gep
<1>3. SetsTraced(g, {}, g)
  BY DEF SetsTraced
<1>4. ASSUME NEW E, E \subseteq Edge, AtReps(E, g.rep) PROVE Moved(E, g.rep) = E
  <2>1. \A e \in E : e = <<g.rep[e[1]], g.rep[e[2]]>>
    BY <1>4 DEF AtReps, Edge
  <2> QED BY <2>1 DEF Moved
<1>5. Moved(g.copy, g.rep) = g.copy /\ Moved(g.load, g.rep) = g.load
      /\ Moved(g.store, g.rep) = g.store /\ Moved(g.variant, g.rep) = g.variant
  BY <1>4, GraphFields DEF GoodGraph
<1>6. \A d \in g.copy \cup g.variant \cup g.gep : g.rep[d[1]] = d[1] /\ g.rep[d[2]] = d[2]
  BY DEF GoodGraph, AtReps
<1>7. g.gep \subseteq {<<g.rep[d[1]], g.rep[d[2]], d[3]>> : d \in g.gep}
  BY <1>2, <1>6
<1>8. EdgesTraced(g, g)
  BY <1>5, <1>6, <1>7 DEF EdgesTraced, Joins
<1>9. PwcTraced(g, g)
  BY DEF PwcTraced
<1> QED BY <1>3, <1>8, <1>9 DEF Traces

LEMMA MergeTracesSets ==
  ASSUME NEW g \in GraphType, NEW D, NEW h \in GraphType, NEW n \in Node, NEW r \in Node, n # r,
         NEW misread, NEW k, IsMerge(h, n, r, misread, k),
         \A m \in Node : k.rep[m] = IF h.rep[m] = n THEN r ELSE h.rep[m],
         SetsTraced(g, D, h), \A f \in D : f[2] # n
  PROVE  SetsTraced(g, D \cup {<<n, r>>}, k)
<1>1. h.pts \in [Node -> SUBSET Obj] /\ h.propa \in [Node -> SUBSET Obj] /\ h.rep \in [Node -> Node]
  BY GraphFields DEF Assignment
<1>2. /\ \A a \in Node : k.pts[a] = IF a = r THEN h.pts[r] \cup h.pts[n] ELSE h.pts[a]
      /\ \A a \in Node : k.propa[a] = IF a = r THEN h.propa[r] \cap h.propa[n] ELSE h.propa[a]
  BY <1>1 DEF IsMerge
<1>3. ASSUME NEW a \in Node, g.rep[a] = a
      PROVE  g.pts[a] \subseteq k.pts[k.rep[a]] /\ k.propa[k.rep[a]] \subseteq g.propa[a]
  BY <1>1, <1>2, <1>3 DEF SetsTraced
<1>4. ASSUME NEW a \in Node
      PROVE  g.pts[a] \subseteq k.pts[a] /\ k.propa[a] \subseteq g.propa[a]
  BY <1>1, <1>2 DEF SetsTraced
<1>5. ASSUME NEW a \in Node, NEW o \in k.pts[a]
      PROVE  \E b \in Node : (b = a \/ <<b, a>> \in D \cup {<<n, r>>}) /\ o \in g.pts[b]
  <2>1. CASE o \in h.pts[a]
    BY <2>1 DEF SetsTraced
  <2>2. CASE o \notin h.pts[a]
    <3>1. a = r /\ o \in h.pts[n]
      BY <1>2, <1>5, <2>2
    <3>2. PICK b \in Node : (b = n \/ <<b, n>> \in D) /\ o \in g.pts[b]
      BY <3>1 DEF SetsTraced
    <3>3. b = n
      BY <3>2
    <3> QED BY <3>1, <3>2, <3>3
  <2> QED BY <2>1, <2>2
<1> QED BY <1>3, <1>4, <1>5 DEF SetsTraced

(* One merge renames the ends of the edges.                                *)
LEMMA MovedTwice ==
  ASSUME NEW E, E \subseteq Edge, NEW old \in [Node -> Node], NEW n, NEW r, NEW new,
         \A m \in Node : new[m] = IF old[m] = n THEN r ELSE old[m]
  PROVE  Moved(Moved(E, old), Onto(n, r)) = Moved(E, new)
<1>1. \A m \in Node : Onto(n, r)[old[m]] = new[m]
  BY DEF Onto
<1>2. \A e \in E : e[1] \in Node /\ e[2] \in Node
  BY DEF Edge
<1>3. ASSUME NEW y \in Moved(Moved(E, old), Onto(n, r)) PROVE y \in Moved(E, new)
  <2>1. PICK x \in Moved(E, old) : y = <<Onto(n, r)[x[1]], Onto(n, r)[x[2]]>>
    BY DEF Moved
  <2>2. PICK e \in E : x = <<old[e[1]], old[e[2]]>>
    BY DEF Moved
  <2>3. y = <<new[e[1]], new[e[2]]>>
    BY <1>1, <1>2, <2>1, <2>2
  <2> QED BY <2>3 DEF Moved
<1>4. ASSUME NEW y \in Moved(E, new) PROVE y \in Moved(Moved(E, old), Onto(n, r))
  <2>1. PICK e \in E : y = <<new[e[1]], new[e[2]]>>
    BY DEF Moved
  <2>2. <<old[e[1]], old[e[2]]>> \in Moved(E, old)
    BY DEF Moved
  <2>3. y = <<Onto(n, r)[old[e[1]]], Onto(n, r)[old[e[2]]]>>
    BY <1>1, <1>2, <2>1
  <2> HIDE DEF Moved
  <2>4. \A F : \A x \in F : <<Onto(n, r)[x[1]], Onto(n, r)[x[2]]>> \in Moved(F, Onto(n, r))
    BY DEF Moved
  <2> QED BY <2>2, <2>3, <2>4
<1> QED BY <1>3, <1>4

LEMMA MovedMonotone ==
  ASSUME NEW E, NEW F, E \subseteq F, NEW map
  PROVE  Moved(E, map) \subseteq Moved(F, map)
BY DEF Moved

(* Why an edge between the merged nodes goes away.                         *)
LEMMA LoopLeavesTrace ==
  ASSUME NEW n, NEW r, n # r, NEW e, e[1] # e[2], Onto(n, r)[e[1]] = Onto(n, r)[e[2]],
         e[1] \in Node, e[2] \in Node
  PROVE  Ends(e) = {n, r} /\ Onto(n, r)[e[1]] = r
BY DEF Onto, Ends

LEMMA MergeTracesEdges ==
  ASSUME NEW g \in GraphType, NEW h \in GraphType, NEW n \in Node, NEW r \in Node, n # r,
         NEW misread \in Misread, NEW k, IsMerge(h, n, r, misread, k),
         \A m \in Node : k.rep[m] = IF h.rep[m] = n THEN r ELSE h.rep[m],
         LoopFree(h), EdgesTraced(g, h)
  PROVE  LoopFree(k) /\ EdgesTraced(g, k)
<1> DEFINE mv == Onto(n, r)
<1>1. /\ h.rep \in [Node -> Node]
      /\ g.copy \subseteq Edge /\ g.load \subseteq Edge /\ g.store \subseteq Edge /\ g.variant \subseteq Edge
      /\ g.gep \subseteq Gep
      /\ h.copy \subseteq Edge /\ h.variant \subseteq Edge /\ h.gep \subseteq Gep
  BY GraphFields
<1>2. \A m \in Node : k.rep[m] = mv[h.rep[m]]
  BY <1>1 DEF Onto
<1>3. /\ \A e \in g.copy \cup g.variant \cup g.gep : e[1] \in Node /\ e[2] \in Node
      /\ \A e \in h.copy \cup h.variant \cup h.gep : e[1] \in Node /\ e[2] \in Node
  BY <1>1 DEF Edge, Gep
<1>4. \A E \in SUBSET Edge : Moved(Moved(E, h.rep), mv) = Moved(E, k.rep)
  BY <1>1, MovedTwice
<1>5. k.load = Moved(g.load, k.rep) /\ k.store = Moved(g.store, k.rep)
  BY <1>1, <1>4 DEF IsMerge, EdgesTraced
<1>6. k.copy \subseteq Moved(g.copy, k.rep) /\ k.variant \subseteq Moved(g.variant, k.rep)
  <2>1. Moved(h.copy, mv) \subseteq Moved(Moved(g.copy, h.rep), mv)
        /\ Moved(h.variant, mv) \subseteq Moved(Moved(g.variant, h.rep), mv)
    BY MovedMonotone DEF EdgesTraced
  <2>2. k.copy \subseteq Moved(h.copy, mv) /\ k.variant \subseteq Moved(h.variant, mv)
    BY DEF IsMerge, NoLoops
  <2> QED BY <1>1, <1>4, <2>1, <2>2
<1> DEFINE stay == {e \in h.gep : n \notin Ends(e)}
           went == {<<mv[e[1]], mv[e[2]], e[3]>> : e \in {f \in h.gep : n \in Ends(f) /\ ~Taken(h, n, r, f)}}
<1>7. k.gep = stay \cup NoLoops(went)
  BY DEF IsMerge
<1>8. \A e \in stay : mv[e[1]] = e[1] /\ mv[e[2]] = e[2]
  BY <1>3 DEF Onto, Ends
<1>9. ASSUME NEW e \in h.gep
      PROVE  \E d \in g.gep : <<mv[e[1]], mv[e[2]], e[3]>> = <<k.rep[d[1]], k.rep[d[2]], d[3]>>
  <2>1. PICK d \in g.gep : e = <<h.rep[d[1]], h.rep[d[2]], d[3]>>
    BY DEF EdgesTraced
  <2> QED BY <1>2, <1>3, <2>1
<1>10. k.gep \subseteq {<<k.rep[d[1]], k.rep[d[2]], d[3]>> : d \in g.gep}
  <2>1. ASSUME NEW e \in stay PROVE e \in {<<k.rep[d[1]], k.rep[d[2]], d[3]>> : d \in g.gep}
    <3>1. e = <<mv[e[1]], mv[e[2]], e[3]>>
      BY <1>1, <1>8 DEF Gep
    <3> QED BY <3>1, <1>9
  <2>2. ASSUME NEW e \in NoLoops(went) PROVE e \in {<<k.rep[d[1]], k.rep[d[2]], d[3]>> : d \in g.gep}
    <3>1. PICK f \in h.gep : e = <<mv[f[1]], mv[f[2]], f[3]>>
      BY DEF NoLoops
    <3> QED BY <3>1, <1>9
  <2> QED BY <1>7, <2>1, <2>2
<1>11. ASSUME NEW d \in g.copy PROVE k.rep[d[1]] = k.rep[d[2]] \/ Joins(k.copy, k.rep, d)
  <2>1. CASE h.rep[d[1]] = h.rep[d[2]]
    BY <1>2, <1>3, <2>1
  <2>2. ASSUME NEW e \in h.copy, e[1] = h.rep[d[1]], e[2] = h.rep[d[2]]
        PROVE  k.rep[d[1]] = k.rep[d[2]] \/ Joins(k.copy, k.rep, d)
    <3>1. <<mv[e[1]], mv[e[2]]>> \in Moved(h.copy, mv)
      BY DEF Moved
    <3>2. mv[e[1]] = k.rep[d[1]] /\ mv[e[2]] = k.rep[d[2]]
      BY <1>2, <1>3, <2>2
    <3>3. mv[e[1]] # mv[e[2]] => <<mv[e[1]], mv[e[2]]>> \in k.copy
      BY <3>1 DEF IsMerge, NoLoops
    <3> HIDE DEF mv
    <3> QED BY <3>2, <3>3 DEF Joins
  <2> QED BY <2>1, <2>2 DEF EdgesTraced, Joins
<1>12. \A m \in h.pwc : mv[m] \in k.pwc
  <2>1. h.pwc \subseteq Node
    BY GraphFields
  <2> QED BY <2>1 DEF IsMerge, Pwc, Onto
<1>13. ASSUME NEW d \in g.variant
       PROVE  Joins(k.variant, k.rep, d) \/ (k.rep[d[1]] = k.rep[d[2]] /\ k.rep[d[1]] \in k.pwc)
  <2>1. CASE h.rep[d[1]] = h.rep[d[2]] /\ h.rep[d[1]] \in h.pwc
    BY <1>2, <1>3, <1>12, <2>1
  <2>2. ASSUME NEW e \in h.variant, e[1] = h.rep[d[1]], e[2] = h.rep[d[2]]
        PROVE  Joins(k.variant, k.rep, d) \/ (k.rep[d[1]] = k.rep[d[2]] /\ k.rep[d[1]] \in k.pwc)
    <3>1. <<mv[e[1]], mv[e[2]]>> \in Moved(h.variant, mv)
      BY DEF Moved
    <3>2. mv[e[1]] = k.rep[d[1]] /\ mv[e[2]] = k.rep[d[2]]
      BY <1>2, <1>3, <2>2
    <3>3. mv[e[1]] # mv[e[2]] => <<mv[e[1]], mv[e[2]]>> \in k.variant
      BY <3>1 DEF IsMerge, NoLoops
    <3>4. e[1] # e[2]
      BY DEF LoopFree
    <3>5. mv[e[1]] = mv[e[2]] => Ends(e) = {n, r} /\ mv[e[1]] = r
      BY <1>3, <3>4, LoopLeavesTrace
    <3>6. mv[e[1]] = mv[e[2]] => mv[e[1]] \in k.pwc
      BY <3>5 DEF IsMerge, Pwc
    <3> HIDE DEF mv
    <3> QED BY <3>2, <3>3, <3>6 DEF Joins
  <2> QED BY <2>1, <2>2 DEF EdgesTraced, Joins
<1> DEFINE Left(map, pwcs, d) ==
             /\ map[d[1]] = map[d[2]]
             /\ \/ TRUE \in Misread
                \/ map[d[1]] \in pwcs
                \/ \E x \in g.gep : x[3] = 0 /\ map[x[1]] = map[d[1]] /\ map[x[2]] = map[d[2]]
<1>14. ASSUME NEW d \in g.gep PROVE Joins(k.gep, k.rep, d) \/ Left(k.rep, k.pwc, d)
  <2>1. CASE Left(h.rep, h.pwc, d)
    <3>1. k.rep[d[1]] = k.rep[d[2]]
      BY <1>2, <1>3, <2>1
    <3>2. h.rep[d[1]] \in h.pwc => k.rep[d[1]] \in k.pwc
      BY <1>2, <1>3, <1>12
    <3>3. ASSUME NEW x \in g.gep, x[3] = 0, h.rep[x[1]] = h.rep[d[1]], h.rep[x[2]] = h.rep[d[2]]
          PROVE  k.rep[x[1]] = k.rep[d[1]] /\ k.rep[x[2]] = k.rep[d[2]]
      BY <1>2, <1>3, <3>3
    <3> QED BY <2>1, <3>1, <3>2, <3>3
  <2>2. ASSUME NEW e \in h.gep, e[1] = h.rep[d[1]], e[2] = h.rep[d[2]]
        PROVE  Joins(k.gep, k.rep, d) \/ Left(k.rep, k.pwc, d)
    <3>1. mv[e[1]] = k.rep[d[1]] /\ mv[e[2]] = k.rep[d[2]]
      BY <1>2, <1>3, <2>2
    <3>2. CASE n \notin Ends(e)
      <4>1. e \in k.gep /\ e[1] = k.rep[d[1]] /\ e[2] = k.rep[d[2]]
        BY <1>7, <1>8, <3>1, <3>2
      <4> QED BY <4>1 DEF Joins
    <3>3. CASE Taken(h, n, r, e)
      <4>1. PICK f \in h.gep : n \notin Ends(f) /\ f[1] = mv[e[1]] /\ f[2] = mv[e[2]]
        BY <3>3 DEF Taken
      <4>2. f \in k.gep /\ f[1] = k.rep[d[1]] /\ f[2] = k.rep[d[2]]
        BY <1>7, <3>1, <4>1
      <4> QED BY <4>2 DEF Joins
    <3>4. CASE n \in Ends(e) /\ ~Taken(h, n, r, e)
      <4> DEFINE f == <<mv[e[1]], mv[e[2]], e[3]>>
      <4>1. f \in went /\ f[1] = mv[e[1]] /\ f[2] = mv[e[2]]
        BY <3>4
      <4>2. CASE mv[e[1]] # mv[e[2]]
        <5>1. f \in k.gep
          BY <1>7, <4>1, <4>2 DEF NoLoops
        <5> HIDE DEF f, mv
        <5> QED BY <3>1, <4>1, <5>1 DEF Joins
      <4>3. CASE mv[e[1]] = mv[e[2]]
        <5>1. e[1] # e[2]
          BY DEF LoopFree
        <5>2. Ends(e) = {n, r} /\ mv[e[1]] = r
          BY <1>3, <4>3, <5>1, LoopLeavesTrace
        <5>3. misread = TRUE \/ misread = FALSE
          BY FieldAssumption
        <5>4. CASE e[3] = 0
          <6>1. PICK x \in g.gep : e = <<h.rep[x[1]], h.rep[x[2]], x[3]>>
            BY DEF EdgesTraced
          <6>2. x[3] = 0 /\ k.rep[x[1]] = mv[e[1]] /\ k.rep[x[2]] = mv[e[2]]
            BY <1>2, <1>3, <5>4, <6>1
          <6>3. /\ k.rep[x[1]] = k.rep[d[1]] /\ k.rep[x[2]] = k.rep[d[2]]
                /\ k.rep[d[1]] = k.rep[d[2]]
            BY <3>1, <4>3, <6>2
          <6>4. \E y \in g.gep : y[3] = 0 /\ k.rep[y[1]] = k.rep[d[1]] /\ k.rep[y[2]] = k.rep[d[2]]
            BY <6>2, <6>3
          <6> QED BY <6>3, <6>4
        <5>5. CASE e[3] # 0 /\ misread = FALSE
          <6>1. k.pwc = (h.pwc \ {n}) \cup {r}
            BY <5>2, <5>5 DEF IsMerge, Pwc
          <6> QED BY <3>1, <4>3, <5>2, <6>1
        <5>6. CASE misread = TRUE
          BY <3>1, <4>3, <5>6
        <5> QED BY <5>3, <5>4, <5>5, <5>6
      <4> QED BY <4>2, <4>3
    <3> QED BY <3>2, <3>3, <3>4
  <2> QED BY <2>1, <2>2 DEF EdgesTraced, Joins
<1>15. LoopFree(k)
  <2>1. \A e \in k.copy \cup k.variant : e[1] # e[2]
    BY DEF IsMerge, NoLoops
  <2>2. \A e \in k.gep : e[1] # e[2]
    BY <1>7 DEF NoLoops, LoopFree
  <2> QED BY <2>1, <2>2 DEF LoopFree
<1>16. EdgesTraced(g, k)
  <2> HIDE DEF mv, stay, went
  <2> QED BY <1>5, <1>6, <1>10, <1>11, <1>13, <1>14 DEF EdgesTraced
<1> QED BY <1>15, <1>16

LEMMA MergeTracesPwc ==
  ASSUME NEW g \in GraphType, NEW h \in GraphType, NEW n \in Node, NEW r \in Node, n # r,
         h.rep[n] = n, h.rep[r] = r,
         NEW misread \in Misread, NEW k, IsMerge(h, n, r, misread, k),
         \A m \in Node : k.rep[m] = IF h.rep[m] = n THEN r ELSE h.rep[m],
         EdgesTraced(g, h), PwcTraced(g, h)
  PROVE  PwcTraced(g, k)
<1>1. /\ h.rep \in [Node -> Node] /\ g.pwc \subseteq Node
      /\ \A e \in g.variant \cup g.gep : e[1] \in Node /\ e[2] \in Node
  BY GraphFields DEF Edge, Gep
<1>2. \A a \in g.pwc : g.rep[a] = a => k.rep[a] \in k.pwc
  BY <1>1 DEF PwcTraced, IsMerge, Pwc
<1> DEFINE From(map, b) ==
      \/ b \in g.pwc
      \/ \E a \in g.pwc : a # b /\ map[a] = b
      \/ \E d \in g.variant \cup g.gep : d[1] # d[2] /\ map[d[1]] = b /\ map[d[2]] = b
<1>3. ASSUME NEW b \in h.pwc, b # n PROVE From(k.rep, b)
  BY <1>1, <1>3 DEF PwcTraced
<1>4. ASSUME n \in h.pwc PROVE From(k.rep, r)
  <2>1. CASE n \in g.pwc
    BY <2>1
  <2>2. ASSUME NEW a \in g.pwc, h.rep[a] = n PROVE From(k.rep, r)
    BY <1>1, <2>2
  <2>3. ASSUME NEW d \in g.variant \cup g.gep, d[1] # d[2], h.rep[d[1]] = n, h.rep[d[2]] = n
        PROVE  From(k.rep, r)
    BY <1>1, <2>3
  <2> QED BY <1>4, <2>1, <2>2, <2>3 DEF PwcTraced
<1>5. ASSUME NEW d \in g.variant \cup g.gep, {h.rep[d[1]], h.rep[d[2]]} = {n, r}
      PROVE  From(k.rep, r)
  <2>1. h.rep[d[1]] # h.rep[d[2]] /\ d[1] # d[2]
    BY <1>5
  <2>2. k.rep[d[1]] = r /\ k.rep[d[2]] = r
    BY <1>1, <1>5
  <2> QED BY <2>1, <2>2
<1>6. ASSUME NEW e \in h.variant \cup h.gep, Ends(e) = {n, r} PROVE From(k.rep, r)
  <2>1. PICK d \in g.variant \cup g.gep : e[1] = h.rep[d[1]] /\ e[2] = h.rep[d[2]]
    <3>1. CASE e \in h.variant
      BY <3>1 DEF EdgesTraced, Moved
    <3>2. CASE e \in h.gep
      BY <3>2 DEF EdgesTraced
    <3> QED BY <3>1, <3>2
  <2> HIDE DEF From
  <2> QED BY <1>5, <1>6, <2>1 DEF Ends
<1>7. ASSUME NEW b \in k.pwc PROVE From(k.rep, b)
  <2> HIDE DEF From
  <2> QED BY <1>3, <1>4, <1>6, <1>7 DEF IsMerge, Pwc
<1> QED BY <1>2, <1>7 DEF PwcTraced

(* All the pairs merged.                                                   *)
LEMMA MergesTrace ==
  ASSUME NEW g \in GraphType, GoodGraph(g), LoopFree(g), NEW pairs, MergePairs(g, pairs),
         NEW merged \in Merges(g, pairs)
  PROVE  Traces(g, pairs, merged)
<1> DEFINE I == {x \in (SUBSET pairs) \X GraphType :
                   GoodGraph(x[2]) /\ RepsMoved(g, x[1], x[2]) /\ Traces(g, x[1], x[2])}
<1>1. <<{}, g>> \in I
  BY TracesItself DEF RepsMoved
<1>2. ASSUME NEW D \in SUBSET pairs, NEW e \in pairs \ D, NEW h \in GraphType, NEW misread \in Misread,
             <<D, h>> \in I
      PROVE  <<D \cup {e}, MergeNodeToRep(h, e[1], e[2], misread)>> \in I
  <2>1. PICK k : k = MergeNodeToRep(h, e[1], e[2], misread)
    OBVIOUS
  <2>2. IsMerge(h, e[1], e[2], misread, k)
    BY <2>1, MergeFields
  <2>3. GoodGraph(h) /\ RepsMoved(g, D, h) /\ Traces(g, D, h)
    BY <1>2
  <2>4. /\ h.rep[e[1]] = e[1] /\ h.rep[e[2]] = e[2] /\ e[1] # e[2]
        /\ e[1] \in Node /\ e[2] \in Node
        /\ \A m \in Node : k.rep[m] = IF h.rep[m] = e[1] THEN e[2] ELSE h.rep[m]
        /\ GoodGraph(k)
        /\ RepsMoved(g, D \cup {e}, k)
    BY <2>2, <2>3, RepsMovedFurther DEF GoodGraph
  <2>5. k \in GraphType
    BY <2>1, <2>4, MergeType
  <2>6. e = <<e[1], e[2]>> /\ \A f \in D : f[2] # e[1]
    BY DEF MergePairs, Edge
  <2>7. SetsTraced(g, D \cup {e}, k)
    BY <2>2, <2>3, <2>4, <2>6, MergeTracesSets DEF Traces
  <2>8. LoopFree(k) /\ EdgesTraced(g, k)
    BY <2>2, <2>3, <2>4, MergeTracesEdges DEF Traces
  <2>9. PwcTraced(g, k)
    BY <2>2, <2>3, <2>4, MergeTracesPwc DEF Traces
  <2>10. <<D \cup {e}, k>> \in I
    BY <2>4, <2>5, <2>7, <2>8, <2>9 DEF Traces
  <2> QED BY <2>1, <2>10
<1>3. pairs \subseteq Edge
  BY DEF MergePairs
<1>4. KeptByMerges(I, pairs)
  <2> HIDE DEF I
  <2> QED BY <1>2 DEF KeptByMerges
<1>5. <<pairs, merged>> \in I
  <2> HIDE DEF I
  <2> QED BY <1>1, <1>3, <1>4, MergesInduct
<1> QED BY <1>5

-----------------------------------------------------------------------------
(***************************************************************************)
(* Closure with fields.  What a node has passed on is at the other ends of *)
(* its edges, or the whole for a field that is about to be collapsed; in a *)
(* wave that asks for no other, so is all a node points to once the wave   *)
(* has passed it, although objects are collapsed meanwhile.                *)
(***************************************************************************)
Gone(o) == o[1] \in insensitive \ toCollapse /\ hasFields(o[1]) /\ isField(o)

(* S has x, or what will be one with it once the marked are collapsed.     *)
Reaches(marked, S, x) ==
  \E y \in S : y = x \/ (y[1] = x[1] /\ (~hasFields(x[1]) \/ x[1] \in marked))

(* FieldAt, with the objects that are field-insensitive named.             *)
ShiftIn(marked, o, k) ==
  IF o[1] \in BlkOrConstant THEN o
  ELSE IF o[1] \in marked THEN whole(o)
  ELSE <<o[1], (IF isField(o) THEN o[2] + k ELSE k) % Limit[o[1]]>>

LEMMA FieldAtIsShift ==
  ASSUME NEW o, NEW k
  PROVE  FieldAt(o, k) = ShiftIn(insensitive, o, k)
BY DEF FieldAt, ShiftIn

AtTargets(a, o) ==
  /\ \A e \in copyEdges \ pendParams : e[1] = a => o \in pts[e[2]]
  /\ \A e \in gepEdges : e[1] = a => Reaches(toCollapse, pts[e[2]], ShiftIn(insensitive, o, e[3]))
  /\ \A e \in variantEdges : e[1] = a => Reaches(toCollapse, pts[e[2]], whole(o))

ArrivedInv ==
  \A a \in Node : \A o \in propaPts[a] : ~Gone(o) => o \in pts[a] /\ AtTargets(a, o)

LoopFreeInv == \A e \in copyEdges \cup variantEdges \cup gepEdges : e[1] # e[2]

(* The program's gep edges are in the graph, or one with another offset    *)
(* is, or they are in a cycle the objects of which are collapsed.          *)
GepKept ==
  \A e \in geps.normal :
    \/ Joins(gepEdges, rep, e)
    \/ /\ rep[e[1]] = rep[e[2]]
       /\ e[3] = 0 \/ TRUE \in Misread \/ rep[e[1]] \in pwc \/ ~Sole(e)

GepFrom == \A d \in gepEdges : \E e \in geps.normal : d = <<rep[e[1]], rep[e[2]], e[3]>>

VariantKept ==
  \A e \in geps.variant :
    Joins(variantEdges, rep, e) \/ (rep[e[1]] = rep[e[2]] /\ rep[e[1]] \in pwc)

FieldKept == ConstraintsKept /\ GepKept /\ GepFrom /\ VariantKept

(* A field that nothing ever pointed to has not been used.                 *)
Untouched(f) ==
  /\ rep[f] = f /\ subs[f] = {f} /\ pts[f] = {} /\ f \notin pwc
  /\ \A e \in copyEdges \cup loadEdges \cup storeEdges \cup variantEdges \cup gepEdges :
       e[1] # f /\ e[2] # f

FieldsUsed ==
  \A f \in Obj : isField(f) /\ hasFields(f[1]) /\ ~Gone(f) =>
    (\E n \in Node : f \in pts[n]) \/ Untouched(f)

(* An edge at representatives has been there since its cache was filled.   *)
FieldCaches ==
  \A e \in Edge : rep[e[1]] = e[1] /\ rep[e[2]] = e[2] =>
    /\ \A o \in loadCache[e] \ Opaque : Connects(copyEdges, rep[o], e[2])
    /\ \A o \in storeCache[e] \ Opaque : Connects(copyEdges, e[1], rep[o])

FieldLoads ==
  \A e \in loadEdges : Unmerged(e[1]) /\ e[1] \notin worklist /\ e \notin pendLoads =>
    \A o \in pts[e[1]] \ Opaque : ~Mixed(o) => Connects(copyEdges, rep[o], e[2])

FieldStores ==
  \A e \in storeEdges : Unmerged(e[2]) /\ e[2] \notin worklist /\ e \notin pendStores =>
    \A o \in pts[e[2]] \ Opaque : ~Mixed(o) => Connects(copyEdges, e[1], rep[o])

(* The nodes the wave has still to pass.                                   *)
Ahead == nodeStack \cup current

Collapsing1(o) == o[1] \in insensitive \/ ~hasFields(o[1])

WavePassed ==
  /\ \A n \in Node : rep[n] = n /\ n \notin Ahead => \A o \in pts[n] : AtTargets(n, o)
  /\ \A n \in pwc : rep[n] = n /\ n \notin Ahead => \A o \in pts[n] : Collapsing1(o)
  /\ \A n \in pwc : rep[n] = n /\ n \in current => \A o \in pts[n] \ pendingPts : Collapsing1(o)

WaveOrder ==
  /\ \A e \in DirectEdges : e[2] \notin Ahead => e[1] \notin Ahead
  /\ \A e \in DirectEdges : e[2] \in current => e[1] \notin nodeStack
  /\ nodeStack # {} => DirectEdges \subseteq waveEdges

FieldWaveInv ==
  /\ phase \in {"solve", "params", "done"} /\ ~reanalyze =>
       /\ WavePassed /\ WaveOrder
       /\ pendParams = {}
       /\ phase # "solve" => worklist = {}
  /\ phase = "done" => ~reanalyze

-----------------------------------------------------------------------------
(***************************************************************************)
(* A step that merges the pairs D, from points-to sets P.                  *)
(***************************************************************************)
RepsTraced(D) ==
  /\ \A a \in Node : rep'[a] = a => rep[a] = a
  /\ \A a \in Node : rep'[a] = rep'[rep[a]] /\ rep'[a] \in Node /\ rep'[rep'[a]] = rep'[a]
  /\ \A a \in Node : (\A e \in D : e[1] # rep[a]) => rep'[a] = rep[a]
  /\ \A e \in D : e[1] \in Node /\ e[2] \in Node /\ rep[e[1]] = e[1] /\ rep'[e[1]] = e[2] /\ e[1] # e[2]

SetsMerged(P, D) ==
  /\ \A a \in Node : rep[a] = a =>
       P[a] \subseteq pts'[rep'[a]] /\ propaPts'[rep'[a]] \subseteq propaPts[a]
  /\ \A a \in Node : P[a] \subseteq pts'[a] /\ propaPts'[a] \subseteq propaPts[a]
  /\ \A a \in Node : \A o \in pts'[a] : \E b \in Node : (b = a \/ <<b, a>> \in D) /\ o \in P[b]

EdgesMerged ==
  /\ LoopFreeInv'
  /\ \A e \in copyEdges' : \E d \in copyEdges : e = <<rep'[d[1]], rep'[d[2]]>>
  /\ \A e \in variantEdges' : \E d \in variantEdges : e = <<rep'[d[1]], rep'[d[2]]>>
  /\ \A e \in gepEdges' : \E d \in gepEdges : e = <<rep'[d[1]], rep'[d[2]], d[3]>>
  /\ loadEdges' = Moved(loadEdges, rep')
  /\ storeEdges' = Moved(storeEdges, rep')
  /\ \A d \in copyEdges : rep'[d[1]] = rep'[d[2]] \/ Joins(copyEdges', rep', d)
  /\ \A d \in variantEdges :
       \/ Joins(variantEdges', rep', d)
       \/ rep'[d[1]] = rep'[d[2]] /\ rep'[d[1]] \in pwc'
  /\ \A d \in gepEdges :
       \/ Joins(gepEdges', rep', d)
       \/ /\ rep'[d[1]] = rep'[d[2]]
          /\ \/ TRUE \in Misread
             \/ rep'[d[1]] \in pwc'
             \/ \E x \in gepEdges : x[3] = 0 /\ rep'[x[1]] = rep'[d[1]] /\ rep'[x[2]] = rep'[d[2]]
  /\ \A a \in pwc : rep[a] = a => rep'[a] \in pwc'
  /\ \A b \in pwc' :
       \/ b \in pwc
       \/ \E n \in pwc : n # b /\ rep'[n] = b
       \/ \E d \in variantEdges \cup gepEdges : d[1] # d[2] /\ rep'[d[1]] = b /\ rep'[d[2]] = b

CachesMerged ==
  \A e \in Edge :
    /\ loadCache'[e] = IF rep'[e[1]] = rep[e[1]] /\ rep'[e[2]] = rep[e[2]] THEN loadCache[e] ELSE {}
    /\ storeCache'[e] = IF rep'[e[1]] = rep[e[1]] /\ rep'[e[2]] = rep[e[2]] THEN storeCache[e] ELSE {}

MergesTo(P, D) ==
  RepsTraced(D) /\ SetsMerged(P, D) /\ EdgesMerged /\ CachesMerged

LEMMA RepsTracedWhenMoved ==
  ASSUME NEW g \in GraphType, GoodGraph(g), NEW D, MergePairs(g, D), NEW h \in GraphType,
         GoodGraph(h), RepsMoved(g, D, h), rep = g.rep, rep' = h.rep
  PROVE  RepsTraced(D)
<1>1. \A a \in Node : rep[a] \in Node /\ rep[rep[a]] = rep[a]
  BY GraphFields DEF GoodGraph, RepAgree
<1>2. \A e \in D : /\ e[1] \in Node /\ e[2] \in Node /\ rep[e[1]] = e[1] /\ rep[e[2]] = e[2]
                   /\ e[1] # e[2]
  BY DEF MergePairs, Edge
<1>3. \A a \in Node : /\ \A e \in D : e[1] = rep[a] => rep'[a] = e[2]
                      /\ (\A e \in D : e[1] # rep[a]) => rep'[a] = rep[a]
  BY DEF RepsMoved
<1>4. \A a \in Node : rep'[a] = a => rep[a] = a
  BY <1>1, <1>2, <1>3
<1>5. \A a \in Node : rep'[a] = rep'[rep[a]]
  BY <1>1, <1>3
<1>6. \A a \in Node : rep'[a] \in Node /\ rep'[rep'[a]] = rep'[a]
  BY GraphFields DEF GoodGraph, RepAgree
<1> QED BY <1>2, <1>3, <1>4, <1>5, <1>6 DEF RepsTraced

LEMMA MergeStepTraced ==
  ASSUME FieldFormInv, NEW g \in GraphType, GoodGraph(g), NEW P,
         g.rep = rep, g.copy = copyEdges, g.load = loadEdges, g.store = storeEdges,
         g.pts = P, g.propa = propaPts, g.gep = gepEdges, g.variant = variantEdges, g.pwc = pwc,
         LoopFreeInv, NEW D, MergePairs(g, D), NEW h \in Merges(g, D), Becomes(h)
  PROVE  MergesTo(P, D)
<1>1. h \in GraphType /\ GoodGraph(h) /\ RepsMoved(g, D, h)
  BY MergesGood
<1>2. Traces(g, D, h)
  BY MergesTrace DEF LoopFree, LoopFreeInv
<1>3. /\ rep' = h.rep /\ copyEdges' = h.copy /\ loadEdges' = h.load /\ storeEdges' = h.store
      /\ pts' = h.pts /\ propaPts' = h.propa /\ gepEdges' = h.gep /\ variantEdges' = h.variant
      /\ pwc' = h.pwc
  BY DEF Becomes
<1>4. RepsTraced(D)
  BY <1>1, <1>3, RepsTracedWhenMoved
<1>5. SetsMerged(P, D)
  BY <1>2, <1>3 DEF Traces, SetsTraced, SetsMerged
<1>6. EdgesMerged
  <2>1. LoopFreeInv'
    BY <1>2, <1>3 DEF Traces, LoopFree, LoopFreeInv
  <2>2. /\ \A e \in copyEdges' : \E d \in copyEdges : e = <<rep'[d[1]], rep'[d[2]]>>
        /\ \A e \in variantEdges' : \E d \in variantEdges : e = <<rep'[d[1]], rep'[d[2]]>>
        /\ \A e \in gepEdges' : \E d \in gepEdges : e = <<rep'[d[1]], rep'[d[2]], d[3]>>
    BY <1>2, <1>3 DEF Traces, EdgesTraced, Moved
  <2>3. /\ loadEdges' = Moved(loadEdges, rep')
        /\ storeEdges' = Moved(storeEdges, rep')
        /\ \A d \in copyEdges : rep'[d[1]] = rep'[d[2]] \/ Joins(copyEdges', rep', d)
        /\ \A d \in variantEdges :
             \/ Joins(variantEdges', rep', d)
             \/ rep'[d[1]] = rep'[d[2]] /\ rep'[d[1]] \in pwc'
        /\ \A d \in gepEdges :
             \/ Joins(gepEdges', rep', d)
             \/ /\ rep'[d[1]] = rep'[d[2]]
                /\ \/ TRUE \in Misread
                   \/ rep'[d[1]] \in pwc'
                   \/ \E x \in gepEdges : x[3] = 0 /\ rep'[x[1]] = rep'[d[1]] /\ rep'[x[2]] = rep'[d[2]]
    BY <1>2, <1>3 DEF Traces, EdgesTraced
  <2>4. PwcTraced(g, h)
    BY <1>2 DEF Traces
  <2>5. \A a \in pwc : rep[a] = a => rep'[a] \in pwc'
    BY <1>3, <2>4 DEF PwcTraced
  <2>6. \A b \in pwc' :
          \/ b \in pwc
          \/ \E n \in pwc : n # b /\ rep'[n] = b
          \/ \E d \in variantEdges \cup gepEdges : d[1] # d[2] /\ rep'[d[1]] = b /\ rep'[d[2]] = b
    BY <1>3, <2>4 DEF PwcTraced
  <2> QED BY <2>1, <2>2, <2>3, <2>5, <2>6 DEF EdgesMerged
<1>7. CachesMerged
  BY <1>3 DEF Becomes, Emptied, CachesMerged
<1> QED BY <1>4, <1>5, <1>6, <1>7 DEF MergesTo

LEMMA SCCMerges ==
  ASSUME FieldFormInv, LoopFreeInv, FieldSCCDetect
  PROVE  \E root \in RootMaps(DirectEdges) :
           /\ MergesTo(pts, RootPairs(root))
           /\ nodeStack' = {n \in Node : rep[n] = n /\ root[n] = n}
           /\ waveEdges' = DirectEdges'
<1>0. PICK root \in RootMaps(DirectEdges) : \E merged \in Merges(Graph, RootPairs(root)) :
           /\ Becomes(merged)
           /\ nodeStack' = {n \in Node : rep[n] = n /\ root[n] = n}
           /\ waveEdges' = merged.copy \cup Pairs(merged.gep) \cup merged.variant
           /\ MergePairs(Graph, RootPairs(root))
  BY FieldSCCStep
<1>1. PICK merged \in Merges(Graph, RootPairs(root)) :
           /\ Becomes(merged)
           /\ nodeStack' = {n \in Node : rep[n] = n /\ root[n] = n}
           /\ waveEdges' = merged.copy \cup Pairs(merged.gep) \cup merged.variant
           /\ MergePairs(Graph, RootPairs(root))
  BY <1>0
<1>2. MergesTo(pts, RootPairs(root))
  <2>1. /\ Graph.rep = rep /\ Graph.copy = copyEdges /\ Graph.load = loadEdges
        /\ Graph.store = storeEdges /\ Graph.pts = pts /\ Graph.propa = propaPts
        /\ Graph.gep = gepEdges /\ Graph.variant = variantEdges /\ Graph.pwc = pwc
    BY DEF Graph
  <2> QED BY <1>1, <2>1, FieldFormIsForm, MergeStepTraced
<1>3. waveEdges' = DirectEdges'
  BY <1>1 DEF DirectEdges, Becomes
<1> QED BY <1>1, <1>2, <1>3

LEMMA CollapseMerges ==
  ASSUME FieldFormInv, LoopFreeInv, NEW m \in Mem, hasFields(m), NEW rest, CollapseField(m, rest)
  PROVE  /\ MergesTo(Replaced(m), FieldPairs(m))
         /\ insensitive' = insensitive \cup {m}
         /\ reanalyze' = (reanalyze \/ Replaced(m) # pts)
         /\ rest \subseteq pendingPts'
<1>1. PICK merged \in Merges(Replacing(m), FieldPairs(m)) :
           /\ insensitive' = insensitive \cup {m}
           /\ reanalyze' = (reanalyze \/ Replaced(m) # pts)
           /\ Becomes(merged)
           /\ pendingPts' = rest \cup
                IF rep[<<m, -1>>] \in merged.pwc
                THEN collapseNodePts(merged.pts[rep[<<m, -1>>]], insensitive \cup {m}) ELSE {}
  BY CollapseStep
<1>2. MergesTo(Replaced(m), FieldPairs(m))
  BY <1>1, ReplacingGood, ReplacingFields, MergeStepTraced
<1> QED BY <1>1, <1>2

-----------------------------------------------------------------------------
(* Pairs are what they say.                                                *)
LEMMA ObjIsPair ==
  ASSUME NEW o \in Obj
  PROVE  o[1] \in Mem /\ o[2] \in Int /\ o = <<o[1], o[2]>> /\ (~isField(o) => o = whole(o))
BY FieldAssumption DEF isField, whole

LEMMA ShiftKeepsObject ==
  ASSUME NEW marked, NEW o \in Obj, NEW k
  PROVE  ShiftIn(marked, o, k)[1] = o[1] /\ whole(o)[1] = o[1]
BY DEF ShiftIn, whole

(* When m is collapsed, what had arrived of it becomes the whole, at both  *)
(* ends.                                                                   *)
LEMMA CollapseKeepsReach ==
  ASSUME NEW m, hasFields(m), NEW ins, NEW marked, NEW later, marked \ {m} \subseteq later,
         NEW S \in SUBSET Obj, NEW T,
         \A y \in S : y \notin fields(m) => y \in T,
         \A y \in S : y \in fields(m) => <<m, -1>> \in T,
         NEW o \in Obj, NEW k
  PROVE  /\ Reaches(marked, S, ShiftIn(ins, o, k)) => Reaches(later, T, ShiftIn(ins \cup {m}, o, k))
         /\ Reaches(marked, S, whole(o)) => Reaches(later, T, whole(o))
<1>1. ASSUME NEW y \in S, y[1] = m PROVE <<m, -1>> \in T
  <2>1. CASE y \in fields(m)
    BY <2>1
  <2>2. CASE y \notin fields(m)
    <3>1. y \in T /\ ~isField(y)
      BY <1>1, <2>2 DEF fields
    <3>2. y = <<m, -1>>
      BY <1>1, <3>1, ObjIsPair DEF whole
    <3> QED BY <3>1, <3>2
  <2> QED BY <2>1, <2>2
<1>2. m \notin BlkOrConstant
  BY DEF hasFields
<1>3. CASE o[1] = m
  <2>1. ShiftIn(ins \cup {m}, o, k) = <<m, -1>> /\ whole(o) = <<m, -1>>
    BY <1>2, <1>3 DEF ShiftIn, whole
  <2>2. \A x : x[1] = m /\ Reaches(marked, S, x) => \E y \in S : y[1] = m
    BY DEF Reaches
  <2>3. Reaches(marked, S, ShiftIn(ins, o, k)) => <<m, -1>> \in T
    BY <1>1, <1>3, <2>2, ShiftKeepsObject
  <2>4. Reaches(marked, S, whole(o)) => <<m, -1>> \in T
    BY <1>1, <1>3, <2>2, ShiftKeepsObject
  <2> QED BY <2>1, <2>3, <2>4 DEF Reaches
<1>4. CASE o[1] # m
  <2>1. ShiftIn(ins \cup {m}, o, k) = ShiftIn(ins, o, k)
    BY <1>4 DEF ShiftIn
  <2>2. ASSUME NEW x, x[1] = o[1], Reaches(marked, S, x) PROVE Reaches(later, T, x)
    <3>1. PICK y \in S : y = x \/ (y[1] = x[1] /\ (~hasFields(x[1]) \/ x[1] \in marked))
      BY <2>2 DEF Reaches
    <3>2. y \in T
      BY <1>4, <2>2, <3>1 DEF fields
    <3>3. x[1] \in marked => x[1] \in later
      BY <1>4, <2>2
    <3> QED BY <3>1, <3>2, <3>3 DEF Reaches
  <2> QED BY <2>1, <2>2, ShiftKeepsObject
<1> QED BY <1>3, <1>4

(* When objects are marked, the fields that had arrived are to be wholes.  *)
LEMMA MarkKeepsReach ==
  ASSUME NEW ins, NEW marked, NEW new, NEW S, NEW T, S \subseteq T, NEW o \in Obj, NEW k
  PROVE  /\ Reaches(marked, S, ShiftIn(ins, o, k)) =>
              Reaches(marked \cup new, T, ShiftIn(ins \cup new, o, k))
         /\ Reaches(marked, S, whole(o)) => Reaches(marked \cup new, T, whole(o))
<1>1. CASE o[1] \in new
  <2>1. ASSUME NEW x, NEW z, x[1] = o[1], z[1] = o[1], Reaches(marked, S, x)
        PROVE  Reaches(marked \cup new, T, z)
    BY <1>1, <2>1 DEF Reaches
  <2>2. ShiftIn(ins, o, k)[1] = o[1] /\ ShiftIn(ins \cup new, o, k)[1] = o[1] /\ whole(o)[1] = o[1]
    BY ShiftKeepsObject
  <2>3. Reaches(marked, S, ShiftIn(ins, o, k)) => Reaches(marked \cup new, T, ShiftIn(ins \cup new, o, k))
    BY <2>1, <2>2
  <2>4. Reaches(marked, S, whole(o)) => Reaches(marked \cup new, T, whole(o))
    BY <2>1, <2>2
  <2> QED BY <2>3, <2>4
<1>2. CASE o[1] \notin new
  <2>1. ShiftIn(ins \cup new, o, k) = ShiftIn(ins, o, k)
    BY <1>2 DEF ShiftIn
  <2>2. ASSUME NEW x, Reaches(marked, S, x) PROVE Reaches(marked \cup new, T, x)
    BY <2>2 DEF Reaches
  <2> QED BY <2>1, <2>2
<1> QED BY <1>1, <1>2

-----------------------------------------------------------------------------
(* What a merge keeps.  The objects may be replaced at the same time: what *)
(* must stay there, and what must still have arrived, is said by P.        *)
ReplacedFor(P) ==
  /\ P \in Assignment
  /\ \A a \in Node : \A o \in pts[a] : ~Gone(o)' => o \in P[a]
  /\ \A o \in Obj : Gone(o) => Gone(o)'
  /\ \A a \in Node : pts[a] = {} => P[a] = {}
  /\ \A a \in Node : \A o \in Obj : \A k \in Nat : \A T \in SUBSET Obj : P[a] \subseteq T =>
       /\ Reaches(toCollapse, pts[a], ShiftIn(insensitive, o, k)) =>
            Reaches(toCollapse', T, ShiftIn(insensitive', o, k))
       /\ Reaches(toCollapse, pts[a], whole(o)) => Reaches(toCollapse', T, whole(o))

LEMMA ReplacedForNothing ==
  ASSUME FieldFormInv, UNCHANGED <<insensitive, toCollapse>>
  PROVE  ReplacedFor(pts)
<1>1. pts \in Assignment
  BY DEF FieldFormInv, FieldTypeOK, TypeOK
<1>2. ASSUME NEW S, NEW T, S \subseteq T, NEW x, Reaches(toCollapse, S, x)
      PROVE  Reaches(toCollapse', T, x)
  BY <1>2 DEF Reaches
<1> QED BY <1>1, <1>2 DEF ReplacedFor, Gone

LEMMA ReplacedForCollapse ==
  ASSUME FieldFormInv, NEW m \in Mem, hasFields(m), insensitive' = insensitive \cup {m},
         toCollapse \ {m} \subseteq toCollapse', toCollapse' \subseteq toCollapse, m \notin toCollapse'
  PROVE  ReplacedFor(Replaced(m))
<1>1. pts \in Assignment
  BY DEF FieldFormInv, FieldTypeOK, TypeOK
<1>2. /\ Replaced(m) \in Assignment
      /\ \A n \in Node : \A o \in pts[n] : o \notin fields(m) => o \in Replaced(m)[n]
      /\ \A n \in Node : \A o \in pts[n] : o \in fields(m) => <<m, -1>> \in Replaced(m)[n]
  BY <1>1, ReplacedIs
<1>3. ASSUME NEW o, o \in fields(m) PROVE Gone(o)'
  BY <1>3 DEF fields, Gone
<1>4. \A o \in Obj : Gone(o) => Gone(o)'
  BY DEF Gone
<1>5. ASSUME NEW a \in Node, NEW o \in Obj, NEW k \in Nat, NEW T \in SUBSET Obj, Replaced(m)[a] \subseteq T
      PROVE  /\ Reaches(toCollapse, pts[a], ShiftIn(insensitive, o, k)) =>
                  Reaches(toCollapse', T, ShiftIn(insensitive', o, k))
             /\ Reaches(toCollapse, pts[a], whole(o)) => Reaches(toCollapse', T, whole(o))
  <2>1. pts[a] \in SUBSET Obj
    BY <1>1 DEF Assignment
  <2>2. /\ \A y \in pts[a] : y \notin fields(m) => y \in T
        /\ \A y \in pts[a] : y \in fields(m) => <<m, -1>> \in T
    BY <1>2, <1>5
  <2> QED BY <2>1, <2>2, CollapseKeepsReach
<1>6. \A a \in Node : \A o \in pts[a] : ~Gone(o)' => o \in Replaced(m)[a]
  BY <1>2, <1>3
<1>7. \A a \in Node : pts[a] = {} => Replaced(m)[a] = {}
  BY DEF Replaced
<1> QED BY <1>2, <1>4, <1>5, <1>6, <1>7 DEF ReplacedFor

(* An edge out of a after the merge stems from one out of a representative *)
(* that is now a; what that node had passed on is there.                   *)
LEMMA MergeArrived ==
  ASSUME FieldFormInv, FieldFormInv', ArrivedInv, NEW P, NEW D, MergesTo(P, D), ReplacedFor(P),
         pendParams = {}
  PROVE  ArrivedInv'
<1>1. /\ pts \in Assignment /\ propaPts \in Assignment /\ pts' \in Assignment /\ propaPts' \in Assignment
      /\ copyEdges \subseteq Edge /\ variantEdges \subseteq Edge /\ gepEdges \subseteq Gep
  BY DEF FieldFormInv, FieldTypeOK, TypeOK
<1>2. \A e \in copyEdges \cup variantEdges \cup gepEdges :
        /\ e[1] \in Node /\ e[2] \in Node /\ rep[e[1]] = e[1] /\ rep[e[2]] = e[2]
  BY <1>1 DEF Edge, Gep, FieldFormInv, FieldGraphInv, GraphInv, AtReps
<1> SUFFICES ASSUME NEW a \in Node, NEW o \in propaPts'[a], ~Gone(o)'
             PROVE  o \in pts'[a] /\ AtTargets(a, o)'
  BY DEF ArrivedInv
<1>3. o \in Obj /\ ~Gone(o)
  BY <1>1 DEF ReplacedFor, Assignment
<1>4. o \in pts'[a]
  BY <1>3 DEF MergesTo, SetsMerged, ArrivedInv, ReplacedFor
<1>5. ASSUME NEW d \in copyEdges \cup variantEdges \cup gepEdges, rep'[d[1]] = a
      PROVE  /\ o \in propaPts[d[1]] /\ AtTargets(d[1], o)
             /\ P[d[2]] \subseteq pts'[rep'[d[2]]] /\ pts'[rep'[d[2]]] \in SUBSET Obj
  <2>1. o \in propaPts[d[1]]
    BY <1>2, <1>5 DEF MergesTo, SetsMerged
  <2>2. rep'[d[2]] \in Node
    BY <1>2 DEF MergesTo, RepsTraced
  <2> QED BY <1>1, <1>2, <1>3, <2>1, <2>2 DEF MergesTo, SetsMerged, ArrivedInv, Assignment
<1>6. ASSUME NEW e \in copyEdges', e[1] = a PROVE o \in pts'[e[2]]
  <2>1. PICK d \in copyEdges : e = <<rep'[d[1]], rep'[d[2]]>>
    BY DEF MergesTo, EdgesMerged
  <2>2. AtTargets(d[1], o) /\ P[d[2]] \subseteq pts'[e[2]]
    BY <1>5, <1>6, <2>1
  <2>3. o \in pts[d[2]]
    BY <2>2 DEF AtTargets
  <2> QED BY <1>2, <2>2, <2>3 DEF ReplacedFor
<1>7. ASSUME NEW e \in gepEdges', e[1] = a
      PROVE  Reaches(toCollapse', pts'[e[2]], ShiftIn(insensitive', o, e[3]))
  <2>1. PICK d \in gepEdges : e = <<rep'[d[1]], rep'[d[2]], d[3]>>
    BY DEF MergesTo, EdgesMerged
  <2>2. AtTargets(d[1], o) /\ P[d[2]] \subseteq pts'[e[2]] /\ pts'[e[2]] \in SUBSET Obj
    BY <1>5, <1>7, <2>1
  <2>3. Reaches(toCollapse, pts[d[2]], ShiftIn(insensitive, o, d[3]))
    BY <2>2 DEF AtTargets
  <2>4. d[3] \in Nat /\ d[3] = e[3]
    BY <1>1, <2>1 DEF Gep
  <2> QED BY <1>2, <1>3, <2>2, <2>3, <2>4 DEF ReplacedFor
<1>8. ASSUME NEW e \in variantEdges', e[1] = a
      PROVE  Reaches(toCollapse', pts'[e[2]], whole(o))
  <2>1. PICK d \in variantEdges : e = <<rep'[d[1]], rep'[d[2]]>>
    BY DEF MergesTo, EdgesMerged
  <2>2. AtTargets(d[1], o) /\ P[d[2]] \subseteq pts'[e[2]] /\ pts'[e[2]] \in SUBSET Obj
    BY <1>5, <1>8, <2>1
  <2>3. Reaches(toCollapse, pts[d[2]], whole(o))
    BY <2>2 DEF AtTargets
  <2>4. 0 \in Nat
    OBVIOUS
  <2> QED BY <1>2, <1>3, <2>2, <2>3, <2>4 DEF ReplacedFor
<1>9. AtTargets(a, o)'
  BY <1>6, <1>7, <1>8 DEF AtTargets
<1> QED BY <1>4, <1>9

LEMMA EdgeEnds ==
  ASSUME FieldFormInv
  PROVE  /\ \A e \in copyEdges \cup loadEdges \cup storeEdges \cup variantEdges \cup gepEdges :
              /\ e[1] \in Node /\ e[2] \in Node /\ rep[e[1]] = e[1] /\ rep[e[2]] = e[2]
         /\ \A e \in copyEdges \cup loadEdges \cup storeEdges \cup variantEdges :
              e = <<e[1], e[2]>> /\ e \in Edge
BY DEF Edge, Gep, FieldFormInv, FieldTypeOK, TypeOK, FieldGraphInv, GraphInv, AtReps

LEMMA RepIsNode ==
  ASSUME FieldFormInv
  PROVE  /\ \A n \in Node : rep[n] \in Node /\ rep[rep[n]] = rep[n] /\ n \in subs[rep[n]]
         /\ \A n, r \in Node : rep[r] = r => (n \in subs[r] <=> rep[n] = r)
         /\ subs \in [Node -> SUBSET Node]
BY DEF FieldFormInv, FieldTypeOK, TypeOK, FieldGraphInv, GraphInv, RepAgree

LEMMA RepIsNodeNext ==
  ASSUME FieldFormInv'
  PROVE  /\ \A n, r \in Node : rep'[r] = r => (n \in subs'[r] <=> rep'[n] = r)
         /\ subs' \in [Node -> SUBSET Node]
BY DEF FieldFormInv, FieldTypeOK, TypeOK, FieldGraphInv, GraphInv, RepAgree

LEMMA MergeJoins ==
  ASSUME FieldFormInv, FieldFormInv', NEW P, NEW D, MergesTo(P, D), NEW a \in Node, NEW b \in Node
  PROVE  Joined(a, b) => Joined(a, b)'
<1>1. rep'[a] = rep'[rep[a]] /\ rep'[b] = rep'[rep[b]]
  BY DEF MergesTo, RepsTraced
<1>2. CASE rep[a] = rep[b]
  BY <1>1, <1>2 DEF Joined, Connects
<1>3. CASE <<rep[a], rep[b]>> \in copyEdges
  <2> DEFINE d == <<rep[a], rep[b]>>
  <2>1. rep'[d[1]] = rep'[d[2]] \/ \E e \in copyEdges' : e[1] = rep'[d[1]] /\ e[2] = rep'[d[2]]
    BY <1>3 DEF MergesTo, EdgesMerged, Joins
  <2>2. CASE rep'[d[1]] = rep'[d[2]]
    BY <1>1, <2>2 DEF Joined, Connects
  <2>3. ASSUME NEW e \in copyEdges', e[1] = rep'[d[1]], e[2] = rep'[d[2]]
        PROVE  <<rep'[a], rep'[b]>> \in copyEdges'
    <3>1. e = <<e[1], e[2]>>
      BY DEF FieldFormInv, FieldTypeOK, TypeOK, Edge
    <3> QED BY <1>1, <2>3, <3>1
  <2> QED BY <2>1, <2>2, <2>3 DEF Joined, Connects
<1> QED BY <1>2, <1>3 DEF Joined, Connects

LEMMA MergeConstraints ==
  ASSUME FieldFormInv, FieldFormInv', ConstraintsKept, NEW P, NEW D, MergesTo(P, D), ReplacedFor(P),
         phase # "addr", UNCHANGED <<prog, indCalls>>
  PROVE  ConstraintsKept'
<1>1. prog \in Programs
  BY DEF FieldFormInv, FieldTypeOK, TypeOK
<1>2. /\ \A e \in prog.copy \cup prog.load \cup prog.store : e[1] \in Node /\ e[2] \in Node
      /\ \A e \in prog.addr : e[1] \in Obj /\ e[2] \in Node
  BY <1>1, ProgramFields DEF Edge
<1>3. \A c \in indCalls : \A e \in prog.params[c] : e[1] \in Node /\ e[2] \in Node
  <2>1. indCalls \subseteq prog.callee
    BY DEF FieldFormInv, FieldTypeOK, TypeOK
  <2> QED BY <1>1, <2>1, ProgramFields DEF Edge
<1>4. \A a \in Node : rep'[a] = rep'[rep[a]] /\ rep[a] \in Node /\ rep[rep[a]] = rep[a]
  BY RepIsNode DEF MergesTo, RepsTraced
<1>5. AddrKept'
  <2> SUFFICES ASSUME NEW e \in prog.addr PROVE e[1] \in pts'[rep'[e[2]]]
    BY DEF AddrKept
  <2>1. e[1] \in pts[rep[e[2]]]
    BY DEF ConstraintsKept, AddrKept
  <2>2. ~isField(e[1])
    BY <1>1, <1>2, FieldAssumption DEF Named
  <2>3. e[1] \in P[rep[e[2]]]
    BY <1>2, <1>4, <2>1, <2>2 DEF ReplacedFor, Gone
  <2> QED BY <1>2, <1>4, <2>3 DEF MergesTo, SetsMerged
<1>6. CopyKept'
  BY <1>2, MergeJoins DEF ConstraintsKept, CopyKept
<1>7. CallKept'
  BY <1>3, MergeJoins DEF ConstraintsKept, CallKept
<1>8. ASSUME NEW E, NEW e, <<rep[e[1]], rep[e[2]]>> \in E, e[1] \in Node, e[2] \in Node
      PROVE  <<rep'[e[1]], rep'[e[2]]>> \in Moved(E, rep')
  <2> DEFINE d == <<rep[e[1]], rep[e[2]]>>
  <2>1. d \in E /\ <<rep'[d[1]], rep'[d[2]]>> = <<rep'[e[1]], rep'[e[2]]>>
    BY <1>4, <1>8
  <2> QED BY <2>1 DEF Moved
<1>9. LoadKept' /\ StoreKept'
  BY <1>2, <1>8 DEF ConstraintsKept, LoadKept, StoreKept, MergesTo, EdgesMerged
<1> QED BY <1>5, <1>6, <1>7, <1>9 DEF ConstraintsKept

LEMMA ProgramGeps ==
  ASSUME FieldFormInv
  PROVE  /\ \A e \in geps.normal : e[1] \in Node /\ e[2] \in Node /\ e[3] \in Nat
         /\ \A e \in geps.variant : e[1] \in Node /\ e[2] \in Node
<1>1. geps \in GepPrograms
  BY DEF FieldFormInv, FieldTypeOK
<1>2. geps.normal \subseteq Gep /\ geps.variant \subseteq Edge
  BY <1>1, FieldAssumption
<1> QED BY <1>2 DEF Gep, Edge

LEMMA MergeGepsKept ==
  ASSUME FieldFormInv, FieldFormInv', GepKept, GepFrom, VariantKept, NEW P, NEW D, MergesTo(P, D),
         UNCHANGED geps
  PROVE  (GepKept /\ GepFrom /\ VariantKept)'
<1>1. \A a \in Node : rep'[a] = rep'[rep[a]] /\ rep[a] \in Node /\ rep[rep[a]] = rep[a]
  BY RepIsNode DEF MergesTo, RepsTraced
<1>2. ASSUME NEW e \in geps.normal, Sole(e)' PROVE Sole(e)
  BY <1>1, <1>2, ProgramGeps DEF Sole
<1>3. ASSUME NEW e \in geps.normal, rep[e[1]] = rep[e[2]]
      PROVE  rep'[e[1]] = rep'[e[2]] /\ (rep[e[1]] \in pwc => rep'[e[1]] \in pwc')
  <2>1. e[1] \in Node /\ e[2] \in Node
    BY ProgramGeps
  <2> QED BY <1>1, <1>3, <2>1 DEF MergesTo, EdgesMerged
<1>4. ASSUME NEW e \in geps.normal, NEW d \in gepEdges, d[1] = rep[e[1]], d[2] = rep[e[2]]
      PROVE  \/ Joins(gepEdges', rep', e)
             \/ /\ rep'[e[1]] = rep'[e[2]]
                /\ e[3] = 0 \/ TRUE \in Misread \/ rep'[e[1]] \in pwc' \/ ~Sole(e)'
  <2>1. e[1] \in Node /\ e[2] \in Node
    BY ProgramGeps
  <2>2. rep'[d[1]] = rep'[e[1]] /\ rep'[d[2]] = rep'[e[2]]
    BY <1>1, <1>4, <2>1
  <2>3. CASE Joins(gepEdges', rep', d)
    BY <2>2, <2>3 DEF Joins
  <2>4. CASE rep'[d[1]] = rep'[d[2]] /\ (TRUE \in Misread \/ rep'[d[1]] \in pwc')
    BY <2>2, <2>4
  <2>5. ASSUME rep'[d[1]] = rep'[d[2]], NEW x \in gepEdges, x[3] = 0,
               rep'[x[1]] = rep'[d[1]], rep'[x[2]] = rep'[d[2]], e[3] # 0
        PROVE  ~Sole(e)'
    <3>1. PICK f \in geps.normal : x = <<rep[f[1]], rep[f[2]], f[3]>>
      BY DEF GepFrom
    <3>2. f[1] \in Node /\ f[2] \in Node
      BY ProgramGeps
    <3>3. rep'[f[1]] = rep'[e[1]] /\ rep'[f[2]] = rep'[e[2]] /\ f[3] # e[3]
      BY <1>1, <2>2, <2>5, <3>1, <3>2
    <3> QED BY <3>3 DEF Sole
  <2> QED BY <2>2, <2>3, <2>4, <2>5 DEF MergesTo, EdgesMerged
<1>5. GepKept'
  <2> SUFFICES ASSUME NEW e \in geps.normal
               PROVE  \/ Joins(gepEdges', rep', e)
                      \/ /\ rep'[e[1]] = rep'[e[2]]
                         /\ e[3] = 0 \/ TRUE \in Misread \/ rep'[e[1]] \in pwc' \/ ~Sole(e)'
    BY DEF GepKept
  <2>1. CASE Joins(gepEdges, rep, e)
    BY <1>4, <2>1 DEF Joins
  <2>2. CASE ~Joins(gepEdges, rep, e)
    BY <1>2, <1>3, <2>2 DEF GepKept
  <2> QED BY <2>1, <2>2
<1>6. GepFrom'
  <2> SUFFICES ASSUME NEW x \in gepEdges'
               PROVE  \E e \in geps.normal : x = <<rep'[e[1]], rep'[e[2]], e[3]>>
    BY DEF GepFrom
  <2>1. PICK d \in gepEdges : x = <<rep'[d[1]], rep'[d[2]], d[3]>>
    BY DEF MergesTo, EdgesMerged
  <2>2. PICK e \in geps.normal : d = <<rep[e[1]], rep[e[2]], e[3]>>
    BY DEF GepFrom
  <2>3. e[1] \in Node /\ e[2] \in Node
    BY ProgramGeps
  <2> QED BY <1>1, <2>1, <2>2, <2>3
<1>7. VariantKept'
  <2> SUFFICES ASSUME NEW e \in geps.variant
               PROVE  \/ Joins(variantEdges', rep', e)
                      \/ rep'[e[1]] = rep'[e[2]] /\ rep'[e[1]] \in pwc'
    BY DEF VariantKept
  <2>1. e[1] \in Node /\ e[2] \in Node
    BY ProgramGeps
  <2>2. ASSUME NEW d \in variantEdges, d[1] = rep[e[1]], d[2] = rep[e[2]]
        PROVE  \/ Joins(variantEdges', rep', e)
               \/ rep'[e[1]] = rep'[e[2]] /\ rep'[e[1]] \in pwc'
    <3>1. rep'[d[1]] = rep'[e[1]] /\ rep'[d[2]] = rep'[e[2]]
      BY <1>1, <2>1, <2>2
    <3> QED BY <3>1 DEF MergesTo, EdgesMerged, Joins
  <2>3. ASSUME rep[e[1]] = rep[e[2]], rep[e[1]] \in pwc
        PROVE  rep'[e[1]] = rep'[e[2]] /\ rep'[e[1]] \in pwc'
    BY <1>1, <2>1, <2>3 DEF MergesTo, EdgesMerged
  <2> QED BY <2>2, <2>3 DEF VariantKept, Joins
<1> QED BY <1>5, <1>6, <1>7

LEMMA MergeCachesKept ==
  ASSUME FieldFormInv, FieldFormInv', FieldCaches, NEW P, NEW D, MergesTo(P, D)
  PROVE  FieldCaches'
<1> SUFFICES ASSUME NEW e \in Edge, rep'[e[1]] = e[1], rep'[e[2]] = e[2]
             PROVE  /\ \A o \in loadCache'[e] \ Opaque : Connects(copyEdges', rep'[o], e[2])
                    /\ \A o \in storeCache'[e] \ Opaque : Connects(copyEdges', e[1], rep'[o])
  BY DEF FieldCaches
<1>1. e[1] \in Node /\ e[2] \in Node
  BY DEF Edge
<1>2. rep[e[1]] = e[1] /\ rep[e[2]] = e[2]
  BY <1>1 DEF MergesTo, RepsTraced
<1>3. loadCache'[e] = loadCache[e] /\ storeCache'[e] = storeCache[e]
  BY <1>2 DEF MergesTo, CachesMerged
<1>4. loadCache[e] \subseteq Node /\ storeCache[e] \subseteq Node
  BY GraphAssumption DEF FieldFormInv, FieldTypeOK, TypeOK
<1>5. ASSUME NEW o \in loadCache[e] \ Opaque PROVE Connects(copyEdges', rep'[o], e[2])
  <2>1. Joined(o, e[2])
    BY <1>2, <1>5 DEF FieldCaches, Joined
  <2>2. Joined(o, e[2])'
    BY <1>1, <1>4, <2>1, MergeJoins
  <2> QED BY <2>2 DEF Joined
<1>6. ASSUME NEW o \in storeCache[e] \ Opaque PROVE Connects(copyEdges', e[1], rep'[o])
  <2>1. Joined(e[1], o)
    BY <1>2, <1>6 DEF FieldCaches, Joined
  <2>2. Joined(e[1], o)'
    BY <1>1, <1>4, <2>1, MergeJoins
  <2> QED BY <2>2 DEF Joined
<1> QED BY <1>3, <1>5, <1>6

(* Nothing is merged into a node that still stands for itself alone.       *)
LEMMA AloneAfterMerge ==
  ASSUME FieldFormInv, FieldFormInv', NEW P, NEW D, MergesTo(P, D),
         NEW n \in Node, Unmerged(n)'
  PROVE  /\ Unmerged(n)
         /\ \A a \in Node : rep'[a] = n => a = n
         /\ pts'[n] \subseteq P[n]
<1>1. \A a \in Node : rep'[a] = n => a = n
  BY RepIsNodeNext DEF Unmerged
<1>2. rep[n] = n
  BY DEF Unmerged, MergesTo, RepsTraced
<1>3. \A a \in Node : rep[a] = n => a = n
  BY <1>1, <1>2 DEF MergesTo, RepsTraced, Unmerged
<1>4. subs[n] = {n}
  BY <1>2, <1>3, RepIsNode
<1>5. \A b \in Node : <<b, n>> \notin D
  BY <1>1 DEF MergesTo, RepsTraced
<1> QED BY <1>1, <1>2, <1>4, <1>5 DEF Unmerged, MergesTo, SetsMerged

(* What is pointed to instead is one with what was pointed to.             *)
SameContents(P) ==
  \A a \in Node : \A o \in P[a] \ Opaque : ~Mixed(o)' =>
    \E f \in pts[a] \ Opaque : ~Mixed(f) /\ rep'[f] = rep'[o]

LEMMA MergeLoads ==
  ASSUME FieldFormInv, FieldFormInv', FieldLoads, NEW P, NEW D, MergesTo(P, D), SameContents(P),
         pendLoads = {}, worklist' = worklist
  PROVE  FieldLoads'
<1> SUFFICES ASSUME NEW e \in loadEdges', Unmerged(e[1])', e[1] \notin worklist,
                    NEW o \in pts'[e[1]] \ Opaque, ~Mixed(o)'
             PROVE  Connects(copyEdges', rep'[o], e[2])
  BY DEF FieldLoads
<1>1. PICK d \in loadEdges : e = <<rep'[d[1]], rep'[d[2]]>>
  BY DEF MergesTo, EdgesMerged, Moved
<1>2. d[1] \in Node /\ d[2] \in Node /\ rep[d[2]] = d[2]
  BY EdgeEnds
<1>3. e[1] \in Node
  BY <1>1, <1>2 DEF MergesTo, RepsTraced
<1>4. d[1] = e[1] /\ Unmerged(d[1]) /\ o \in P[d[1]]
  BY <1>1, <1>2, <1>3, AloneAfterMerge
<1>5. PICK f \in pts[d[1]] \ Opaque : ~Mixed(f) /\ rep'[f] = rep'[o]
  BY <1>2, <1>4 DEF SameContents
<1>6. f \in Node
  BY <1>2, <1>5, GraphAssumption DEF FieldFormInv, FieldTypeOK, TypeOK, Assignment
<1>7. Joined(f, d[2])
  BY <1>2, <1>4, <1>5 DEF FieldLoads, Joined
<1>8. Joined(f, d[2])'
  BY <1>2, <1>6, <1>7, MergeJoins
<1> QED BY <1>1, <1>5, <1>8 DEF Joined

LEMMA MergeStores ==
  ASSUME FieldFormInv, FieldFormInv', FieldStores, NEW P, NEW D, MergesTo(P, D), SameContents(P),
         pendStores = {}, worklist' = worklist
  PROVE  FieldStores'
<1> SUFFICES ASSUME NEW e \in storeEdges', Unmerged(e[2])', e[2] \notin worklist,
                    NEW o \in pts'[e[2]] \ Opaque, ~Mixed(o)'
             PROVE  Connects(copyEdges', e[1], rep'[o])
  BY DEF FieldStores
<1>1. PICK d \in storeEdges : e = <<rep'[d[1]], rep'[d[2]]>>
  BY DEF MergesTo, EdgesMerged, Moved
<1>2. d[1] \in Node /\ d[2] \in Node /\ rep[d[1]] = d[1]
  BY EdgeEnds
<1>3. e[2] \in Node
  BY <1>1, <1>2 DEF MergesTo, RepsTraced
<1>4. d[2] = e[2] /\ Unmerged(d[2]) /\ o \in P[d[2]]
  BY <1>1, <1>2, <1>3, AloneAfterMerge
<1>5. PICK f \in pts[d[2]] \ Opaque : ~Mixed(f) /\ rep'[f] = rep'[o]
  BY <1>2, <1>4 DEF SameContents
<1>6. f \in Node
  BY <1>2, <1>5, GraphAssumption DEF FieldFormInv, FieldTypeOK, TypeOK, Assignment
<1>7. Joined(d[1], f)
  BY <1>2, <1>4, <1>5 DEF FieldStores, Joined
<1>8. Joined(d[1], f)'
  BY <1>2, <1>6, <1>7, MergeJoins
<1> QED BY <1>1, <1>5, <1>8 DEF Joined

(* A field nothing has pointed to stays so, if it is not merged itself.    *)
LEMMA MergeUsed ==
  ASSUME FieldFormInv, FieldFormInv', FieldsUsed, NEW P, NEW D, MergesTo(P, D), ReplacedFor(P),
         \A f \in Obj : isField(f) /\ ~Gone(f)' /\ Untouched(f) => \A e \in D : e[1] # f /\ e[2] # f
  PROVE  FieldsUsed'
<1> SUFFICES ASSUME NEW f \in Obj, isField(f), hasFields(f[1]), ~Gone(f)',
                    \A n \in Node : f \notin pts'[n]
             PROVE  Untouched(f)'
  BY DEF FieldsUsed
<1>1. ~Gone(f)
  BY DEF ReplacedFor
<1>2. \A n \in Node : f \notin pts[n]
  BY DEF ReplacedFor, MergesTo, SetsMerged
<1>3. Untouched(f) /\ \A e \in D : e[1] # f /\ e[2] # f
  BY <1>1, <1>2 DEF FieldsUsed
<1>4. f \in Node
  BY GraphAssumption
<1>5. rep'[f] = f
  BY <1>3, <1>4 DEF Untouched, MergesTo, RepsTraced
<1>6. ASSUME NEW k \in Node, rep'[k] = f PROVE k = f
  <2>1. \A e \in D : e[1] # rep[k]
    <3> SUFFICES ASSUME NEW e \in D, e[1] = rep[k] PROVE FALSE
      OBVIOUS
    <3>1. rep'[k] = e[2]
      BY DEF MergesTo, RepsTraced
    <3> QED BY <1>3, <1>6, <3>1
  <2>2. rep[k] = f
    BY <1>6, <2>1 DEF MergesTo, RepsTraced
  <2>3. k \in subs[f]
    BY <2>2, RepIsNode
  <2> QED BY <1>3, <2>3 DEF Untouched
<1>7. subs'[f] = {f}
  BY <1>4, <1>5, <1>6, RepIsNodeNext
<1>8. pts'[f] = {}
  <2>1. P[f] = {}
    BY <1>3, <1>4 DEF Untouched, ReplacedFor
  <2>2. \A b \in Node : <<b, f>> \notin D
    BY <1>3
  <2> QED BY <1>4, <2>1, <2>2 DEF MergesTo, SetsMerged
<1>9. ASSUME NEW E, NEW d \in E, E = copyEdges \/ E = loadEdges \/ E = storeEdges \/ E = variantEdges
                                   \/ E = gepEdges
      PROVE  rep'[d[1]] # f /\ rep'[d[2]] # f
  <2>1. d[1] \in Node /\ d[2] \in Node /\ d[1] # f /\ d[2] # f
    BY <1>3, <1>9, EdgeEnds DEF Untouched
  <2> QED BY <1>6, <2>1
<1>10. \A e \in copyEdges' \cup variantEdges' \cup gepEdges' : e[1] # f /\ e[2] # f
  BY <1>9 DEF MergesTo, EdgesMerged
<1>11. \A e \in loadEdges' \cup storeEdges' : e[1] # f /\ e[2] # f
  BY <1>9 DEF MergesTo, EdgesMerged, Moved
<1>12. f \notin pwc'
  <2>1. pwc \subseteq Node
    BY DEF FieldFormInv, FieldTypeOK
  <2> QED BY <1>3, <1>6, <1>9, <2>1 DEF Untouched, MergesTo, EdgesMerged
<1> QED BY <1>5, <1>7, <1>8, <1>10, <1>11, <1>12 DEF Untouched

-----------------------------------------------------------------------------
(* Marks of positive-weight cycles sit at representatives.                 *)
PwcAtReps == \A n \in pwc : rep[n] = n

LEMMA MergesPwcAtReps ==
  ASSUME NEW g \in GraphType, GoodGraph(g), NEW pairs, MergePairs(g, pairs),
         NEW merged \in Merges(g, pairs), \A n \in g.pwc : g.rep[n] = n
  PROVE  \A n \in merged.pwc : merged.rep[n] = n
<1> DEFINE I == {x \in (SUBSET pairs) \X GraphType :
                   GoodGraph(x[2]) /\ RepsMoved(g, x[1], x[2]) /\ \A n \in x[2].pwc : x[2].rep[n] = n}
<1>1. <<{}, g>> \in I
  BY DEF RepsMoved
<1>2. ASSUME NEW D \in SUBSET pairs, NEW e \in pairs \ D, NEW h \in GraphType, NEW misread \in Misread,
             <<D, h>> \in I
      PROVE  <<D \cup {e}, MergeNodeToRep(h, e[1], e[2], misread)>> \in I
  <2>1. PICK k : k = MergeNodeToRep(h, e[1], e[2], misread)
    OBVIOUS
  <2>2. IsMerge(h, e[1], e[2], misread, k)
    BY <2>1, MergeFields
  <2>3. GoodGraph(h) /\ RepsMoved(g, D, h) /\ \A n \in h.pwc : h.rep[n] = n
    BY <1>2
  <2>4. /\ h.rep[e[1]] = e[1] /\ h.rep[e[2]] = e[2] /\ e[1] # e[2]
        /\ e[1] \in Node /\ e[2] \in Node
        /\ \A m \in Node : k.rep[m] = IF h.rep[m] = e[1] THEN e[2] ELSE h.rep[m]
        /\ GoodGraph(k)
        /\ RepsMoved(g, D \cup {e}, k)
    BY <2>2, <2>3, RepsMovedFurther DEF GoodGraph
  <2>5. k \in GraphType
    BY <2>1, <2>4, MergeType
  <2>6. h.pwc \subseteq Node
    BY GraphFields
  <2>7. k.pwc \subseteq (h.pwc \ {e[1]}) \cup {e[2]}
    BY <2>2 DEF IsMerge, Pwc
  <2>8. \A n \in k.pwc : k.rep[n] = n
    BY <2>3, <2>4, <2>6, <2>7
  <2>9. <<D \cup {e}, k>> \in I
    BY <2>4, <2>5, <2>8
  <2> QED BY <2>1, <2>9
<1>3. pairs \subseteq Edge
  BY DEF MergePairs
<1>4. KeptByMerges(I, pairs)
  <2> HIDE DEF I
  <2> QED BY <1>2 DEF KeptByMerges
<1>5. <<pairs, merged>> \in I
  <2> HIDE DEF I
  <2> QED BY <1>1, <1>3, <1>4, MergesInduct
<1> QED BY <1>5

LEMMA SCCPwc ==
  ASSUME FieldFormInv, PwcAtReps, FieldSCCDetect
  PROVE  PwcAtReps'
<1>0. PICK root \in RootMaps(DirectEdges) : \E merged \in Merges(Graph, RootPairs(root)) :
           Becomes(merged) /\ MergePairs(Graph, RootPairs(root))
  BY FieldSCCStep
<1>1. PICK merged \in Merges(Graph, RootPairs(root)) :
           Becomes(merged) /\ MergePairs(Graph, RootPairs(root))
  BY <1>0
<1>2. Graph \in GraphType /\ GoodGraph(Graph) /\ Graph.rep = rep /\ Graph.pwc = pwc
  BY FieldFormIsForm DEF Graph
<1>3. \A n \in merged.pwc : merged.rep[n] = n
  BY <1>1, <1>2, MergesPwcAtReps DEF PwcAtReps
<1> QED BY <1>1, <1>3 DEF PwcAtReps, Becomes

LEMMA CollapsePwc ==
  ASSUME FieldFormInv, PwcAtReps, NEW m \in Mem, hasFields(m), NEW rest, CollapseField(m, rest)
  PROVE  PwcAtReps'
<1>1. PICK merged \in Merges(Replacing(m), FieldPairs(m)) : Becomes(merged)
  BY CollapseStep
<1>2. \A n \in merged.pwc : merged.rep[n] = n
  BY ReplacingGood, ReplacingFields, MergesPwcAtReps DEF PwcAtReps
<1> QED BY <1>1, <1>2 DEF PwcAtReps, Becomes

-----------------------------------------------------------------------------
(* What is true of the graph throughout, merges or not.                    *)
FieldKeptInv ==
  /\ ArrivedInv /\ LoopFreeInv /\ PwcAtReps
  /\ FieldKept /\ FieldsUsed
  /\ FieldCaches /\ FieldLoads /\ FieldStores

LEMMA MergeKeepsAll ==
  ASSUME FieldFormInv, FieldFormInv', FieldKeptInv, PwcAtReps', NEW P, NEW D,
         MergesTo(P, D), ReplacedFor(P), SameContents(P),
         \A f \in Obj : isField(f) /\ ~Gone(f)' /\ Untouched(f) => \A e \in D : e[1] # f /\ e[2] # f,
         phase # "addr", pendParams = {}, pendLoads = {}, pendStores = {},
         UNCHANGED <<prog, geps, indCalls, worklist>>
  PROVE  FieldKeptInv'
<1>1. ArrivedInv'
  BY MergeArrived DEF FieldKeptInv
<1>2. LoopFreeInv'
  BY DEF MergesTo, EdgesMerged
<1>3. FieldKept'
  BY MergeConstraints, MergeGepsKept DEF FieldKeptInv, FieldKept
<1>4. FieldsUsed'
  BY MergeUsed DEF FieldKeptInv
<1>5. FieldCaches'
  BY MergeCachesKept DEF FieldKeptInv
<1>6. FieldLoads'
  BY MergeLoads DEF FieldKeptInv
<1>7. FieldStores'
  BY MergeStores DEF FieldKeptInv
<1> QED BY <1>1, <1>2, <1>3, <1>4, <1>5, <1>6, <1>7 DEF FieldKeptInv

LEMMA UntouchedAlone ==
  ASSUME FieldFormInv, NEW f \in Node, Untouched(f)
  PROVE  \A a \in Node : rep[a] = f => a = f
<1> SUFFICES ASSUME NEW a \in Node, rep[a] = f PROVE a = f
  OBVIOUS
<1>1. a \in subs[f]
  BY RepIsNode
<1> QED BY <1>1 DEF Untouched

LEMMA SCCKeepsAll ==
  ASSUME FieldFormInv, FieldFormInv', FieldKeptInv, FieldSCCDetect
  PROVE  FieldKeptInv'
<1>1. PICK root \in RootMaps(DirectEdges) : MergesTo(pts, RootPairs(root))
  BY SCCMerges DEF FieldKeptInv
<1>2. /\ UNCHANGED <<prog, geps, indCalls, worklist>> /\ UNCHANGED <<insensitive, toCollapse>>
      /\ phase = "scc"
  BY DEF FieldSCCDetect
<1>3. pendParams = {} /\ pendLoads = {} /\ pendStores = {} /\ phase # "addr"
  BY <1>2 DEF FieldFormInv, FieldPhaseInv, PhaseInv
<1>4. PwcAtReps'
  BY SCCPwc DEF FieldKeptInv
<1>5. ReplacedFor(pts)
  BY <1>2, ReplacedForNothing
<1>6. SameContents(pts)
  <2> SUFFICES ASSUME NEW a \in Node, NEW o \in pts[a] \ Opaque, ~Mixed(o)'
               PROVE  \E f \in pts[a] \ Opaque : ~Mixed(f) /\ rep'[f] = rep'[o]
    BY DEF SameContents
  <2>1. ~Mixed(o)
    BY <1>2 DEF Mixed
  <2> QED BY <2>1
<1>7. ASSUME NEW f \in Obj, Untouched(f), NEW e \in RootPairs(root) PROVE e[1] # f /\ e[2] # f
  <2>1. f \in Node
    BY GraphAssumption
  <2>2. \A d \in DirectEdges : d[1] # f /\ d[2] # f
    BY <1>7 DEF Untouched, DirectEdges, Pairs
  <2>3. PICK n \in Node : root[n] # n /\ e = <<n, root[n]>>
    BY DEF RootPairs, MergedNodes
  <2>4. \A n2 \in Node : root[n2] = f => n2 = f
    BY <2>1, <2>2, DirectEdgesForm, RootOfIsolated
  <2>5. root[f] = f
    BY <2>1, <2>2, DirectEdgesForm, RootOfIsolatedIsItself
  <2> QED BY <2>3, <2>4, <2>5
<1> QED BY <1>1, <1>2, <1>3, <1>4, <1>5, <1>6, <1>7, MergeKeepsAll

LEMMA DirectEdgesFormNext ==
  ASSUME FieldFormInv'
  PROVE  DirectEdges' \subseteq Edge /\ AtReps(DirectEdges', rep')
BY DEF FieldFormInv, FieldTypeOK, TypeOK, FieldGraphInv, GraphInv, DirectEdges, Pairs, AtReps, Edge, Gep

(* A wave begins with every node ahead.                                    *)
LEMMA SCCWave ==
  ASSUME FieldFormInv, FieldFormInv', FieldKeptInv, FieldSCCDetect
  PROVE  FieldWaveInv'
<1>1. PICK root \in RootMaps(DirectEdges) :
           /\ MergesTo(pts, RootPairs(root))
           /\ nodeStack' = {n \in Node : rep[n] = n /\ root[n] = n}
           /\ waveEdges' = DirectEdges'
  BY SCCMerges DEF FieldKeptInv
<1>2. phase' = "solve" /\ current' = {}
  <2>1. phase = "scc" /\ phase' = "solve" /\ current' = current
    BY DEF FieldSCCDetect
  <2>2. Idle
    BY <2>1 DEF FieldFormInv, FieldPhaseInv
  <2> QED BY <2>1, <2>2 DEF Idle
<1>3. pendParams' = {}
  BY <1>2 DEF FieldFormInv, FieldPhaseInv, PhaseInv
<1>4. \A n \in Node : rep'[n] = n => n \in nodeStack'
  <2> SUFFICES ASSUME NEW n \in Node, rep'[n] = n PROVE n \in nodeStack'
    OBVIOUS
  <2>1. rep[n] = n
    BY <1>1 DEF MergesTo, RepsTraced
  <2>2. root[n] = n
    <3> SUFFICES ASSUME root[n] # n PROVE FALSE
      OBVIOUS
    <3>1. <<n, root[n]>> \in RootPairs(root)
      BY DEF RootPairs, MergedNodes
    <3>2. rep'[<<n, root[n]>>[1]] = <<n, root[n]>>[2]
      BY <1>1, <3>1 DEF MergesTo, RepsTraced
    <3> QED BY <3>2
  <2> QED BY <1>1, <2>1, <2>2
<1>5. DirectEdges' \subseteq Edge /\ AtReps(DirectEdges', rep')
  BY DirectEdgesFormNext
<1>6. \A e \in DirectEdges' : e[1] \in nodeStack' /\ e[2] \in nodeStack'
  BY <1>4, <1>5 DEF Edge, AtReps
<1>7. WavePassed'
  <2>1. pwc' \subseteq Node
    BY DEF FieldFormInv, FieldTypeOK
  <2> QED BY <1>2, <1>4, <2>1 DEF WavePassed, Ahead
<1>8. WaveOrder'
  BY <1>1, <1>2, <1>6 DEF WaveOrder, Ahead
<1> QED BY <1>2, <1>3, <1>7, <1>8 DEF FieldWaveInv

-----------------------------------------------------------------------------
(* A collapse for which no other wave is needed found fields nothing had   *)
(* pointed to; merging them into the whole changes nothing else.           *)
CollapseUnseen(m) ==
  /\ m \in Mem /\ hasFields(m) /\ m \notin insensitive \ toCollapse
  /\ insensitive' = insensitive \cup {m}
  /\ toCollapse \ {m} \subseteq toCollapse' /\ toCollapse' \subseteq toCollapse /\ m \notin toCollapse'
  /\ MergesTo(Replaced(m), FieldPairs(m))

LEMMA UnseenFields ==
  ASSUME FieldFormInv, FieldKeptInv, NEW m, CollapseUnseen(m), Replaced(m) = pts
  PROVE  /\ \A f \in fields(m) : f \in Node /\ Untouched(f)
         /\ \A e \in FieldPairs(m) : e[1] \in fields(m)
         /\ \A a \in Node : rep[a] \notin fields(m) => rep'[a] = rep[a]
<1>1. m \in Mem /\ hasFields(m)
  BY DEF CollapseUnseen
<1>2. pts \in Assignment
  BY DEF FieldFormInv, FieldTypeOK, TypeOK
<1>3. \A f \in fields(m) : f \in Node /\ Untouched(f)
  <2> SUFFICES ASSUME NEW f \in fields(m) PROVE f \in Node /\ Untouched(f)
    OBVIOUS
  <2>1. f \in Node /\ f \in Obj /\ f[1] = m /\ isField(f)
    BY <1>1, FieldNode DEF fields
  <2>2. \A n \in Node : f \notin pts[n]
    BY <1>1, <1>2, ReplacedIs
  <2>3. ~Gone(f)
    BY <2>1 DEF Gone, CollapseUnseen
  <2> QED BY <1>1, <2>1, <2>2, <2>3 DEF FieldKeptInv, FieldsUsed
<1>4. \A e \in FieldPairs(m) : e[1] \in fields(m)
  BY <1>3 DEF FieldPairs, Untouched
<1>5. \A a \in Node : rep[a] \notin fields(m) => rep'[a] = rep[a]
  BY <1>4 DEF CollapseUnseen, MergesTo, RepsTraced
<1> QED BY <1>3, <1>4, <1>5

LEMMA UnseenChangesNothing ==
  ASSUME FieldFormInv, FieldFormInv', FieldKeptInv, NEW m, CollapseUnseen(m), Replaced(m) = pts
  PROVE  /\ pts' = pts /\ copyEdges' = copyEdges /\ variantEdges' = variantEdges
         /\ gepEdges' = gepEdges /\ pwc' \subseteq pwc
         /\ \A n \in Node : rep'[n] = n => rep[n] = n
<1>1. /\ \A f \in fields(m) : f \in Node /\ Untouched(f)
      /\ \A e \in FieldPairs(m) : e[1] \in fields(m)
      /\ \A a \in Node : rep[a] \notin fields(m) => rep'[a] = rep[a]
  BY UnseenFields
<1>2. MergesTo(pts, FieldPairs(m))
  BY DEF CollapseUnseen
<1>3. \A e \in copyEdges \cup variantEdges \cup gepEdges :
        rep'[e[1]] = e[1] /\ rep'[e[2]] = e[2] /\ e[1] # e[2]
  <2> SUFFICES ASSUME NEW e \in copyEdges \cup variantEdges \cup gepEdges
               PROVE  rep'[e[1]] = e[1] /\ rep'[e[2]] = e[2] /\ e[1] # e[2]
    OBVIOUS
  <2>1. e[1] \in Node /\ e[2] \in Node /\ rep[e[1]] = e[1] /\ rep[e[2]] = e[2]
    BY EdgeEnds
  <2>2. e[1] \notin fields(m) /\ e[2] \notin fields(m)
    BY <1>1 DEF Untouched
  <2> QED BY <1>1, <2>1, <2>2 DEF FieldKeptInv, LoopFreeInv
<1>4. /\ copyEdges \subseteq Edge /\ variantEdges \subseteq Edge /\ gepEdges \subseteq Gep
      /\ copyEdges' \subseteq Edge /\ variantEdges' \subseteq Edge /\ gepEdges' \subseteq Gep
      /\ \A e, f \in gepEdges : e[1] = f[1] /\ e[2] = f[2] => e = f
      /\ pts \in Assignment /\ pts' \in Assignment /\ pwc \subseteq Node /\ pwc' \subseteq Node
  BY DEF FieldFormInv, FieldTypeOK, TypeOK
<1>5. copyEdges' = copyEdges
  <2>1. \A e \in copyEdges' : e \in copyEdges
    <3> SUFFICES ASSUME NEW e \in copyEdges' PROVE e \in copyEdges
      OBVIOUS
    <3>1. PICK d \in copyEdges : e = <<rep'[d[1]], rep'[d[2]]>>
      BY <1>2 DEF MergesTo, EdgesMerged
    <3> QED BY <1>3, <1>4, <3>1 DEF Edge
  <2>2. \A d \in copyEdges : d \in copyEdges'
    <3> SUFFICES ASSUME NEW d \in copyEdges PROVE d \in copyEdges'
      OBVIOUS
    <3>1. PICK e \in copyEdges' : e[1] = d[1] /\ e[2] = d[2]
      BY <1>2, <1>3 DEF MergesTo, EdgesMerged, Joins
    <3> QED BY <1>4, <3>1 DEF Edge
  <2> QED BY <2>1, <2>2
<1>6. variantEdges' = variantEdges
  <2>1. \A e \in variantEdges' : e \in variantEdges
    <3> SUFFICES ASSUME NEW e \in variantEdges' PROVE e \in variantEdges
      OBVIOUS
    <3>1. PICK d \in variantEdges : e = <<rep'[d[1]], rep'[d[2]]>>
      BY <1>2 DEF MergesTo, EdgesMerged
    <3> QED BY <1>3, <1>4, <3>1 DEF Edge
  <2>2. \A d \in variantEdges : d \in variantEdges'
    <3> SUFFICES ASSUME NEW d \in variantEdges PROVE d \in variantEdges'
      OBVIOUS
    <3>1. PICK e \in variantEdges' : e[1] = d[1] /\ e[2] = d[2]
      BY <1>2, <1>3 DEF MergesTo, EdgesMerged, Joins
    <3> QED BY <1>4, <3>1 DEF Edge
  <2> QED BY <2>1, <2>2
<1>7. gepEdges' = gepEdges
  <2>1. \A e \in gepEdges' : e \in gepEdges
    <3> SUFFICES ASSUME NEW e \in gepEdges' PROVE e \in gepEdges
      OBVIOUS
    <3>1. PICK d \in gepEdges : e = <<rep'[d[1]], rep'[d[2]], d[3]>>
      BY <1>2 DEF MergesTo, EdgesMerged
    <3> QED BY <1>3, <1>4, <3>1 DEF Gep
  <2>2. \A d \in gepEdges : d \in gepEdges'
    <3> SUFFICES ASSUME NEW d \in gepEdges PROVE d \in gepEdges'
      OBVIOUS
    <3>0. rep'[d[1]] = d[1] /\ rep'[d[2]] = d[2] /\ d[1] # d[2]
      BY <1>3
    <3>1. PICK e \in gepEdges' : e[1] = d[1] /\ e[2] = d[2]
      <4>1. Joins(gepEdges', rep', d) \/ rep'[d[1]] = rep'[d[2]]
        BY <1>2 DEF MergesTo, EdgesMerged
      <4> QED BY <3>0, <4>1 DEF Joins
    <3> QED BY <1>4, <2>1, <3>1
  <2> QED BY <2>1, <2>2
<1>8. pts' = pts
  <2> SUFFICES ASSUME NEW a \in Node PROVE pts'[a] = pts[a]
    BY <1>4 DEF Assignment
  <2>1. pts[a] \subseteq pts'[a]
    BY <1>2 DEF MergesTo, SetsMerged
  <2>2. ASSUME NEW o \in pts'[a] PROVE o \in pts[a]
    <3>1. PICK b \in Node : (b = a \/ <<b, a>> \in FieldPairs(m)) /\ o \in pts[b]
      BY <1>2 DEF MergesTo, SetsMerged
    <3>2. b \notin fields(m)
      BY <1>1, <3>1 DEF Untouched
    <3> QED BY <1>1, <3>1, <3>2
  <2> QED BY <2>1, <2>2
<1>9. \A n \in Node : rep'[n] = n => rep[n] = n
  BY <1>2 DEF MergesTo, RepsTraced
<1>10. ASSUME NEW b \in pwc' PROVE b \in pwc
  <2>1. ASSUME NEW n \in pwc, n # b, rep'[n] = b PROVE FALSE
    <3>1. rep[n] = n /\ n \in Node
      BY <1>4 DEF FieldKeptInv, PwcAtReps
    <3>2. n \notin fields(m)
      BY <1>1 DEF Untouched
    <3> QED BY <1>1, <2>1, <3>1, <3>2
  <2>2. ASSUME NEW d \in variantEdges \cup gepEdges, rep'[d[1]] = b, rep'[d[2]] = b PROVE FALSE
    BY <1>3, <2>2
  <2> QED BY <1>2, <2>1, <2>2 DEF MergesTo, EdgesMerged
<1> QED BY <1>5, <1>6, <1>7, <1>8, <1>9, <1>10

LEMMA CollapseUnseenWhen ==
  ASSUME FieldFormInv, FieldKeptInv, NEW m \in Mem, hasFields(m), NEW rest, CollapseField(m, rest),
         m \notin insensitive \ toCollapse,
         toCollapse \ {m} \subseteq toCollapse', toCollapse' \subseteq toCollapse, m \notin toCollapse'
  PROVE  /\ CollapseUnseen(m)
         /\ reanalyze' = (reanalyze \/ Replaced(m) # pts)
         /\ rest \subseteq pendingPts'
BY CollapseMerges DEF CollapseUnseen, FieldKeptInv

(* What a field held, the whole it has become holds.                       *)
LEMMA CollapseContents ==
  ASSUME FieldFormInv, CollapsedInv', NEW m, CollapseUnseen(m)
  PROVE  SameContents(Replaced(m))
<1>1. m \in Mem /\ hasFields(m) /\ insensitive' = insensitive \cup {m} /\ m \notin toCollapse'
  BY DEF CollapseUnseen
<1>2. pts \in Assignment
  BY DEF FieldFormInv, FieldTypeOK, TypeOK
<1> SUFFICES ASSUME NEW a \in Node, NEW o \in Replaced(m)[a] \ Opaque, ~Mixed(o)'
             PROVE  \E f \in pts[a] \ Opaque : ~Mixed(f) /\ rep'[f] = rep'[o]
  BY DEF SameContents
<1>3. CASE o \in pts[a]
  <2>1. ~Mixed(o)
    BY <1>1 DEF Mixed
  <2> QED BY <1>3, <2>1
<1>4. CASE o \notin pts[a]
  <2>1. o = <<m, -1>> /\ pts[a] \cap fields(m) # {}
    BY <1>1, <1>2, <1>4, ReplacedIs
  <2>2. PICK f \in pts[a] : f \in fields(m)
    BY <2>1
  <2>3. o[1] = m /\ \A g \in Opaque : g[1] # m
    BY <1>1, <2>1 DEF Mixed
  <2>4. f[1] = m
    BY <2>2 DEF fields
  <2>5. f \notin Opaque /\ ~Mixed(f)
    BY <2>3, <2>4 DEF Mixed
  <2>6. rep'[f] = rep'[<<m, -1>>]
    BY <1>1, <2>2 DEF CollapsedInv
  <2> QED BY <2>1, <2>2, <2>5, <2>6
<1> QED BY <1>3, <1>4

LEMMA CollapseKeepsAll ==
  ASSUME FieldFormInv, FieldFormInv', FieldKeptInv, CollapsedInv', NEW m, CollapseUnseen(m),
         PwcAtReps', phase = "solve", pendLoads = {}, pendStores = {},
         UNCHANGED <<prog, geps, indCalls, worklist>>
  PROVE  FieldKeptInv'
<1>1. /\ m \in Mem /\ hasFields(m) /\ insensitive' = insensitive \cup {m}
      /\ toCollapse \ {m} \subseteq toCollapse' /\ toCollapse' \subseteq toCollapse /\ m \notin toCollapse'
      /\ MergesTo(Replaced(m), FieldPairs(m))
  BY DEF CollapseUnseen
<1>2. ReplacedFor(Replaced(m))
  BY <1>1, ReplacedForCollapse
<1>3. SameContents(Replaced(m))
  BY CollapseContents
<1>4. ASSUME NEW f \in Obj, isField(f), ~Gone(f)', Untouched(f), NEW e \in FieldPairs(m)
      PROVE  e[1] # f /\ e[2] # f
  <2>1. f \in Node /\ \A a \in Node : rep[a] = f => a = f
    BY <1>4, GraphAssumption, UntouchedAlone
  <2>2. f[1] # m
    BY <1>1, <1>4 DEF Gone
  <2>3. PICK g \in fields(m) : e[1] = rep[g]
    BY DEF FieldPairs
  <2>4. e[2] = rep[<<m, -1>>]
    BY DEF FieldPairs
  <2>5. g \in Node /\ g[1] = m /\ <<m, -1>> \in Node
    BY <1>1, FieldNode
  <2> QED BY <2>1, <2>2, <2>3, <2>4, <2>5
<1>5. pendParams = {} /\ phase # "addr"
  BY DEF FieldFormInv, FieldPhaseInv, PhaseInv
<1> QED BY <1>1, <1>2, <1>3, <1>4, <1>5, MergeKeepsAll

LEMMA CollapseKeepsWave ==
  ASSUME FieldFormInv, FieldFormInv', FieldKeptInv, FieldWaveInv, NEW m, CollapseUnseen(m),
         phase = "solve", reanalyze' = (reanalyze \/ Replaced(m) # pts),
         UNCHANGED <<phase, nodeStack, current, waveEdges, pendParams>>,
         current # {} => \A o \in pendingPts \ pendingPts' : o[1] = m
  PROVE  FieldWaveInv'
<1> SUFFICES ASSUME ~reanalyze' PROVE WavePassed' /\ WaveOrder' /\ pendParams' = {}
  BY DEF FieldWaveInv
<1>1. ~reanalyze /\ Replaced(m) = pts
  OBVIOUS
<1>2. WavePassed /\ WaveOrder /\ pendParams = {}
  BY <1>1 DEF FieldWaveInv
<1>3. /\ pts' = pts /\ copyEdges' = copyEdges /\ variantEdges' = variantEdges
      /\ gepEdges' = gepEdges /\ pwc' \subseteq pwc
      /\ \A n \in Node : rep'[n] = n => rep[n] = n
  BY <1>1, UnseenChangesNothing
<1>4. /\ m \in Mem /\ hasFields(m) /\ insensitive' = insensitive \cup {m}
      /\ toCollapse \ {m} \subseteq toCollapse' /\ toCollapse' \subseteq toCollapse /\ m \notin toCollapse'
  BY DEF CollapseUnseen
<1>5. ReplacedFor(pts)
  BY <1>1, <1>4, ReplacedForCollapse
<1>6. /\ pts \in Assignment /\ gepEdges \subseteq Gep /\ variantEdges \subseteq Edge /\ pwc \subseteq Node
  BY DEF FieldFormInv, FieldTypeOK, TypeOK
<1>7. ASSUME NEW a \in Node, NEW o \in pts[a], AtTargets(a, o) PROVE AtTargets(a, o)'
  <2>1. o \in Obj
    BY <1>6 DEF Assignment
  <2>2. \A e \in copyEdges \ pendParams : e[1] = a => o \in pts[e[2]]
    BY <1>7 DEF AtTargets
  <2>3. ASSUME NEW e \in gepEdges, e[1] = a
        PROVE  Reaches(toCollapse', pts[e[2]], ShiftIn(insensitive', o, e[3]))
    <3>1. e[2] \in Node /\ e[3] \in Nat /\ pts[e[2]] \in SUBSET Obj
      BY <1>6 DEF Gep, Assignment
    <3>2. Reaches(toCollapse, pts[e[2]], ShiftIn(insensitive, o, e[3]))
      BY <1>7, <2>3 DEF AtTargets
    <3> QED BY <1>5, <2>1, <3>1, <3>2 DEF ReplacedFor
  <2>4. ASSUME NEW e \in variantEdges, e[1] = a
        PROVE  Reaches(toCollapse', pts[e[2]], whole(o))
    <3>1. e[2] \in Node /\ pts[e[2]] \in SUBSET Obj /\ 0 \in Nat
      BY <1>6 DEF Edge, Assignment
    <3>2. Reaches(toCollapse, pts[e[2]], whole(o))
      BY <1>7, <2>4 DEF AtTargets
    <3> QED BY <1>5, <2>1, <3>1, <3>2 DEF ReplacedFor
  <2> QED BY <1>3, <2>2, <2>3, <2>4 DEF AtTargets
<1>8. \A o : Collapsing1(o) => Collapsing1(o)'
  BY <1>4 DEF Collapsing1
<1>9. Ahead' = Ahead
  BY DEF Ahead
<1>10. WavePassed'
  <2>1. \A n \in Node : rep'[n] = n /\ n \notin Ahead' => \A o \in pts'[n] : AtTargets(n, o)'
    BY <1>2, <1>3, <1>7, <1>9 DEF WavePassed
  <2>2. \A n \in pwc' : rep'[n] = n /\ n \notin Ahead' => \A o \in pts'[n] : Collapsing1(o)'
    BY <1>2, <1>3, <1>6, <1>8, <1>9 DEF WavePassed
  <2>3. ASSUME NEW n \in pwc', rep'[n] = n, n \in current', NEW o \in pts'[n] \ pendingPts'
        PROVE  Collapsing1(o)'
    <3>1. CASE o \in pendingPts
      <4>1. o[1] = m
        BY <2>3, <3>1
      <4> QED BY <1>4, <4>1 DEF Collapsing1
    <3>2. CASE o \notin pendingPts
      <4>1. n \in pwc /\ rep[n] = n /\ n \in current /\ o \in pts[n] \ pendingPts
        BY <1>3, <1>6, <2>3, <3>2
      <4>2. Collapsing1(o)
        BY <1>2, <4>1 DEF WavePassed
      <4> QED BY <1>8, <4>2
    <3> QED BY <3>1, <3>2
  <2> QED BY <2>1, <2>2, <2>3 DEF WavePassed
<1>11. WaveOrder'
  <2>1. DirectEdges' = DirectEdges
    BY <1>3 DEF DirectEdges
  <2> QED BY <1>2, <1>9, <2>1 DEF WaveOrder
<1> QED BY <1>2, <1>10, <1>11

(* An object without fields is not collapsed.                              *)
LEMMA NothingCollapsedKeeps ==
  ASSUME FieldFormInv, FieldKeptInv, FieldWaveInv,
         NEW m, m \in insensitive \/ ~hasFields(m),
         toCollapse' = toCollapse \/ (~hasFields(m) /\ toCollapse' = toCollapse \ {m}),
         pendingPts' = pendingPts \/ \E o : o[1] = m /\ pendingPts' = pendingPts \ {o},
         UNCHANGED <<vars, fieldGraph, geps, waveEdges, current>>
  PROVE  FieldKeptInv' /\ FieldWaveInv'
<1>0. /\ UNCHANGED <<prog, phase, rep, subs, copyEdges, loadEdges, storeEdges, pts, propaPts>>
      /\ UNCHANGED <<loadCache, storeCache, worklist, nodeStack, pendLoads, pendStores>>
      /\ UNCHANGED <<pendParams, indCalls, reanalyze>>
      /\ UNCHANGED <<gepEdges, variantEdges, insensitive, pwc>>
  BY DEF vars, graph, caches, pending, fieldGraph
<1>1. \A o : Gone(o)' <=> Gone(o)
  BY <1>0 DEF Gone
<1>2. \A S, x : Reaches(toCollapse, S, x) => Reaches(toCollapse', S, x)
  BY DEF Reaches
<1>3. \A a, o : AtTargets(a, o) => AtTargets(a, o)'
  BY <1>0, <1>2 DEF AtTargets
<1>4. ArrivedInv'
  BY <1>0, <1>1, <1>3 DEF ArrivedInv, FieldKeptInv
<1>5. LoopFreeInv' /\ PwcAtReps'
  BY <1>0 DEF LoopFreeInv, PwcAtReps, FieldKeptInv
<1>6. FieldKept'
  <2>1. ConstraintsKept'
    BY <1>0 DEF FieldKeptInv, FieldKept, ConstraintsKept, AddrKept, CopyKept, LoadKept, StoreKept,
                CallKept, Joined
  <2>2. \A e : Sole(e)' <=> Sole(e)
    BY <1>0 DEF Sole
  <2>3. GepKept' /\ GepFrom' /\ VariantKept'
    BY <1>0, <2>2 DEF FieldKeptInv, FieldKept, GepKept, GepFrom, VariantKept
  <2> QED BY <2>1, <2>3 DEF FieldKept
<1>7. FieldsUsed'
  <2>1. \A f : Untouched(f)' <=> Untouched(f)
    BY <1>0 DEF Untouched
  <2> QED BY <1>0, <1>1, <2>1 DEF FieldKeptInv, FieldsUsed
<1>8. FieldCaches' /\ FieldLoads' /\ FieldStores'
  <2>1. \A o : Mixed(o)' <=> Mixed(o)
    BY <1>0 DEF Mixed
  <2>2. \A n : Unmerged(n)' <=> Unmerged(n)
    BY <1>0 DEF Unmerged
  <2> QED BY <1>0, <2>1, <2>2 DEF FieldKeptInv, FieldCaches, FieldLoads, FieldStores
<1>9. \A o : Collapsing1(o)' <=> Collapsing1(o)
  BY <1>0 DEF Collapsing1
<1>10. Ahead' = Ahead /\ DirectEdges' = DirectEdges
  BY <1>0 DEF Ahead, DirectEdges
<1>11. WavePassed => WavePassed'
  <2> SUFFICES ASSUME WavePassed PROVE WavePassed'
    OBVIOUS
  <2>1. \A o \in pendingPts \ pendingPts' : Collapsing1(o)'
    BY <1>0 DEF Collapsing1
  <2> QED BY <1>0, <1>3, <1>9, <1>10, <2>1 DEF WavePassed
<1>12. WaveOrder => WaveOrder'
  BY <1>0, <1>10 DEF WaveOrder
<1>13. FieldWaveInv'
  BY <1>0, <1>11, <1>12 DEF FieldWaveInv
<1> QED BY <1>4, <1>5, <1>6, <1>7, <1>8, <1>13 DEF FieldKeptInv

LEMMA CollapsePointeeKeeps ==
  ASSUME FieldFormInv, FieldFormInv', CollapsedInv', FieldKeptInv, FieldWaveInv,
         NEW o \in Obj, CollapsePointee(o)
  PROVE  FieldKeptInv' /\ FieldWaveInv'
<1>1. o \in pendingPts /\ UNCHANGED <<geps, waveEdges, current, toCollapse>>
  BY DEF CollapsePointee
<1>2. phase = "solve" /\ pendLoads = {} /\ pendStores = {}
  <2>1. ~Idle
    BY <1>1 DEF Idle
  <2> QED BY <2>1 DEF FieldFormInv, FieldPhaseInv
<1>3. CASE o[1] \in insensitive
  <2>1. pendingPts' = pendingPts \ {o} /\ UNCHANGED <<vars, fieldGraph>>
    BY <1>3 DEF CollapsePointee
  <2> QED BY <1>1, <1>3, <2>1, NothingCollapsedKeeps
<1>4. CASE o[1] \notin insensitive
  <2>1. /\ CollapseField(o[1], pendingPts \ {o})
        /\ UNCHANGED <<prog, phase, worklist, nodeStack, pendLoads, pendStores, pendParams, indCalls>>
    BY <1>4 DEF CollapsePointee
  <2>2. o[1] \in Mem
    BY ObjIsPair
  <2>3. toCollapse \subseteq insensitive
    BY DEF FieldFormInv, FieldTypeOK
  <2>4. CASE ~hasFields(o[1])
    <3>1. CollapseNothing(pendingPts \ {o})
      BY <2>1, <2>4 DEF CollapseField
    <3>2. pendingPts' = pendingPts \ {o} /\ UNCHANGED <<vars, fieldGraph>>
      BY <2>1, <3>1 DEF CollapseNothing, vars, graph, caches, pending, fieldGraph
    <3> QED BY <1>1, <2>4, <3>2, NothingCollapsedKeeps
  <2>5. CASE hasFields(o[1])
    <3>1. /\ CollapseUnseen(o[1])
          /\ reanalyze' = (reanalyze \/ Replaced(o[1]) # pts)
          /\ pendingPts \ {o} \subseteq pendingPts'
      BY <1>1, <1>4, <2>1, <2>2, <2>3, <2>5, CollapseUnseenWhen
    <3>2. PwcAtReps'
      BY <2>1, <2>2, <2>5, CollapsePwc DEF FieldKeptInv
    <3>3. FieldKeptInv'
      BY <1>1, <1>2, <2>1, <3>1, <3>2, CollapseKeepsAll
    <3>4. \A q \in pendingPts \ pendingPts' : q[1] = o[1]
      BY <3>1
    <3>5. FieldWaveInv'
      BY <1>1, <1>2, <2>1, <3>1, <3>4, CollapseKeepsWave
    <3> QED BY <3>3, <3>5
  <2> QED BY <2>4, <2>5
<1> QED BY <1>3, <1>4

LEMMA CollapseNextKeeps ==
  ASSUME FieldFormInv, FieldFormInv', CollapsedInv', FieldKeptInv, FieldWaveInv,
         NEW m \in Mem, CollapseNext(m)
  PROVE  FieldKeptInv' /\ FieldWaveInv'
<1>1. /\ m \in toCollapse /\ current = {} /\ pendingPts = {}
      /\ toCollapse' = toCollapse \ {m} /\ CollapseField(m, {})
      /\ UNCHANGED <<prog, phase, worklist, nodeStack, pendLoads, pendStores, pendParams, indCalls>>
      /\ UNCHANGED <<geps, waveEdges, current>>
  BY DEF CollapseNext
<1>2. phase = "solve" /\ pendLoads = {} /\ pendStores = {}
  <2>1. ~Idle
    BY <1>1 DEF Idle
  <2> QED BY <2>1 DEF FieldFormInv, FieldPhaseInv
<1>3. CASE ~hasFields(m)
  <2>1. CollapseNothing({})
    BY <1>1, <1>3 DEF CollapseField
  <2>2. pendingPts' = pendingPts /\ UNCHANGED <<vars, fieldGraph>>
    BY <1>1, <2>1 DEF CollapseNothing, vars, graph, caches, pending, fieldGraph
  <2> QED BY <1>1, <1>3, <2>2, NothingCollapsedKeeps
<1>4. CASE hasFields(m)
  <2>1. CollapseUnseen(m) /\ reanalyze' = (reanalyze \/ Replaced(m) # pts)
    BY <1>1, <1>4, CollapseUnseenWhen
  <2>2. PwcAtReps'
    BY <1>1, <1>4, CollapsePwc DEF FieldKeptInv
  <2>3. FieldKeptInv'
    BY <1>1, <1>2, <2>1, <2>2, CollapseKeepsAll
  <2>4. FieldWaveInv'
    BY <1>1, <1>2, <2>1, CollapseKeepsWave
  <2> QED BY <2>3, <2>4
<1> QED BY <1>3, <1>4

-----------------------------------------------------------------------------
LEMMA StartNodeKeepsAll ==
  ASSUME FieldFormInv, FieldKeptInv, NEW n \in Node, StartNode(n)
  PROVE  FieldKeptInv'
<1>0. /\ UNCHANGED <<prog, phase, rep, subs, copyEdges, loadEdges, storeEdges, pts, propaPts>>
      /\ UNCHANGED <<loadCache, storeCache, worklist, pendLoads, pendStores, pendParams, indCalls>>
      /\ UNCHANGED <<geps, gepEdges, variantEdges, insensitive, pwc, toCollapse>>
  BY DEF StartNode, fieldGraph
<1>1. ArrivedInv'
  BY <1>0 DEF FieldKeptInv, ArrivedInv, AtTargets, Gone
<1>2. LoopFreeInv' /\ PwcAtReps' /\ ConstraintsKept'
  BY <1>0 DEF FieldKeptInv, LoopFreeInv, PwcAtReps, FieldKept, ConstraintsKept, AddrKept, CopyKept,
              LoadKept, StoreKept, CallKept, Joined
<1>3. GepKept' /\ GepFrom' /\ VariantKept'
  BY <1>0 DEF FieldKeptInv, FieldKept, GepKept, GepFrom, VariantKept, Sole
<1>4. FieldsUsed'
  BY <1>0 DEF FieldKeptInv, FieldsUsed, Gone, Untouched
<1>5. FieldCaches' /\ FieldLoads' /\ FieldStores'
  BY <1>0 DEF FieldKeptInv, FieldCaches, FieldLoads, FieldStores, Unmerged, Mixed
<1> QED BY <1>1, <1>2, <1>3, <1>4, <1>5 DEF FieldKeptInv, FieldKept

(* The next node has no edge from one still to come.                       *)
LEMMA StartNodeWave ==
  ASSUME FieldFormInv, FieldKeptInv, FieldWaveInv, NEW n \in Node, StartNode(n)
  PROVE  FieldWaveInv'
<1>0. /\ UNCHANGED <<phase, rep, copyEdges, pts, worklist, pendParams, reanalyze>>
      /\ UNCHANGED <<gepEdges, variantEdges, insensitive, pwc, toCollapse>>
      /\ phase = "solve" /\ current = {} /\ n \in nodeStack
      /\ \A e \in waveEdges : e[2] = n => e[1] \notin nodeStack
      /\ nodeStack' = nodeStack \ {n} /\ current' = {n}
      /\ waveEdges' = IF nodeStack' = {} THEN {} ELSE waveEdges
      /\ pendingPts' = IF rep[n] \in pwc THEN collapseNodePts(pts[rep[n]], insensitive) ELSE {}
  BY DEF StartNode, fieldGraph, Idle
<1> SUFFICES ASSUME ~reanalyze' PROVE WavePassed' /\ WaveOrder' /\ pendParams' = {}
  BY <1>0 DEF FieldWaveInv
<1>1. WavePassed /\ WaveOrder /\ pendParams = {}
  BY <1>0 DEF FieldWaveInv
<1>2. Ahead' = Ahead /\ DirectEdges' = DirectEdges
  BY <1>0 DEF Ahead, DirectEdges
<1>3. \A a, o : AtTargets(a, o)' <=> AtTargets(a, o)
  BY <1>0 DEF AtTargets
<1>4. \A o : Collapsing1(o)' <=> Collapsing1(o)
  BY <1>0 DEF Collapsing1
<1>5. ASSUME n \in pwc, rep[n] = n, NEW o \in pts[n], o \notin pendingPts' PROVE Collapsing1(o)
  BY <1>0, <1>5 DEF collapseNodePts, Collapsing1
<1>6. WavePassed'
  BY <1>0, <1>1, <1>2, <1>3, <1>4, <1>5 DEF WavePassed
<1>7. WaveOrder'
  BY <1>0, <1>1, <1>2 DEF WaveOrder
<1> QED BY <1>0, <1>1, <1>6, <1>7

-----------------------------------------------------------------------------
(* What handleCopyGep does to the points-to sets, and to what is marked.   *)
LEMMA HandleCopyGepSets ==
  ASSUME FieldFormInv, NEW n \in Node, HandleCopyGep(n)
  PROVE  /\ \A m \in Node : pts[m] \subseteq pts'[m]
         /\ \A m \in Node : pts'[m] = pts[m] \/ <<n, m>> \in DirectEdges
         /\ worklist \subseteq worklist'
         /\ \A m \in Node : m \notin worklist' => pts'[m] = pts[m]
         /\ \E new : /\ new \cap insensitive = {}
                     /\ insensitive' = insensitive \cup new /\ toCollapse' = toCollapse \cup new
         /\ rep[n] = n => propaPts'[n] = pts[n]
<1>1. pts \in Assignment /\ propaPts \in Assignment /\ gepEdges \subseteq Gep
  BY DEF FieldFormInv, FieldTypeOK, TypeOK
<1>2. CASE rep[n] # n
  <2>1. UNCHANGED <<pts, worklist, insensitive, toCollapse>>
    BY <1>2 DEF HandleCopyGep
  <2>2. {} \cap insensitive = {} /\ insensitive' = insensitive \cup {} /\ toCollapse' = toCollapse \cup {}
    BY <2>1
  <2> QED BY <1>2, <2>1, <2>2
<1>3. CASE rep[n] = n
  <2> DEFINE diff == pts[n] \ propaPts[n]
  <2>1. /\ propaPts' = [propaPts EXCEPT ![n] = pts[n]]
        /\ pts' = [m \in Node |-> pts[m] \cup Handed(n, m, diff)]
        /\ worklist' = worklist \cup {m \in Node : ~(Handed(n, m, diff) \subseteq pts[m])}
        /\ MarkVariant({o \in diff : /\ o[1] \notin BlkOrConstant
                                     /\ \E e \in variantEdges : e[1] = n})
    BY <1>3 DEF HandleCopyGep
  <2>2. ASSUME NEW m \in Node, <<n, m>> \notin DirectEdges PROVE Handed(n, m, diff) = {}
    <3>1. <<n, m>> \notin copyEdges /\ <<n, m>> \notin variantEdges
      BY <2>2 DEF DirectEdges
    <3>2. {f \in gepEdges : f[1] = n /\ f[2] = m} = {}
      BY <2>2 DEF DirectEdges, Pairs
    <3> QED BY <3>1, <3>2 DEF Handed
  <2>3. \A m \in Node : pts'[m] = pts[m] \cup Handed(n, m, diff)
    BY <2>1
  <2>4. \A m \in Node : m \notin worklist' => Handed(n, m, diff) \subseteq pts[m]
    BY <2>1
  <2>5. \E new : /\ new \cap insensitive = {}
                 /\ insensitive' = insensitive \cup new /\ toCollapse' = toCollapse \cup new
    <3> DEFINE D == {o \in diff : /\ o[1] \notin BlkOrConstant
                                  /\ \E e \in variantEdges : e[1] = n}
               new == {o[1] : o \in D} \ insensitive
    <3>1. /\ new \cap insensitive = {}
          /\ insensitive' = insensitive \cup new /\ toCollapse' = toCollapse \cup new
      BY <2>1 DEF MarkVariant
    <3> HIDE DEF new
    <3> QED BY <3>1
  <2>6. propaPts'[n] = pts[n]
    BY <1>1, <2>1 DEF Assignment
  <2>7. \A m \in Node : pts'[m] = pts[m] \/ <<n, m>> \in DirectEdges
    BY <2>2, <2>3
  <2>8. \A m \in Node : m \notin worklist' => pts'[m] = pts[m]
    BY <2>3, <2>4
  <2>9. worklist \subseteq worklist' /\ \A m \in Node : pts[m] \subseteq pts'[m]
    BY <2>1, <2>3
  <2> QED BY <2>5, <2>6, <2>7, <2>8, <2>9
<1> QED BY <1>2, <1>3

(* What is new in the propagated set has been handed on.                   *)
LEMMA HandleCopyGepHands ==
  ASSUME FieldFormInv, NEW n \in Node, HandleCopyGep(n), NEW a \in Node, NEW o \in propaPts'[a]
  PROVE  \/ o \in propaPts[a]
         \/ /\ a = n /\ o \in pts[n]
            /\ \A e \in copyEdges : e[1] = n => o \in pts'[e[2]]
            /\ \A e \in gepEdges : e[1] = n => ShiftIn(insensitive, o, e[3]) \in pts'[e[2]]
            /\ \A e \in variantEdges : e[1] = n => whole(o) \in pts'[e[2]]
<1>1. /\ pts \in Assignment /\ propaPts \in Assignment /\ gepEdges \subseteq Gep
      /\ copyEdges \subseteq Edge /\ variantEdges \subseteq Edge
  BY DEF FieldFormInv, FieldTypeOK, TypeOK
<1>2. CASE rep[n] # n
  BY <1>2 DEF HandleCopyGep
<1>3. CASE rep[n] = n
  <2> DEFINE diff == pts[n] \ propaPts[n]
  <2>1. /\ propaPts' = [propaPts EXCEPT ![n] = pts[n]]
        /\ pts' = [m \in Node |-> pts[m] \cup Handed(n, m, diff)]
    BY <1>3 DEF HandleCopyGep
  <2>2. CASE a # n
    BY <1>1, <2>1, <2>2 DEF Assignment
  <2>3. CASE a = n /\ o \notin propaPts[n]
    <3>1. o \in diff /\ o \in pts[n]
      BY <1>1, <2>1, <2>3 DEF Assignment
    <3>2. \A m \in Node : Handed(n, m, diff) \subseteq pts'[m]
      BY <2>1
    <3>3. ASSUME NEW e \in copyEdges, e[1] = n PROVE o \in pts'[e[2]]
      <4>1. e[2] \in Node /\ <<n, e[2]>> \in copyEdges
        BY <1>1, <3>3 DEF Edge
      <4>2. o \in Handed(n, e[2], diff)
        BY <3>1, <4>1 DEF Handed
      <4> QED BY <3>2, <4>1, <4>2
    <3>4. ASSUME NEW e \in gepEdges, e[1] = n PROVE ShiftIn(insensitive, o, e[3]) \in pts'[e[2]]
      <4>1. e[2] \in Node
        BY <1>1 DEF Gep
      <4>2. FieldAt(o, e[3]) \in {FieldAt(x, e[3]) : x \in diff}
        BY <3>1
      <4>3. FieldAt(o, e[3]) \in Handed(n, e[2], diff)
        BY <3>4, <4>2 DEF Handed
      <4> QED BY <3>2, <4>1, <4>3, FieldAtIsShift
    <3>5. ASSUME NEW e \in variantEdges, e[1] = n PROVE whole(o) \in pts'[e[2]]
      <4>1. e[2] \in Node /\ <<n, e[2]>> \in variantEdges
        BY <1>1, <3>5 DEF Edge
      <4>2. whole(o) \in Handed(n, e[2], diff)
        BY <3>1, <4>1 DEF Handed
      <4> QED BY <3>2, <4>1, <4>2
    <3> QED BY <2>3, <3>1, <3>3, <3>4, <3>5
  <2> QED BY <2>2, <2>3
<1> QED BY <1>2, <1>3

(* Where objects had arrived they still have, or the wholes will.          *)
LEMMA GrowthKeepsTargets ==
  ASSUME FieldFormInv, NEW new, insensitive' = insensitive \cup new, toCollapse' = toCollapse \cup new,
         \A m \in Node : pts[m] \subseteq pts'[m],
         UNCHANGED <<copyEdges, gepEdges, variantEdges, pendParams>>,
         NEW a, NEW o \in Obj, AtTargets(a, o)
  PROVE  AtTargets(a, o)'
<1>1. gepEdges \subseteq Gep /\ copyEdges \subseteq Edge /\ variantEdges \subseteq Edge
  BY DEF FieldFormInv, FieldTypeOK, TypeOK
<1>2. ASSUME NEW e \in gepEdges, e[1] = a
      PROVE  Reaches(toCollapse', pts'[e[2]], ShiftIn(insensitive', o, e[3]))
  <2>1. pts[e[2]] \subseteq pts'[e[2]]
    BY <1>1 DEF Gep
  <2>2. Reaches(toCollapse, pts[e[2]], ShiftIn(insensitive, o, e[3]))
    BY <1>2 DEF AtTargets
  <2> QED BY <2>1, <2>2, MarkKeepsReach
<1>3. ASSUME NEW e \in variantEdges, e[1] = a
      PROVE  Reaches(toCollapse', pts'[e[2]], whole(o))
  <2>1. pts[e[2]] \subseteq pts'[e[2]]
    BY <1>1 DEF Edge
  <2>2. Reaches(toCollapse, pts[e[2]], whole(o))
    BY <1>3 DEF AtTargets
  <2> QED BY <2>1, <2>2, MarkKeepsReach
<1>4. \A e \in copyEdges \ pendParams : e[1] = a => o \in pts'[e[2]]
  BY <1>1 DEF AtTargets, Edge
<1> QED BY <1>2, <1>3, <1>4 DEF AtTargets

LEMMA HandleCopyGepArrived ==
  ASSUME FieldFormInv, ArrivedInv, NEW n \in Node, HandleCopyGep(n)
  PROVE  ArrivedInv'
<1>1. PICK new : /\ new \cap insensitive = {}
                 /\ insensitive' = insensitive \cup new /\ toCollapse' = toCollapse \cup new
  BY HandleCopyGepSets
<1>2. /\ \A m \in Node : pts[m] \subseteq pts'[m]
      /\ UNCHANGED <<copyEdges, gepEdges, variantEdges, pendParams>>
  BY HandleCopyGepSets DEF HandleCopyGep
<1>3. pts \in Assignment /\ propaPts \in Assignment
  BY DEF FieldFormInv, FieldTypeOK, TypeOK
<1> SUFFICES ASSUME NEW a \in Node, NEW o \in propaPts'[a], ~Gone(o)'
             PROVE  o \in pts'[a] /\ AtTargets(a, o)'
  BY DEF ArrivedInv
<1>4. ~Gone(o)
  BY <1>1 DEF Gone
<1>5. CASE o \in propaPts[a]
  <2>1. o \in pts[a] /\ AtTargets(a, o) /\ o \in Obj
    BY <1>3, <1>4, <1>5 DEF ArrivedInv, Assignment
  <2> QED BY <1>1, <1>2, <2>1, GrowthKeepsTargets
<1>6. CASE o \notin propaPts[a]
  <2>1. /\ a = n /\ o \in pts[n]
        /\ \A e \in copyEdges : e[1] = n => o \in pts'[e[2]]
        /\ \A e \in gepEdges : e[1] = n => ShiftIn(insensitive, o, e[3]) \in pts'[e[2]]
        /\ \A e \in variantEdges : e[1] = n => whole(o) \in pts'[e[2]]
    BY <1>6, HandleCopyGepHands
  <2>2. o \in Obj
    BY <1>3, <2>1 DEF Assignment
  <2>3. \A S, x : x \in S => Reaches(toCollapse, S, x)
    BY DEF Reaches
  <2>4. ASSUME NEW e \in gepEdges, e[1] = n
        PROVE  Reaches(toCollapse', pts'[e[2]], ShiftIn(insensitive', o, e[3]))
    <3>1. Reaches(toCollapse, pts'[e[2]], ShiftIn(insensitive, o, e[3]))
      BY <2>1, <2>3, <2>4
    <3> QED BY <1>1, <2>2, <3>1, MarkKeepsReach
  <2>5. ASSUME NEW e \in variantEdges, e[1] = n
        PROVE  Reaches(toCollapse', pts'[e[2]], whole(o))
    BY <2>1, <2>5 DEF Reaches
  <2>6. AtTargets(n, o)'
    BY <1>2, <2>1, <2>4, <2>5 DEF AtTargets
  <2> QED BY <1>2, <2>1, <2>6
<1> QED BY <1>5, <1>6

LEMMA HandleCopyGepKeepsAll ==
  ASSUME FieldFormInv, FieldKeptInv, NEW n \in Node, HandleCopyGep(n)
  PROVE  FieldKeptInv'
<1>0. /\ UNCHANGED <<prog, phase, rep, subs, copyEdges, loadEdges, storeEdges, loadCache, storeCache>>
      /\ UNCHANGED <<pendLoads, pendStores, pendParams, indCalls, geps, gepEdges, variantEdges, pwc>>
      /\ current = {n}
  BY DEF HandleCopyGep
<1>1. /\ \A m \in Node : pts[m] \subseteq pts'[m]
      /\ \A m \in Node : pts'[m] = pts[m] \/ <<n, m>> \in DirectEdges
      /\ worklist \subseteq worklist'
      /\ \A m \in Node : m \notin worklist' => pts'[m] = pts[m]
  BY HandleCopyGepSets
<1>2. PICK new : /\ new \cap insensitive = {}
                 /\ insensitive' = insensitive \cup new /\ toCollapse' = toCollapse \cup new
  BY HandleCopyGepSets
<1>3. phase # "addr"
  <2>1. ~Idle
    BY <1>0 DEF Idle
  <2> QED BY <2>1 DEF FieldFormInv, FieldPhaseInv
<1>4. ArrivedInv'
  BY HandleCopyGepArrived DEF FieldKeptInv
<1>5. LoopFreeInv' /\ PwcAtReps'
  BY <1>0 DEF FieldKeptInv, LoopFreeInv, PwcAtReps
<1>6. FieldKept'
  <2>1. ConstraintsKept'
    BY <1>0, <1>1, <1>3, FieldFormIsForm, GrowthKeeps DEF FieldKeptInv, FieldKept
  <2>2. GepKept' /\ GepFrom' /\ VariantKept'
    BY <1>0 DEF FieldKeptInv, FieldKept, GepKept, GepFrom, VariantKept, Sole
  <2> QED BY <2>1, <2>2 DEF FieldKept
<1>7. FieldsUsed'
  <2> SUFFICES ASSUME NEW f \in Obj, isField(f), hasFields(f[1]), ~Gone(f)',
                      \A k \in Node : f \notin pts'[k]
               PROVE  Untouched(f)'
    BY DEF FieldsUsed
  <2>1. ~Gone(f)
    BY <1>2 DEF Gone
  <2>2. Untouched(f)
    BY <1>1, <2>1 DEF FieldKeptInv, FieldsUsed
  <2>3. f \in Node /\ <<n, f>> \notin DirectEdges
    BY <2>2, GraphAssumption DEF Untouched, DirectEdges, Pairs
  <2>4. pts'[f] = pts[f]
    BY <1>1, <2>3
  <2> QED BY <1>0, <2>2, <2>4 DEF Untouched
<1>8. FieldCaches'
  BY <1>0 DEF FieldKeptInv, FieldCaches
<1>9. \A e \in loadEdges \cup storeEdges : e[1] \in Node /\ e[2] \in Node
  BY EdgeEnds
<1>10. /\ \A o : Mixed(o) => Mixed(o)'
       /\ \A k : Unmerged(k)' <=> Unmerged(k)
  BY <1>0, <1>2 DEF Mixed, Unmerged
<1>11. FieldLoads'
  BY <1>0, <1>1, <1>9, <1>10 DEF FieldKeptInv, FieldLoads
<1>12. FieldStores'
  BY <1>0, <1>1, <1>9, <1>10 DEF FieldKeptInv, FieldStores
<1> QED BY <1>4, <1>5, <1>6, <1>7, <1>8, <1>11, <1>12 DEF FieldKeptInv

(* The nodes that grow are still ahead.                                    *)
LEMMA HandleCopyGepWave ==
  ASSUME FieldFormInv, CollapsedInv, FieldKeptInv, FieldKeptInv', FieldWaveInv,
         NEW n \in Node, HandleCopyGep(n)
  PROVE  FieldWaveInv'
<1>0. /\ UNCHANGED <<phase, rep, copyEdges, nodeStack, pendParams, reanalyze>>
      /\ UNCHANGED <<gepEdges, variantEdges, pwc, waveEdges>>
      /\ current = {n} /\ pendingPts = {} /\ current' = {}
  BY DEF HandleCopyGep
<1>1. phase = "solve"
  <2>1. ~Idle
    BY <1>0 DEF Idle
  <2> QED BY <2>1 DEF FieldFormInv, FieldPhaseInv
<1> SUFFICES ASSUME ~reanalyze' PROVE WavePassed' /\ WaveOrder' /\ pendParams' = {}
  BY <1>0, <1>1 DEF FieldWaveInv
<1>2. WavePassed /\ WaveOrder /\ pendParams = {}
  BY <1>0, <1>1 DEF FieldWaveInv
<1>3. /\ \A m \in Node : pts[m] \subseteq pts'[m]
      /\ \A m \in Node : pts'[m] = pts[m] \/ <<n, m>> \in DirectEdges
      /\ rep[n] = n => propaPts'[n] = pts[n]
  BY HandleCopyGepSets
<1>4. PICK new : /\ new \cap insensitive = {}
                 /\ insensitive' = insensitive \cup new /\ toCollapse' = toCollapse \cup new
  BY HandleCopyGepSets
<1>5. Ahead = nodeStack \cup {n} /\ Ahead' = nodeStack /\ DirectEdges' = DirectEdges
  BY <1>0 DEF Ahead, DirectEdges
<1>6. <<n, n>> \notin DirectEdges
  BY DEF FieldKeptInv, LoopFreeInv, DirectEdges, Pairs
<1>7. \A m \in Node : m \notin nodeStack => pts'[m] = pts[m]
  <2> SUFFICES ASSUME NEW m \in Node, m \notin nodeStack, <<n, m>> \in DirectEdges PROVE FALSE
    BY <1>3
  <2>1. m # n
    BY <1>6
  <2>2. m \notin Ahead
    BY <1>5, <2>1
  <2> QED BY <1>2, <1>5, <2>2 DEF WaveOrder
<1>8. pts \in Assignment /\ pwc \subseteq Node
  BY DEF FieldFormInv, FieldTypeOK, TypeOK
<1>9. ASSUME NEW k \in Node, rep[k] = k, k \notin nodeStack, NEW o \in pts[k] PROVE AtTargets(k, o)'
  <2>1. o \in Obj
    BY <1>8 DEF Assignment
  <2>2. CASE k # n
    <3>1. AtTargets(k, o)
      BY <1>2, <1>5, <1>9, <2>2 DEF WavePassed
    <3> QED BY <1>0, <1>3, <1>4, <2>1, <3>1, GrowthKeepsTargets
  <2>3. CASE k = n
    <3>1. o \in propaPts'[n]
      BY <1>3, <1>9, <2>3
    <3>2. ~Gone(o)
      <4> SUFFICES ASSUME Gone(o) PROVE FALSE
        OBVIOUS
      <4>1. o \in fields(o[1])
        BY <2>1 DEF Gone, fields
      <4> QED BY <1>9, <4>1 DEF Gone, CollapsedInv
    <3>3. ~Gone(o)'
      BY <1>4, <3>2 DEF Gone
    <3> QED BY <2>3, <3>1, <3>3 DEF FieldKeptInv, ArrivedInv
  <2> QED BY <2>2, <2>3
<1>10. \A o : Collapsing1(o) => Collapsing1(o)'
  BY <1>4 DEF Collapsing1
<1>11. WavePassed'
  <2>1. \A k \in Node : rep'[k] = k /\ k \notin Ahead' => \A o \in pts'[k] : AtTargets(k, o)'
    BY <1>0, <1>5, <1>7, <1>9
  <2>2. ASSUME NEW k \in pwc, rep[k] = k, k \notin nodeStack, NEW o \in pts'[k] PROVE Collapsing1(o)'
    <3>1. o \in pts[k]
      BY <1>7, <1>8, <2>2
    <3>2. Collapsing1(o)
      <4>1. CASE k = n
        BY <1>0, <1>2, <2>2, <3>1, <4>1 DEF WavePassed
      <4>2. CASE k # n
        BY <1>2, <1>5, <1>8, <2>2, <3>1, <4>2 DEF WavePassed
      <4> QED BY <4>1, <4>2
    <3> QED BY <1>10, <3>2
  <2>3. \A k \in pwc' : rep'[k] = k /\ k \notin Ahead' => \A o \in pts'[k] : Collapsing1(o)'
    BY <1>0, <1>5, <2>2
  <2> QED BY <1>0, <2>1, <2>3 DEF WavePassed
<1>12. WaveOrder'
  <2>1. ASSUME NEW e \in DirectEdges, e[2] \notin nodeStack PROVE e[1] \notin nodeStack
    <3>1. CASE e[2] = n
      BY <1>0, <1>2, <3>1 DEF WaveOrder
    <3>2. CASE e[2] # n
      BY <1>2, <1>5, <2>1, <3>2 DEF WaveOrder
    <3> QED BY <3>1, <3>2
  <2> QED BY <1>0, <1>2, <1>5, <2>1 DEF WaveOrder
<1> QED BY <1>0, <1>2, <1>11, <1>12

-----------------------------------------------------------------------------
(* Between waves.  The copies E are added, what their sources point to     *)
(* flows along them at once or when they are connected.                    *)
CopiesAdded(E) ==
  /\ E \subseteq Edge /\ copyEdges' = copyEdges \cup E
  /\ \A e \in E : e[1] # e[2]
  /\ \A f \in Obj : isField(f) /\ Untouched(f) /\ (\A n \in Node : f \notin pts[n]) =>
       \A e \in E : e[1] # f /\ e[2] # f
  /\ \A e \in copyEdges' \ pendParams' :
       e \in copyEdges \ pendParams \/ pts[e[1]] \subseteq pts'[e[2]]
  /\ \A n \in Node : pts[n] \subseteq pts'[n]
  /\ \A n \in Node : (\A e \in copyEdges' : e[2] # n) => pts'[n] = pts[n]
  /\ UNCHANGED <<propaPts, rep, subs, loadEdges, storeEdges>>
  /\ UNCHANGED <<geps, gepEdges, variantEdges, insensitive, pwc, toCollapse>>

LEMMA AddedKeep ==
  ASSUME FieldFormInv, FieldKeptInv, NEW E, CopiesAdded(E)
  PROVE  /\ ArrivedInv' /\ LoopFreeInv' /\ PwcAtReps'
         /\ GepKept' /\ GepFrom' /\ VariantKept' /\ FieldsUsed'
<1>0. /\ UNCHANGED <<propaPts, rep, subs, loadEdges, storeEdges>>
      /\ UNCHANGED <<geps, gepEdges, variantEdges, insensitive, pwc, toCollapse>>
      /\ \A n \in Node : pts[n] \subseteq pts'[n]
      /\ copyEdges' = copyEdges \cup E
  BY DEF CopiesAdded
<1>1. gepEdges \subseteq Gep /\ copyEdges \subseteq Edge /\ variantEdges \subseteq Edge
  BY DEF FieldFormInv, FieldTypeOK, TypeOK
<1>2. \A o : Gone(o)' <=> Gone(o)
  BY <1>0 DEF Gone
<1>3. \A S, T, x : S \subseteq T /\ Reaches(toCollapse, S, x) => Reaches(toCollapse, T, x)
  BY DEF Reaches
<1>4. ASSUME NEW a \in Node, NEW o \in pts[a], AtTargets(a, o) PROVE AtTargets(a, o)'
  <2>1. ASSUME NEW e \in copyEdges' \ pendParams', e[1] = a PROVE o \in pts'[e[2]]
    <3>1. CASE e \in copyEdges \ pendParams
      BY <1>0, <1>1, <1>4, <2>1, <3>1 DEF AtTargets, Edge
    <3>2. CASE pts[e[1]] \subseteq pts'[e[2]]
      BY <1>4, <2>1, <3>2
    <3> QED BY <3>1, <3>2 DEF CopiesAdded
  <2>2. ASSUME NEW e \in gepEdges, e[1] = a
        PROVE  Reaches(toCollapse, pts'[e[2]], ShiftIn(insensitive, o, e[3]))
    BY <1>0, <1>1, <1>3, <1>4, <2>2 DEF AtTargets, Gep
  <2>3. ASSUME NEW e \in variantEdges, e[1] = a
        PROVE  Reaches(toCollapse, pts'[e[2]], whole(o))
    BY <1>0, <1>1, <1>3, <1>4, <2>3 DEF AtTargets, Edge
  <2> QED BY <1>0, <2>1, <2>2, <2>3 DEF AtTargets
<1>5. ArrivedInv'
  BY <1>0, <1>2, <1>4 DEF FieldKeptInv, ArrivedInv
<1>6. LoopFreeInv' /\ PwcAtReps'
  BY <1>0 DEF FieldKeptInv, LoopFreeInv, PwcAtReps, CopiesAdded
<1>7. GepKept' /\ GepFrom' /\ VariantKept'
  BY <1>0 DEF FieldKeptInv, FieldKept, GepKept, GepFrom, VariantKept, Sole
<1>8. FieldsUsed'
  <2> SUFFICES ASSUME NEW f \in Obj, isField(f), hasFields(f[1]), ~Gone(f)',
                      \A k \in Node : f \notin pts'[k]
               PROVE  Untouched(f)'
    BY DEF FieldsUsed
  <2>1. Untouched(f) /\ \A k \in Node : f \notin pts[k]
    BY <1>0, <1>2 DEF FieldKeptInv, FieldsUsed
  <2>2. \A e \in E : e[1] # f /\ e[2] # f
    BY <2>1 DEF CopiesAdded
  <2>3. \A e \in copyEdges' : e[1] # f /\ e[2] # f
    BY <1>0, <2>1, <2>2 DEF Untouched
  <2>4. f \in Node
    BY GraphAssumption
  <2>5. pts'[f] = pts[f]
    BY <2>3, <2>4 DEF CopiesAdded
  <2> QED BY <1>0, <2>1, <2>3, <2>5 DEF Untouched
<1> QED BY <1>5, <1>6, <1>7, <1>8

(* What only a store or load edge, or a param, could do to a field.        *)
LEMMA LoadCopiesAdded ==
  ASSUME FieldFormInv, NEW e \in Edge, HandleLoad(e), UNCHANGED fieldVars
  PROVE  CopiesAdded(LoadCopies(pts[e[1]] \ loadCache[e], e[2]))
<1> DEFINE S == pts[e[1]] \ loadCache[e]
           E == LoadCopies(S, e[2])
<1>1. /\ e \in loadEdges /\ e[1] \in Node /\ e[2] \in Node /\ rep[e[2]] = e[2] /\ S \subseteq Obj
      /\ AddCopyEdges(E)
  BY FieldFormIsForm, HandleLoadStep
<1>2. E \subseteq Edge
  BY <1>1, FieldFormIsForm, NewCopies
<1>3. /\ \A n \in Node : pts[n] \subseteq pts'[n]
      /\ \A d \in E : pts[d[1]] \subseteq pts'[d[2]]
      /\ copyEdges' = copyEdges \cup E
  BY <1>1, <1>2, FieldFormIsForm, AddedCopiesArrive
<1>4. /\ UNCHANGED <<propaPts, rep, subs, loadEdges, storeEdges, pendParams>>
      /\ UNCHANGED <<geps, gepEdges, variantEdges, insensitive, pwc, toCollapse>>
  BY DEF HandleLoad, fieldVars, fieldGraph
<1>5. \A d \in E : d[1] # d[2]
  BY DEF LoadCopies, NoLoops
<1>6. ASSUME NEW f \in Obj, Untouched(f), \A n \in Node : f \notin pts[n], NEW d \in E
      PROVE  d[1] # f /\ d[2] # f
  <2>1. PICK o \in S : d = <<rep[o], e[2]>>
    BY DEF LoadCopies, NoLoops
  <2>2. d[2] # f
    BY <1>1, <1>6, <2>1 DEF Untouched
  <2>3. o # f /\ o \in Node /\ f \in Node
    BY <1>1, <1>6, <2>1, GraphAssumption
  <2>4. rep[o] # f
    BY <1>6, <2>3, UntouchedAlone
  <2> QED BY <2>1, <2>2, <2>4
<1>7. ASSUME NEW n \in Node, \A d \in copyEdges' : d[2] # n PROVE pts'[n] = pts[n]
  <2>1. \A d \in E : d[2] # n
    BY <1>3, <1>7
  <2>2. pts'[n] = pts[n] \cup UNION {pts[d[1]] : d \in {f \in E : f[2] = n}}
    BY <1>1 DEF AddCopyEdges
  <2> QED BY <2>1, <2>2
<1>8. \A d \in copyEdges' \ pendParams' : d \in copyEdges \ pendParams \/ pts[d[1]] \subseteq pts'[d[2]]
  BY <1>3, <1>4
<1> HIDE DEF E
<1> QED BY <1>2, <1>3, <1>4, <1>5, <1>6, <1>7, <1>8 DEF CopiesAdded, E

LEMMA StoreCopiesAdded ==
  ASSUME FieldFormInv, NEW e \in Edge, HandleStore(e), UNCHANGED fieldVars
  PROVE  CopiesAdded(StoreCopies(pts[e[2]] \ storeCache[e], e[1]))
<1> DEFINE S == pts[e[2]] \ storeCache[e]
           E == StoreCopies(S, e[1])
<1>1. /\ e \in storeEdges /\ e[1] \in Node /\ e[2] \in Node /\ rep[e[1]] = e[1] /\ S \subseteq Obj
      /\ AddCopyEdges(E)
  BY FieldFormIsForm, HandleStoreStep
<1>2. E \subseteq Edge
  BY <1>1, FieldFormIsForm, NewCopies
<1>3. /\ \A n \in Node : pts[n] \subseteq pts'[n]
      /\ \A d \in E : pts[d[1]] \subseteq pts'[d[2]]
      /\ copyEdges' = copyEdges \cup E
  BY <1>1, <1>2, FieldFormIsForm, AddedCopiesArrive
<1>4. /\ UNCHANGED <<propaPts, rep, subs, loadEdges, storeEdges, pendParams>>
      /\ UNCHANGED <<geps, gepEdges, variantEdges, insensitive, pwc, toCollapse>>
  BY DEF HandleStore, fieldVars, fieldGraph
<1>5. \A d \in E : d[1] # d[2]
  BY DEF StoreCopies, NoLoops
<1>6. ASSUME NEW f \in Obj, Untouched(f), \A n \in Node : f \notin pts[n], NEW d \in E
      PROVE  d[1] # f /\ d[2] # f
  <2>1. PICK o \in S : d = <<e[1], rep[o]>>
    BY DEF StoreCopies, NoLoops
  <2>2. d[1] # f
    BY <1>1, <1>6, <2>1 DEF Untouched
  <2>3. o # f /\ o \in Node /\ f \in Node
    BY <1>1, <1>6, <2>1, GraphAssumption
  <2>4. rep[o] # f
    BY <1>6, <2>3, UntouchedAlone
  <2> QED BY <2>1, <2>2, <2>4
<1>7. ASSUME NEW n \in Node, \A d \in copyEdges' : d[2] # n PROVE pts'[n] = pts[n]
  <2>1. \A d \in E : d[2] # n
    BY <1>3, <1>7
  <2>2. pts'[n] = pts[n] \cup UNION {pts[d[1]] : d \in {f \in E : f[2] = n}}
    BY <1>1 DEF AddCopyEdges
  <2> QED BY <2>1, <2>2
<1>8. \A d \in copyEdges' \ pendParams' : d \in copyEdges \ pendParams \/ pts[d[1]] \subseteq pts'[d[2]]
  BY <1>3, <1>4
<1> HIDE DEF E
<1> QED BY <1>2, <1>3, <1>4, <1>5, <1>6, <1>7, <1>8 DEF CopiesAdded, E

LEMMA ParamCopiesAdded ==
  ASSUME FieldFormInv, UpdateCallGraph, UNCHANGED fieldVars
  PROVE  CopiesAdded(pendParams')
<1>1. PICK C \in NewCalls(prog, getPts, indCalls) :
        /\ pendParams' = ParamCopies(prog, C, rep) \ copyEdges
        /\ copyEdges' = copyEdges \cup pendParams'
  BY DEF UpdateCallGraph
<1>2. /\ UNCHANGED <<propaPts, rep, subs, loadEdges, storeEdges, pts>>
      /\ UNCHANGED <<geps, gepEdges, variantEdges, insensitive, pwc, toCollapse>>
      /\ phase = "solve"
  BY DEF UpdateCallGraph, fieldVars, fieldGraph, caches
<1>3. pendParams = {}
  BY <1>2 DEF FieldFormInv, FieldPhaseInv, PhaseInv
<1>4. prog \in Programs /\ C \subseteq prog.callee
  BY DEF FieldFormInv, FieldTypeOK, TypeOK, NewCalls, Callable
<1>5. ASSUME NEW d \in pendParams'
      PROVE  \E x \in Node, y \in Node : d = <<rep[x], rep[y]>> /\ d[1] # d[2] /\ Named(x) /\ Named(y)
  <2>1. PICK e \in UNION {prog.params[c] : c \in C} : d = <<rep[e[1]], rep[e[2]]>> /\ d[1] # d[2]
    BY <1>1 DEF ParamCopies, NoLoops
  <2>2. PICK c \in C : e \in prog.params[c]
    BY <2>1
  <2>3. e[1] \in Node /\ e[2] \in Node
    BY <1>4, <2>2, ProgramFields DEF Edge
  <2>4. Named(e[1]) /\ Named(e[2])
    BY <1>4, <2>2, FieldAssumption
  <2> QED BY <2>1, <2>3, <2>4
<1>6. pendParams' \subseteq Edge /\ \A d \in pendParams' : d[1] # d[2]
  BY <1>5, RepIsNode DEF Edge
<1>7. ASSUME NEW f \in Obj, isField(f), Untouched(f), NEW d \in pendParams'
      PROVE  d[1] # f /\ d[2] # f
  <2>1. PICK x \in Node, y \in Node : d = <<rep[x], rep[y]>> /\ Named(x) /\ Named(y)
    BY <1>5
  <2>2. f \in Node /\ x # f /\ y # f
    BY <1>7, <2>1, GraphAssumption DEF Named
  <2>3. rep[x] # f /\ rep[y] # f
    BY <1>7, <2>1, <2>2, UntouchedAlone
  <2> QED BY <2>1, <2>3
<1> QED BY <1>1, <1>2, <1>3, <1>6, <1>7 DEF CopiesAdded

LEMMA ConnectParamAdded ==
  ASSUME FieldFormInv, NEW e \in Edge, ConnectParam(e), UNCHANGED fieldVars
  PROVE  CopiesAdded({})
<1>1. /\ e \in pendParams /\ pendParams' = pendParams \ {e}
      /\ pts' = [pts EXCEPT ![e[2]] = @ \cup pts[e[1]]]
      /\ UNCHANGED <<propaPts, rep, subs, copyEdges, loadEdges, storeEdges>>
      /\ UNCHANGED <<geps, gepEdges, variantEdges, insensitive, pwc, toCollapse>>
  BY DEF ConnectParam, fieldVars, fieldGraph, graph
<1>2. pts \in Assignment /\ e[1] \in Node /\ e[2] \in Node /\ e \in copyEdges
  BY <1>1 DEF FieldFormInv, FieldTypeOK, TypeOK, FieldPhaseInv, PhaseInv, Edge
<1>3. \A n \in Node : pts'[n] = IF n = e[2] THEN pts[n] \cup pts[e[1]] ELSE pts[n]
  BY <1>1, <1>2 DEF Assignment
<1>4. \A d \in copyEdges' \ pendParams' : d \in copyEdges \ pendParams \/ pts[d[1]] \subseteq pts'[d[2]]
  BY <1>1, <1>2, <1>3
<1> QED BY <1>1, <1>2, <1>3, <1>4 DEF CopiesAdded

(* Adding copies and pushing what grows disturbs no handled edge.          *)
LEMMA GrowthKeepsFieldHandled ==
  ASSUME FieldFormInv, FieldKeptInv, UNCHANGED <<rep, subs, loadEdges, storeEdges, insensitive>>,
         copyEdges \subseteq copyEdges', worklist \subseteq worklist',
         \A n \in Node : n \notin worklist' => pts'[n] = pts[n]
  PROVE  /\ UNCHANGED <<loadCache, storeCache>> => FieldCaches'
         /\ pendLoads' = pendLoads => FieldLoads'
         /\ pendStores' = pendStores => FieldStores'
<1>1. \A e \in loadEdges \cup storeEdges : e[1] \in Node /\ e[2] \in Node
  BY EdgeEnds
<1>2. /\ \A n : Unmerged(n)' <=> Unmerged(n)
      /\ \A o : Mixed(o)' <=> Mixed(o)
      /\ \A m, n : Connects(copyEdges, m, n) => Connects(copyEdges', m, n)
  BY DEF Unmerged, Mixed, Connects
<1>3. ASSUME UNCHANGED <<loadCache, storeCache>> PROVE FieldCaches'
  BY <1>2, <1>3 DEF FieldKeptInv, FieldCaches
<1>4. ASSUME pendLoads' = pendLoads PROVE FieldLoads'
  BY <1>1, <1>2, <1>4 DEF FieldKeptInv, FieldLoads
<1>5. ASSUME pendStores' = pendStores PROVE FieldStores'
  BY <1>1, <1>2, <1>5 DEF FieldKeptInv, FieldStores
<1> QED BY <1>3, <1>4, <1>5

LEMMA FieldLoadHandled ==
  ASSUME FieldFormInv, FieldKeptInv, NEW e \in Edge, HandleLoad(e), UNCHANGED fieldVars
  PROVE  FieldCaches' /\ FieldLoads' /\ FieldStores'
<1> DEFINE S == pts[e[1]] \ loadCache[e]
<1>1. /\ UNCHANGED <<rep, subs, loadEdges, storeEdges, storeCache, insensitive>>
      /\ pendLoads' = pendLoads \ {e} /\ pendStores' = pendStores
  BY DEF HandleLoad, fieldVars, fieldGraph
<1>2. /\ copyEdges \subseteq copyEdges' /\ worklist \subseteq worklist'
      /\ \A n \in Node : n \notin worklist' => pts'[n] = pts[n]
  BY FieldFormIsForm, HandleLoadGrows
<1>3. FieldStores'
  BY <1>1, <1>2, GrowthKeepsFieldHandled
<1>4. /\ e \in loadEdges /\ rep[e[1]] = e[1] /\ rep[e[2]] = e[2]
      /\ copyEdges' = copyEdges \cup LoadCopies(S, e[2])
      /\ loadCache' = [loadCache EXCEPT ![e] = @ \cup S]
      /\ loadCache \in [Edge -> SUBSET Obj]
  BY FieldFormIsForm, HandleLoadStep, EdgeEnds DEF TypeOK, AddCopyEdges
<1>5. \A m, n : Connects(copyEdges, m, n) => Connects(copyEdges', m, n)
  BY <1>2 DEF Connects
<1>6. ASSUME NEW o \in (loadCache[e] \cup S) \ Opaque PROVE Connects(copyEdges', rep[o], e[2])
  <2>1. CASE o \in loadCache[e]
    BY <1>4, <1>5, <1>6, <2>1 DEF FieldKeptInv, FieldCaches
  <2>2. CASE o \in S
    <3>1. o \in S \ Opaque
      BY <2>2, <1>6
    <3> HIDE DEF S
    <3> QED BY <3>1, <1>4, LoadCopiesConnect
  <2> QED BY <1>6, <2>1, <2>2
<1>7. FieldCaches'
  <2> SUFFICES ASSUME NEW d \in Edge, rep[d[1]] = d[1], rep[d[2]] = d[2]
               PROVE  /\ \A o \in loadCache'[d] \ Opaque : Connects(copyEdges', rep[o], d[2])
                      /\ \A o \in storeCache[d] \ Opaque : Connects(copyEdges', d[1], rep[o])
    BY <1>1 DEF FieldCaches
  <2>1. \A o \in storeCache[d] \ Opaque : Connects(copyEdges', d[1], rep[o])
    BY <1>5 DEF FieldKeptInv, FieldCaches
  <2>2. CASE d = e
    <3>1. loadCache'[d] = loadCache[e] \cup S
      BY <1>4, <2>2
    <3> HIDE DEF S
    <3> QED BY <1>6, <2>1, <2>2, <3>1
  <2>3. CASE d # e
    <3>1. loadCache'[d] = loadCache[d]
      BY <1>4, <2>3
    <3> QED BY <1>5, <2>1, <3>1 DEF FieldKeptInv, FieldCaches
  <2> QED BY <2>2, <2>3
<1>8. FieldLoads'
  <2> SUFFICES ASSUME NEW d \in loadEdges, Unmerged(d[1]), d[1] \notin worklist',
                      d \notin pendLoads', NEW o \in pts'[d[1]] \ Opaque, ~Mixed(o)
               PROVE  Connects(copyEdges', rep[o], d[2])
    BY <1>1 DEF FieldLoads, Unmerged, Mixed
  <2>1. d[1] \in Node
    BY EdgeEnds
  <2>2. o \in pts[d[1]] \ Opaque /\ d[1] \notin worklist
    BY <2>1, <1>2
  <2>3. CASE d = e
    <3>1. o \in (loadCache[e] \cup S) \ Opaque
      BY <2>2, <2>3
    <3> HIDE DEF S
    <3> QED BY <1>6, <2>3, <3>1
  <2>4. CASE d # e
    BY <2>2, <2>4, <1>1, <1>5 DEF FieldKeptInv, FieldLoads
  <2> QED BY <2>3, <2>4
<1> QED BY <1>3, <1>7, <1>8

LEMMA FieldStoreHandled ==
  ASSUME FieldFormInv, FieldKeptInv, NEW e \in Edge, HandleStore(e), UNCHANGED fieldVars
  PROVE  FieldCaches' /\ FieldLoads' /\ FieldStores'
<1> DEFINE S == pts[e[2]] \ storeCache[e]
<1>1. /\ UNCHANGED <<rep, subs, loadEdges, storeEdges, loadCache, insensitive>>
      /\ pendStores' = pendStores \ {e} /\ pendLoads' = pendLoads
  BY DEF HandleStore, fieldVars, fieldGraph
<1>2. /\ copyEdges \subseteq copyEdges' /\ worklist \subseteq worklist'
      /\ \A n \in Node : n \notin worklist' => pts'[n] = pts[n]
  BY FieldFormIsForm, HandleStoreGrows
<1>3. FieldLoads'
  BY <1>1, <1>2, GrowthKeepsFieldHandled
<1>4. /\ e \in storeEdges /\ rep[e[1]] = e[1] /\ rep[e[2]] = e[2]
      /\ copyEdges' = copyEdges \cup StoreCopies(S, e[1])
      /\ storeCache' = [storeCache EXCEPT ![e] = @ \cup S]
      /\ storeCache \in [Edge -> SUBSET Obj]
  BY FieldFormIsForm, HandleStoreStep, EdgeEnds DEF TypeOK, AddCopyEdges
<1>5. \A m, n : Connects(copyEdges, m, n) => Connects(copyEdges', m, n)
  BY <1>2 DEF Connects
<1>6. ASSUME NEW o \in (storeCache[e] \cup S) \ Opaque PROVE Connects(copyEdges', e[1], rep[o])
  <2>1. CASE o \in storeCache[e]
    BY <1>4, <1>5, <1>6, <2>1 DEF FieldKeptInv, FieldCaches
  <2>2. CASE o \in S
    <3>1. o \in S \ Opaque
      BY <2>2, <1>6
    <3> HIDE DEF S
    <3> QED BY <3>1, <1>4, StoreCopiesConnect
  <2> QED BY <1>6, <2>1, <2>2
<1>7. FieldCaches'
  <2> SUFFICES ASSUME NEW d \in Edge, rep[d[1]] = d[1], rep[d[2]] = d[2]
               PROVE  /\ \A o \in loadCache[d] \ Opaque : Connects(copyEdges', rep[o], d[2])
                      /\ \A o \in storeCache'[d] \ Opaque : Connects(copyEdges', d[1], rep[o])
    BY <1>1 DEF FieldCaches
  <2>1. \A o \in loadCache[d] \ Opaque : Connects(copyEdges', rep[o], d[2])
    BY <1>5 DEF FieldKeptInv, FieldCaches
  <2>2. CASE d = e
    <3>1. storeCache'[d] = storeCache[e] \cup S
      BY <1>4, <2>2
    <3> HIDE DEF S
    <3> QED BY <1>6, <2>1, <2>2, <3>1
  <2>3. CASE d # e
    <3>1. storeCache'[d] = storeCache[d]
      BY <1>4, <2>3
    <3> QED BY <1>5, <2>1, <3>1 DEF FieldKeptInv, FieldCaches
  <2> QED BY <2>2, <2>3
<1>8. FieldStores'
  <2> SUFFICES ASSUME NEW d \in storeEdges, Unmerged(d[2]), d[2] \notin worklist',
                      d \notin pendStores', NEW o \in pts'[d[2]] \ Opaque, ~Mixed(o)
               PROVE  Connects(copyEdges', d[1], rep[o])
    BY <1>1 DEF FieldStores, Unmerged, Mixed
  <2>1. d[2] \in Node
    BY EdgeEnds
  <2>2. o \in pts[d[2]] \ Opaque /\ d[2] \notin worklist
    BY <2>1, <1>2
  <2>3. CASE d = e
    <3>1. o \in (storeCache[e] \cup S) \ Opaque
      BY <2>2, <2>3
    <3> HIDE DEF S
    <3> QED BY <1>6, <2>3, <3>1
  <2>4. CASE d # e
    BY <2>2, <2>4, <1>1, <1>5 DEF FieldKeptInv, FieldStores
  <2> QED BY <2>3, <2>4
<1> QED BY <1>3, <1>7, <1>8

-----------------------------------------------------------------------------
LEMMA FieldAddrKeeps ==
  ASSUME FieldFormInv, FieldKeptInv, ProcessAllAddr, UNCHANGED fieldVars
  PROVE  FieldKeptInv'
<1>1. /\ phase = "addr" /\ UNCHANGED <<prog, rep, subs, copyEdges, loadEdges, storeEdges, propaPts>>
      /\ UNCHANGED <<loadCache, storeCache, pendParams, pendLoads, pendStores>>
      /\ UNCHANGED <<geps, gepEdges, variantEdges, insensitive, pwc, toCollapse>>
      /\ pts' = [n \in Node |-> {o \in Obj : <<o, n>> \in prog.addr}]
      /\ worklist' = {n \in Node : \E o \in Obj : <<o, n>> \in prog.addr}
  BY DEF ProcessAllAddr, fieldVars, fieldGraph, graph, caches, pending
<1>2. pts = [n \in Node |-> {}] /\ insensitive = {} /\ prog \in Programs
  BY <1>1 DEF FieldFormInv, FieldPhaseInv, PhaseInv, FieldTypeOK, TypeOK
<1>3. \A o : ~Gone(o) /\ ~Gone(o)'
  BY <1>1, <1>2 DEF Gone
<1>4. \A a \in Node : propaPts'[a] = {}
  BY <1>1, <1>2, <1>3 DEF FieldKeptInv, ArrivedInv
<1>5. ArrivedInv'
  BY <1>4 DEF ArrivedInv
<1>6. LoopFreeInv' /\ PwcAtReps' /\ GepKept' /\ GepFrom' /\ VariantKept'
  BY <1>1 DEF FieldKeptInv, FieldKept, LoopFreeInv, PwcAtReps, GepKept, GepFrom, VariantKept, Sole
<1>7. ConstraintsKept'
  BY FieldFormIsForm, AddrKeeps DEF FieldKeptInv, FieldKept
<1>8. FieldsUsed'
  <2> SUFFICES ASSUME NEW f \in Obj, isField(f), hasFields(f[1])
               PROVE  Untouched(f)'
    BY DEF FieldsUsed
  <2>1. f \in Node
    BY GraphAssumption
  <2>2. Untouched(f)
    BY <1>2, <1>3 DEF FieldKeptInv, FieldsUsed
  <2>3. \A o \in Obj : <<o, f>> \notin prog.addr
    <3> SUFFICES ASSUME NEW o \in Obj, <<o, f>> \in prog.addr PROVE FALSE
      OBVIOUS
    <3>1. Named(<<o, f>>[2])
      BY <1>2, FieldAssumption
    <3> QED BY <3>1 DEF Named
  <2>4. pts'[f] = {}
    BY <1>1, <2>1, <2>3
  <2> QED BY <1>1, <2>2, <2>4 DEF Untouched
<1>9. FieldCaches'
  BY <1>1 DEF FieldKeptInv, FieldCaches
<1>10. \A e \in loadEdges \cup storeEdges : e[1] \in Node /\ e[2] \in Node
  BY EdgeEnds
<1>11. \A n \in Node : n \notin worklist' => pts'[n] = {}
  BY <1>1
<1>12. FieldLoads' /\ FieldStores'
  BY <1>1, <1>10, <1>11 DEF FieldLoads, FieldStores
<1> QED BY <1>5, <1>6, <1>7, <1>8, <1>9, <1>12 DEF FieldKeptInv, FieldKept

LEMMA FieldPopKeeps ==
  ASSUME FieldFormInv, FieldKeptInv, NEW n \in Node, PopFromWorklist(n), UNCHANGED fieldVars
  PROVE  FieldKeptInv'
<1>1. /\ UNCHANGED <<prog, phase, rep, subs, copyEdges, loadEdges, storeEdges, pts, propaPts>>
      /\ UNCHANGED <<loadCache, storeCache, pendParams, indCalls>>
      /\ UNCHANGED <<geps, gepEdges, variantEdges, insensitive, pwc, toCollapse>>
      /\ pendLoads = {} /\ pendStores = {} /\ worklist' = worklist \ {n}
      /\ pendLoads' = {e \in loadEdges : e[1] = rep[n]}
      /\ pendStores' = {e \in storeEdges : e[2] = rep[n]}
  BY DEF PopFromWorklist, fieldVars, fieldGraph, graph, caches
<1>2. ArrivedInv' /\ LoopFreeInv' /\ PwcAtReps'
  BY <1>1 DEF FieldKeptInv, ArrivedInv, AtTargets, Gone, LoopFreeInv, PwcAtReps
<1>3. ConstraintsKept'
  BY <1>1 DEF FieldKeptInv, FieldKept, ConstraintsKept, AddrKept, CopyKept, LoadKept, StoreKept,
              CallKept, Joined
<1>4. GepKept' /\ GepFrom' /\ VariantKept'
  BY <1>1 DEF FieldKeptInv, FieldKept, GepKept, GepFrom, VariantKept, Sole
<1>5. FieldsUsed' /\ FieldCaches'
  BY <1>1 DEF FieldKeptInv, FieldsUsed, Gone, Untouched, FieldCaches
<1>6. /\ Unmerged(n) => rep[n] = n
      /\ \A k : Unmerged(k)' <=> Unmerged(k)
      /\ \A o : Mixed(o)' <=> Mixed(o)
  BY <1>1 DEF Unmerged, Mixed
<1>7. FieldLoads'
  BY <1>1, <1>6 DEF FieldKeptInv, FieldLoads
<1>8. FieldStores'
  BY <1>1, <1>6 DEF FieldKeptInv, FieldStores
<1> QED BY <1>2, <1>3, <1>4, <1>5, <1>7, <1>8 DEF FieldKeptInv, FieldKept

LEMMA FieldRoundKeeps ==
  ASSUME FieldFormInv, FieldKeptInv, EndRound, UNCHANGED fieldVars
  PROVE  FieldKeptInv'
<1>1. /\ UNCHANGED <<prog, rep, subs, copyEdges, loadEdges, storeEdges, pts, propaPts>>
      /\ UNCHANGED <<loadCache, storeCache, pendParams, pendLoads, pendStores, worklist, indCalls>>
      /\ UNCHANGED <<geps, gepEdges, variantEdges, insensitive, pwc, toCollapse>>
      /\ phase = "params"
  BY DEF EndRound, fieldVars, fieldGraph, graph, caches, pending
<1>2. ArrivedInv' /\ LoopFreeInv' /\ PwcAtReps'
  BY <1>1 DEF FieldKeptInv, ArrivedInv, AtTargets, Gone, LoopFreeInv, PwcAtReps
<1>3. ConstraintsKept'
  BY <1>1 DEF FieldKeptInv, FieldKept, ConstraintsKept, AddrKept, CopyKept, LoadKept, StoreKept,
              CallKept, Joined
<1>4. GepKept' /\ GepFrom' /\ VariantKept'
  BY <1>1 DEF FieldKeptInv, FieldKept, GepKept, GepFrom, VariantKept, Sole
<1>5. FieldsUsed' /\ FieldCaches'
  BY <1>1 DEF FieldKeptInv, FieldsUsed, Gone, Untouched, FieldCaches
<1>6. FieldLoads' /\ FieldStores'
  BY <1>1 DEF FieldKeptInv, FieldLoads, FieldStores, Unmerged, Mixed
<1> QED BY <1>2, <1>3, <1>4, <1>5, <1>6 DEF FieldKeptInv, FieldKept

LEMMA FieldCopiesKeep ==
  ASSUME FieldFormInv, FieldKeptInv, NEW e \in Edge, UNCHANGED fieldVars,
         HandleLoad(e) \/ HandleStore(e) \/ ConnectParam(e)
  PROVE  FieldKeptInv'
<1>1. CASE HandleLoad(e)
  <2>1. phase # "addr"
    BY <1>1 DEF HandleLoad, FieldFormInv, FieldPhaseInv, PhaseInv
  <2>2. ConstraintsKept'
    BY <1>1, <2>1, FieldFormIsForm, HandleLoadGrows, GrowthKeeps DEF HandleLoad, FieldKeptInv, FieldKept
  <2>3. FieldCaches' /\ FieldLoads' /\ FieldStores'
    BY <1>1, FieldLoadHandled
  <2> QED BY <1>1, <2>2, <2>3, LoadCopiesAdded, AddedKeep DEF FieldKeptInv, FieldKept
<1>2. CASE HandleStore(e)
  <2>1. phase # "addr"
    BY <1>2 DEF HandleStore, FieldFormInv, FieldPhaseInv, PhaseInv
  <2>2. ConstraintsKept'
    BY <1>2, <2>1, FieldFormIsForm, HandleStoreGrows, GrowthKeeps DEF HandleStore, FieldKeptInv, FieldKept
  <2>3. FieldCaches' /\ FieldLoads' /\ FieldStores'
    BY <1>2, FieldStoreHandled
  <2> QED BY <1>2, <2>2, <2>3, StoreCopiesAdded, AddedKeep DEF FieldKeptInv, FieldKept
<1>3. CASE ConnectParam(e)
  <2>1. /\ \A m \in Node : pts[m] \subseteq pts'[m]
        /\ \A m \in Node : m \notin worklist' => pts'[m] = pts[m]
        /\ worklist \subseteq worklist'
    BY <1>3, FieldFormIsForm, ConnectParamGrows
  <2>2. /\ UNCHANGED <<prog, rep, subs, copyEdges, loadEdges, storeEdges, indCalls>>
        /\ UNCHANGED <<loadCache, storeCache, pendLoads, pendStores, insensitive>>
        /\ phase # "addr"
    BY <1>3 DEF ConnectParam, graph, caches, pending, fieldVars, fieldGraph
  <2>3. ConstraintsKept'
    BY <2>1, <2>2, FieldFormIsForm, GrowthKeeps DEF FieldKeptInv, FieldKept
  <2>4. FieldCaches' /\ FieldLoads' /\ FieldStores'
    BY <2>1, <2>2, GrowthKeepsFieldHandled
  <2> QED BY <1>3, <2>3, <2>4, ConnectParamAdded, AddedKeep DEF FieldKeptInv, FieldKept
<1> QED BY <1>1, <1>2, <1>3

LEMMA FieldUpdateKeeps ==
  ASSUME FieldFormInv, FieldKeptInv, UpdateCallGraph, UNCHANGED fieldVars
  PROVE  FieldKeptInv'
<1>1. ConstraintsKept'
  BY FieldFormIsForm, UpdateKeeps DEF FieldKeptInv, FieldKept
<1>2. /\ UNCHANGED <<rep, subs, loadEdges, storeEdges, pts, worklist>>
      /\ UNCHANGED <<loadCache, storeCache, pendLoads, pendStores, insensitive>>
      /\ copyEdges \subseteq copyEdges'
  BY DEF UpdateCallGraph, caches, pending, fieldVars, fieldGraph
<1>3. FieldCaches' /\ FieldLoads' /\ FieldStores'
  BY <1>2, GrowthKeepsFieldHandled
<1> QED BY <1>1, <1>3, ParamCopiesAdded, AddedKeep DEF FieldKeptInv, FieldKept

-----------------------------------------------------------------------------
LEMMA WaveStays ==
  ASSUME UNCHANGED <<rep, copyEdges, gepEdges, variantEdges, pts, pwc, insensitive, toCollapse>>,
         UNCHANGED <<pendParams, nodeStack, current, pendingPts, waveEdges>>
  PROVE  (WavePassed => WavePassed') /\ (WaveOrder => WaveOrder')
<1>1. \A a, o : AtTargets(a, o)' <=> AtTargets(a, o)
  BY DEF AtTargets
<1>2. Ahead' = Ahead /\ DirectEdges' = DirectEdges /\ \A o : Collapsing1(o)' <=> Collapsing1(o)
  BY DEF Ahead, DirectEdges, Collapsing1
<1>3. WavePassed => WavePassed'
  BY <1>1, <1>2 DEF WavePassed
<1>4. WaveOrder => WaveOrder'
  BY <1>2 DEF WaveOrder
<1> QED BY <1>3, <1>4

LEMMA WaveStepWave ==
  ASSUME FieldFormInv, FieldWaveInv, WaveStep
  PROVE  FieldWaveInv'
<1>0. /\ UNCHANGED fieldVars
      /\ UNCHANGED <<geps, gepEdges, variantEdges, insensitive, pwc>>
      /\ UNCHANGED <<waveEdges, current, pendingPts, toCollapse>>
  BY DEF WaveStep, fieldVars, fieldGraph
<1>1. CASE ProcessAllAddr
  BY <1>1 DEF ProcessAllAddr, FieldWaveInv
<1>2. ASSUME NEW n \in Node, PopFromWorklist(n) PROVE FieldWaveInv'
  <2>1. /\ UNCHANGED <<phase, rep, copyEdges, pts, pendParams, nodeStack, reanalyze>>
        /\ phase = "solve"
    BY <1>2 DEF PopFromWorklist, graph
  <2> QED BY <1>0, <2>1, WaveStays DEF FieldWaveInv
<1>3. ASSUME NEW e \in Edge, HandleLoad(e) PROVE FieldWaveInv'
  <2>1. UNCHANGED <<phase, rep, pendParams, nodeStack>> /\ phase = "solve"
    BY <1>3 DEF HandleLoad, FieldFormInv, FieldPhaseInv, PhaseInv
  <2>2. ~reanalyze' => pts' = pts /\ copyEdges' = copyEdges /\ ~reanalyze
    BY <1>3, FieldFormIsForm, HandleLoadGrows
  <2> QED BY <1>0, <2>1, <2>2, WaveStays DEF FieldWaveInv
<1>4. ASSUME NEW e \in Edge, HandleStore(e) PROVE FieldWaveInv'
  <2>1. UNCHANGED <<phase, rep, pendParams, nodeStack>> /\ phase = "solve"
    BY <1>4 DEF HandleStore, FieldFormInv, FieldPhaseInv, PhaseInv
  <2>2. ~reanalyze' => pts' = pts /\ copyEdges' = copyEdges /\ ~reanalyze
    BY <1>4, FieldFormIsForm, HandleStoreGrows
  <2> QED BY <1>0, <2>1, <2>2, WaveStays DEF FieldWaveInv
<1>5. ASSUME NEW e \in Edge, ConnectParam(e) PROVE FieldWaveInv'
  <2>1. e \in pendParams /\ phase = "params" /\ UNCHANGED <<phase, reanalyze>>
    BY <1>5 DEF ConnectParam
  <2> QED BY <2>1 DEF FieldWaveInv
<1>6. CASE UpdateCallGraph
  <2>1. PICK C \in NewCalls(prog, getPts, indCalls) :
          /\ pendParams' = ParamCopies(prog, C, rep) \ copyEdges
          /\ copyEdges' = copyEdges \cup pendParams'
          /\ reanalyze' = (reanalyze \/ C # {})
    BY <1>6 DEF UpdateCallGraph
  <2>2. /\ phase = "solve" /\ phase' = "params" /\ worklist = {} /\ worklist' = worklist
        /\ UNCHANGED <<rep, pts, nodeStack>>
    BY <1>6 DEF UpdateCallGraph
  <2>3. pendParams = {}
    BY <2>2 DEF FieldFormInv, FieldPhaseInv, PhaseInv
  <2>4. ASSUME ~reanalyze' PROVE ~reanalyze /\ pendParams' = {} /\ copyEdges' = copyEdges
    <3>1. C = {} /\ ~reanalyze
      BY <2>1, <2>4
    <3>2. ParamCopies(prog, C, rep) = {}
      BY <3>1 DEF ParamCopies, NoLoops
    <3> QED BY <3>1, <3>2, <2>1
  <2> QED BY <1>0, <2>2, <2>3, <2>4, WaveStays DEF FieldWaveInv
<1>7. CASE EndRound
  <2>1. /\ phase = "params" /\ phase' = IF reanalyze THEN "scc" ELSE "done"
        /\ reanalyze' = FALSE
        /\ UNCHANGED <<rep, copyEdges, pts, pendParams, nodeStack, worklist>>
    BY <1>7 DEF EndRound, graph
  <2> QED BY <1>0, <2>1, WaveStays DEF FieldWaveInv
<1> QED BY <1>1, <1>2, <1>3, <1>4, <1>5, <1>6, <1>7 DEF WaveStep

LEMMA WaveStepKeepsAll ==
  ASSUME FieldFormInv, FieldKeptInv, WaveStep
  PROVE  FieldKeptInv'
<1>0. UNCHANGED fieldVars
  BY DEF WaveStep
<1>1. CASE ProcessAllAddr
  BY <1>0, <1>1, FieldAddrKeeps
<1>2. ASSUME NEW n \in Node, PopFromWorklist(n) PROVE FieldKeptInv'
  BY <1>0, <1>2, FieldPopKeeps
<1>3. ASSUME NEW e \in Edge, HandleLoad(e) \/ HandleStore(e) \/ ConnectParam(e) PROVE FieldKeptInv'
  BY <1>0, <1>3, FieldCopiesKeep
<1>4. CASE UpdateCallGraph
  BY <1>0, <1>4, FieldUpdateKeeps
<1>5. CASE EndRound
  BY <1>0, <1>5, FieldRoundKeeps
<1> QED BY <1>1, <1>2, <1>3, <1>4, <1>5 DEF WaveStep

LEMMA FieldStutterKeeps ==
  ASSUME FieldKeptInv, FieldWaveInv, UNCHANGED allVars
  PROVE  FieldKeptInv' /\ FieldWaveInv'
<1>1. /\ UNCHANGED <<prog, phase, rep, subs, copyEdges, loadEdges, storeEdges, pts, propaPts>>
      /\ UNCHANGED <<loadCache, storeCache, pendParams, pendLoads, pendStores, worklist, indCalls>>
      /\ UNCHANGED <<geps, gepEdges, variantEdges, insensitive, pwc, toCollapse, reanalyze>>
      /\ UNCHANGED <<nodeStack, current, pendingPts, waveEdges>>
  BY DEF allVars, vars, graph, caches, pending, fieldVars, fieldGraph
<1>2. ArrivedInv' /\ LoopFreeInv' /\ PwcAtReps'
  BY <1>1 DEF FieldKeptInv, ArrivedInv, AtTargets, Gone, LoopFreeInv, PwcAtReps
<1>3. ConstraintsKept'
  BY <1>1 DEF FieldKeptInv, FieldKept, ConstraintsKept, AddrKept, CopyKept, LoadKept, StoreKept,
              CallKept, Joined
<1>4. GepKept' /\ GepFrom' /\ VariantKept'
  BY <1>1 DEF FieldKeptInv, FieldKept, GepKept, GepFrom, VariantKept, Sole
<1>5. FieldsUsed' /\ FieldCaches'
  BY <1>1 DEF FieldKeptInv, FieldsUsed, Gone, Untouched, FieldCaches
<1>6. FieldLoads' /\ FieldStores'
  BY <1>1 DEF FieldKeptInv, FieldLoads, FieldStores, Unmerged, Mixed
<1>7. FieldWaveInv'
  BY <1>1, WaveStays DEF FieldWaveInv
<1> QED BY <1>2, <1>3, <1>4, <1>5, <1>6, <1>7 DEF FieldKeptInv, FieldKept

-----------------------------------------------------------------------------
LEMMA FieldInitKept == FieldInit => FieldKeptInv /\ FieldWaveInv
<1> SUFFICES ASSUME FieldInit PROVE FieldKeptInv /\ FieldWaveInv
  OBVIOUS
<1>1. /\ geps \in GepPrograms /\ gepEdges = geps.normal /\ variantEdges = geps.variant
      /\ insensitive = {} /\ pwc = {} /\ Init
  BY DEF FieldInit
<1>2. /\ prog \in Programs /\ phase = "addr"
      /\ rep = [n \in Node |-> n] /\ subs = [n \in Node |-> {n}]
      /\ copyEdges = NoLoops(prog.copy) /\ loadEdges = prog.load /\ storeEdges = prog.store
      /\ pts = [n \in Node |-> {}] /\ propaPts = [n \in Node |-> {}]
      /\ loadCache = [e \in Edge |-> {}] /\ storeCache = [e \in Edge |-> {}]
  BY <1>1 DEF Init
<1>3. /\ gepEdges \subseteq Gep /\ variantEdges \subseteq Edge
      /\ \A e \in gepEdges \cup variantEdges : e[1] # e[2] /\ Named(e[1]) /\ Named(e[2])
  BY <1>1, FieldAssumption
<1>4. \A e \in copyEdges \cup loadEdges \cup storeEdges : Named(e[1]) /\ Named(e[2])
  BY <1>2, FieldAssumption DEF NoLoops
<1>5. ArrivedInv
  BY <1>2 DEF ArrivedInv
<1>6. LoopFreeInv /\ PwcAtReps
  BY <1>1, <1>2, <1>3 DEF LoopFreeInv, PwcAtReps, NoLoops
<1>7. ConstraintsKept
  BY <1>1, InitKept
<1>8. \A e \in gepEdges \cup variantEdges : e[1] \in Node /\ e[2] \in Node
  BY <1>3 DEF Gep, Edge
<1>9. \A e \in gepEdges \cup variantEdges : rep[e[1]] = e[1] /\ rep[e[2]] = e[2]
  BY <1>2, <1>8
<1>10. GepKept /\ VariantKept
  BY <1>1, <1>9 DEF GepKept, VariantKept, Joins
<1>11. GepFrom
  <2> SUFFICES ASSUME NEW d \in gepEdges PROVE d = <<rep[d[1]], rep[d[2]], d[3]>>
    BY <1>1 DEF GepFrom
  <2>1. d = <<d[1], d[2], d[3]>>
    BY <1>3 DEF Gep
  <2> QED BY <1>9, <2>1
<1>12. FieldsUsed
  <2> SUFFICES ASSUME NEW f \in Obj, isField(f) PROVE Untouched(f)
    BY DEF FieldsUsed
  <2>1. f \in Node /\ ~Named(f)
    BY GraphAssumption DEF Named
  <2>2. \A e \in copyEdges \cup loadEdges \cup storeEdges \cup variantEdges \cup gepEdges :
          e[1] # f /\ e[2] # f
    BY <1>3, <1>4, <2>1
  <2> QED BY <1>1, <1>2, <2>1, <2>2 DEF Untouched
<1>13. FieldCaches
  BY <1>2 DEF FieldCaches
<1>14. FieldLoads /\ FieldStores
  <2>1. \A e \in loadEdges \cup storeEdges : e[1] \in Node /\ e[2] \in Node
    BY <1>2, ProgramFields DEF Edge
  <2> QED BY <1>2, <2>1 DEF FieldLoads, FieldStores
<1>15. FieldWaveInv
  BY <1>2 DEF FieldWaveInv
<1> QED BY <1>5, <1>6, <1>7, <1>10, <1>11, <1>12, <1>13, <1>14, <1>15 DEF FieldKeptInv, FieldKept

FieldClosedInv == FieldFormInv /\ CollapsedInv /\ FieldKeptInv /\ FieldWaveInv

LEMMA NextFieldClosed ==
  ASSUME FieldClosedInv, [FieldNext]_allVars
  PROVE  FieldClosedInv'
<1> USE DEF FieldClosedInv
<1>1. FieldFormInv' /\ CollapsedInv'
  BY FieldNextForm, NextCollapsed
<1>2. CASE UNCHANGED allVars
  BY <1>1, <1>2, FieldStutterKeeps
<1>3. CASE FieldSCCDetect
  BY <1>1, <1>3, SCCKeepsAll, SCCWave
<1>4. ASSUME NEW n \in Node, StartNode(n) PROVE FieldClosedInv'
  BY <1>1, <1>4, StartNodeKeepsAll, StartNodeWave
<1>5. ASSUME NEW n \in Node, HandleCopyGep(n) PROVE FieldClosedInv'
  <2>1. FieldKeptInv'
    BY <1>5, HandleCopyGepKeepsAll
  <2> QED BY <1>1, <1>5, <2>1, HandleCopyGepWave
<1>6. ASSUME NEW o \in Obj, CollapsePointee(o) PROVE FieldClosedInv'
  BY <1>1, <1>6, CollapsePointeeKeeps
<1>7. ASSUME NEW m \in Mem, CollapseNext(m) PROVE FieldClosedInv'
  BY <1>1, <1>7, CollapseNextKeeps
<1>8. CASE WaveStep
  BY <1>1, <1>8, WaveStepKeepsAll, WaveStepWave
<1> QED BY <1>2, <1>3, <1>4, <1>5, <1>6, <1>7, <1>8 DEF FieldNext, FieldTerminated

-----------------------------------------------------------------------------
(* At the end.                                                             *)
LEMMA QuietAtEnd ==
  ASSUME FieldClosedInv, Done
  PROVE  /\ phase # "addr" /\ pendParams = {} /\ toCollapse = {} /\ worklist = {}
         /\ pendLoads = {} /\ pendStores = {}
         /\ \A n \in Node : \A o \in pts[rep[n]] : AtTargets(rep[n], o)
         /\ \A n \in Node : rep[n] \in pwc => \A o \in pts[rep[n]] : Collapsing1(o)
         /\ \A n \in Node : rep[n] \in Node /\ getPts[n] = pts[rep[n]]
<1> USE DEF FieldClosedInv
<1>1. phase = "done"
  BY DEF Done
<1>2. Idle /\ nodeStack = {} /\ pendParams = {} /\ pendLoads = {} /\ pendStores = {}
  BY <1>1 DEF FieldFormInv, FieldPhaseInv, PhaseInv
<1>3. WavePassed /\ worklist = {}
  BY <1>1 DEF FieldWaveInv
<1>4. Ahead = {} /\ toCollapse = {}
  BY <1>2 DEF Ahead, Idle
<1>5. \A n \in Node : rep[n] \in Node /\ rep[rep[n]] = rep[n]
  BY RepIsNode
<1>6. \A n \in Node : getPts[n] = pts[rep[n]]
  BY DEF getPts
<1> QED BY <1>1, <1>2, <1>3, <1>4, <1>5, <1>6 DEF WavePassed

LEMMA JoinedAtEnd ==
  ASSUME FieldClosedInv, Done, NEW a \in Node, NEW b \in Node, Joined(a, b)
  PROVE  getPts[a] \subseteq getPts[b]
<1>1. /\ pendParams = {} /\ getPts[a] = pts[rep[a]] /\ getPts[b] = pts[rep[b]]
      /\ \A o \in pts[rep[a]] : AtTargets(rep[a], o)
  BY QuietAtEnd
<1>2. CASE rep[a] = rep[b]
  BY <1>1, <1>2
<1>3. CASE <<rep[a], rep[b]>> \in copyEdges
  BY <1>1, <1>3 DEF AtTargets
<1> QED BY <1>2, <1>3 DEF Joined, Connects

(* An object to be collapsed is its own field at every offset.             *)
LEMMA CollapsedShift ==
  ASSUME FieldClosedInv, toCollapse = {}, NEW n \in Node, NEW o \in pts[n], Collapsing1(o), NEW k
  PROVE  Has(pts[n], FieldAt(o, k)) /\ Has(pts[n], whole(o))
<1> USE DEF FieldClosedInv
<1>1. o \in Obj
  BY DEF FieldFormInv, FieldTypeOK, TypeOK, Assignment
<1>2. FieldAt(o, k)[1] = o[1] /\ whole(o)[1] = o[1]
  BY <1>1, FieldAtIsShift, ShiftKeepsObject
<1>3. CASE ~hasFields(o[1])
  BY <1>2, <1>3 DEF Has
<1>4. CASE hasFields(o[1])
  <2>1. o[1] \in insensitive \ toCollapse
    BY <1>4 DEF Collapsing1
  <2>2. ~isField(o)
    <3> SUFFICES ASSUME isField(o) PROVE FALSE
      OBVIOUS
    <3>1. o \in fields(o[1])
      BY <1>1 DEF fields
    <3> QED BY <1>4, <2>1, <3>1 DEF CollapsedInv
  <2>3. whole(o) = o
    BY <1>1, <2>2, ObjIsPair
  <2>4. FieldAt(o, k) = whole(o)
    BY <1>4, <2>1 DEF FieldAt, hasFields
  <2> QED BY <2>3, <2>4 DEF Has
<1> QED BY <1>3, <1>4

LEMMA GepsAtEnd ==
  ASSUME FieldClosedInv, Done
  PROVE  /\ \A e \in geps.normal : Sole(e) /\ ~Cyclic(e) => GepHolds(e)
         /\ \A e \in geps.variant : VariantGepHolds(e)
<1>1. /\ toCollapse = {}
      /\ \A n \in Node : \A o \in pts[rep[n]] : AtTargets(rep[n], o)
      /\ \A n \in Node : rep[n] \in pwc => \A o \in pts[rep[n]] : Collapsing1(o)
      /\ \A n \in Node : rep[n] \in Node /\ getPts[n] = pts[rep[n]]
  BY QuietAtEnd
<1>2. \A S, x : Reaches(toCollapse, S, x) => Has(S, x)
  BY <1>1 DEF Reaches, Has
<1>3. ASSUME NEW e \in geps.normal, Sole(e), ~Cyclic(e), NEW o \in getPts[e[1]]
      PROVE  Has(getPts[e[2]], FieldAt(o, e[3]))
  <2>1. e[1] \in Node /\ e[2] \in Node
    BY ProgramGeps DEF FieldClosedInv
  <2>2. /\ o \in pts[rep[e[1]]] /\ AtTargets(rep[e[1]], o) /\ getPts[e[2]] = pts[rep[e[2]]]
        /\ rep[e[1]] \in Node
    BY <1>1, <1>3, <2>1
  <2>3. CASE Joins(gepEdges, rep, e)
    <3>1. PICK d \in gepEdges : d[1] = rep[e[1]] /\ d[2] = rep[e[2]]
      BY <2>3 DEF Joins
    <3>2. PICK f \in geps.normal : d = <<rep[f[1]], rep[f[2]], f[3]>>
      BY DEF FieldClosedInv, FieldKeptInv, FieldKept, GepFrom
    <3>3. f[3] = e[3]
      BY <1>3, <3>1, <3>2 DEF Sole
    <3>4. Reaches(toCollapse, pts[d[2]], ShiftIn(insensitive, o, d[3]))
      BY <2>2, <3>1 DEF AtTargets
    <3>5. Has(pts[d[2]], ShiftIn(insensitive, o, d[3]))
      BY <1>2, <3>4
    <3> QED BY <2>2, <3>1, <3>2, <3>3, <3>5, FieldAtIsShift
  <2>4. CASE ~Joins(gepEdges, rep, e)
    <3>1. rep[e[1]] = rep[e[2]] /\ rep[e[1]] \in pwc
      BY <1>3, <2>4 DEF FieldClosedInv, FieldKeptInv, FieldKept, GepKept, Cyclic
    <3>2. Collapsing1(o)
      BY <1>1, <2>1, <2>2, <3>1
    <3> QED BY <1>1, <2>2, <3>1, <3>2, CollapsedShift
  <2> QED BY <2>3, <2>4
<1>4. ASSUME NEW e \in geps.variant, NEW o \in getPts[e[1]]
      PROVE  Has(getPts[e[2]], whole(o))
  <2>1. e[1] \in Node /\ e[2] \in Node
    BY ProgramGeps DEF FieldClosedInv
  <2>2. /\ o \in pts[rep[e[1]]] /\ AtTargets(rep[e[1]], o) /\ getPts[e[2]] = pts[rep[e[2]]]
        /\ rep[e[1]] \in Node
    BY <1>1, <1>4, <2>1
  <2>3. CASE Joins(variantEdges, rep, e)
    <3>1. PICK d \in variantEdges : d[1] = rep[e[1]] /\ d[2] = rep[e[2]]
      BY <2>3 DEF Joins
    <3>2. Reaches(toCollapse, pts[d[2]], whole(o))
      BY <2>2, <3>1 DEF AtTargets
    <3> QED BY <1>2, <2>2, <3>1, <3>2
  <2>4. CASE ~Joins(variantEdges, rep, e)
    <3>1. rep[e[1]] = rep[e[2]] /\ rep[e[1]] \in pwc
      BY <2>4 DEF FieldClosedInv, FieldKeptInv, FieldKept, VariantKept
    <3>2. Collapsing1(o)
      BY <1>1, <2>1, <2>2, <3>1
    <3> QED BY <1>1, <2>2, <3>1, <3>2, CollapsedShift
  <2> QED BY <2>3, <2>4
<1> QED BY <1>3, <1>4 DEF GepHolds, VariantGepHolds

LEMMA FieldHandledAtEnd ==
  ASSUME FieldClosedInv
  PROVE  DoneHandledCollapsed
<1> SUFFICES ASSUME Done
             PROVE  /\ \A e \in prog.load : Unmerged(e[1]) =>
                         \A o \in pts[e[1]] \ Opaque : ~Mixed(o) => getPts[o] \subseteq getPts[e[2]]
                    /\ \A e \in prog.store : Unmerged(e[2]) =>
                         \A o \in pts[e[2]] \ Opaque : ~Mixed(o) => getPts[e[1]] \subseteq getPts[o]
  BY DEF DoneHandledCollapsed
<1>1. worklist = {} /\ pendLoads = {} /\ pendStores = {}
  BY QuietAtEnd
<1>2. prog \in Programs /\ pts \in Assignment
  BY DEF FieldClosedInv, FieldFormInv, FieldTypeOK, TypeOK
<1>3. ASSUME NEW e \in prog.load, Unmerged(e[1]), NEW o \in pts[e[1]] \ Opaque, ~Mixed(o)
      PROVE  getPts[o] \subseteq getPts[e[2]]
  <2>1. e[1] \in Node /\ e[2] \in Node
    BY <1>2, ProgramFields DEF Edge
  <2>2. <<e[1], rep[e[2]]>> \in loadEdges
    BY <1>3 DEF FieldClosedInv, FieldKeptInv, FieldKept, ConstraintsKept, LoadKept, Unmerged
  <2>3. Connects(copyEdges, rep[o], <<e[1], rep[e[2]]>>[2])
    BY <1>1, <1>3, <2>2 DEF FieldClosedInv, FieldKeptInv, FieldLoads
  <2>4. Joined(o, e[2])
    BY <2>3 DEF Joined
  <2>5. o \in Node
    BY <1>2, <2>1, GraphAssumption DEF Assignment
  <2> QED BY <2>1, <2>4, <2>5, JoinedAtEnd
<1>4. ASSUME NEW e \in prog.store, Unmerged(e[2]), NEW o \in pts[e[2]] \ Opaque, ~Mixed(o)
      PROVE  getPts[e[1]] \subseteq getPts[o]
  <2>1. e[1] \in Node /\ e[2] \in Node
    BY <1>2, ProgramFields DEF Edge
  <2>2. <<rep[e[1]], e[2]>> \in storeEdges
    BY <1>4 DEF FieldClosedInv, FieldKeptInv, FieldKept, ConstraintsKept, StoreKept, Unmerged
  <2>3. Connects(copyEdges, <<rep[e[1]], e[2]>>[1], rep[o])
    BY <1>1, <1>4, <2>2 DEF FieldClosedInv, FieldKeptInv, FieldStores
  <2>4. Joined(e[1], o)
    BY <2>3 DEF Joined
  <2>5. o \in Node
    BY <1>2, <2>1, GraphAssumption DEF Assignment
  <2> QED BY <2>1, <2>4, <2>5, JoinedAtEnd
<1> QED BY <1>3, <1>4

LEMMA FieldClosedAtEnd ==
  ASSUME FieldClosedInv
  PROVE  FieldDoneIsClosed
<1>1. ASSUME Done
      PROVE  AddrHolds(prog, getPts) /\ CopyHolds(prog, getPts)
  <2>1. prog \in Programs
    BY DEF FieldClosedInv, FieldFormInv, FieldTypeOK, TypeOK
  <2>2. /\ \A e \in prog.addr : e[2] \in Node
        /\ \A e \in prog.copy : e[1] \in Node /\ e[2] \in Node
    BY <2>1, ProgramFields DEF Edge
  <2>3. AddrKept /\ CopyKept
    BY DEF FieldClosedInv, FieldKeptInv, FieldKept, ConstraintsKept
  <2>4. AddrHolds(prog, getPts)
    BY <1>1, <2>2, <2>3, QuietAtEnd DEF AddrHolds, AddrKept
  <2>5. CopyHolds(prog, getPts)
    BY <1>1, <2>2, <2>3, JoinedAtEnd DEF CopyHolds, CopyKept
  <2> QED BY <2>4, <2>5
<1> QED BY <1>1, GepsAtEnd, FieldHandledAtEnd DEF FieldDoneIsClosed

(* However the merges of cycles and the collapses of objects fall among    *)
(* the nodes of a wave, the analysis ends closed: a pointer has every      *)
(* field the offsets lead it to, and loads and stores at the pointers that *)
(* were never merged have seen them (Andersen.cpp:209, 257, 306, 325;      *)
(* AndersenWave.cpp:41, 76).                                               *)
THEOREM FieldClosure == FieldSpec => []FieldDoneIsClosed
<1>1. FieldInit => FieldClosedInv
  BY FieldInitForm, FieldInitKept DEF FieldClosedInv, FieldInit, CollapsedInv
<1>2. FieldClosedInv /\ [FieldNext]_allVars => FieldClosedInv'
  BY NextFieldClosed
<1>3. FieldClosedInv => FieldDoneIsClosed
  BY FieldClosedAtEnd
<1> QED BY <1>1, <1>2, <1>3, PTL DEF FieldSpec

=============================================================================
