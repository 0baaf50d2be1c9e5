--------------------------- MODULE Andersen_proofs ---------------------------
(***************************************************************************)
(* Proofs about the standard solver, for every set of programs:            *)
(* its state is well formed, its result satisfies the constraints, and it  *)
(* contains nothing a solution does without.                               *)
(***************************************************************************)
EXTENDS Andersen, ConstraintGraph_proofs, FiniteSetTheorems

-----------------------------------------------------------------------------
(* The graph is well formed: see RepSubsAgree and EdgesAtRepresentatives.  *)
GraphInv ==
  /\ RepAgree(rep, subs)
  /\ AtReps(copyEdges, rep)
  /\ AtReps(loadEdges, rep)
  /\ AtReps(storeEdges, rep)

(* During addr nothing is merged and nothing points anywhere.              *)
FreshInv == phase = "addr" => rep = [n \in Node |-> n] /\ pts = [n \in Node |-> {}]

LEMMA InitTypeOK == Init => TypeOK
<1> SUFFICES ASSUME Init PROVE TypeOK
  OBVIOUS
<1>1. prog \in Programs
  BY DEF Init
<1>2. prog.copy \subseteq Edge /\ prog.load \subseteq Edge /\ prog.store \subseteq Edge
  BY <1>1, ProgramFields
<1> QED BY <1>1, <1>2 DEF Init, TypeOK, NoLoops, Assignment

(* The new copy edges of a processed representative are edges.             *)
LEMMA NewCopiesType ==
  ASSUME TypeOK, NEW n \in Node
  PROVE  NewCopies(n) \subseteq Edge
<1>1. pts[n] \subseteq Node
  BY GraphAssumption DEF TypeOK, Assignment
<1>2. LoadCopies(n) \subseteq Edge
  BY <1>1 DEF LoadCopies, TypeOK, Edge
<1>3. StoreCopies(n) \subseteq Edge
  BY <1>1 DEF StoreCopies, TypeOK, Edge
<1> QED BY <1>2, <1>3 DEF NewCopies, NoLoops

LEMMA NewCopiesAtReps ==
  ASSUME TypeOK, GraphInv, NEW n \in Node
  PROVE  AtReps(NewCopies(n), rep)
<1>1. pts[n] \subseteq Node
  BY GraphAssumption DEF TypeOK, Assignment
<1>2. \A m \in Node : rep[rep[m]] = rep[m]
  BY DEF GraphInv, RepAgree, TypeOK
<1>3. AtReps(LoadCopies(n), rep)
  BY <1>1, <1>2 DEF LoadCopies, GraphInv, AtReps
<1>4. AtReps(StoreCopies(n), rep)
  BY <1>1, <1>2 DEF StoreCopies, GraphInv, AtReps
<1> QED BY <1>3, <1>4 DEF NewCopies, NoLoops, AtReps

(* One step of the solver keeps the types and the graph well formed.       *)
LEMMA ProcessNodeKeepsGraph ==
  ASSUME TypeOK, GraphInv, NEW n \in Node, NEW queued \in SUBSET Node,
         nodeStack' \in SUBSET Node, ProcessNode(n, queued)
  PROVE  TypeOK' /\ GraphInv'
<1>1. NewCopies(n) \subseteq Edge /\ AtReps(NewCopies(n), rep)
  BY NewCopiesType, NewCopiesAtReps
<1>2. copyEdges' = copyEdges \cup NewCopies(n)
  BY DEF ProcessNode
<1>3. copyEdges' \subseteq Edge
  BY <1>1, <1>2 DEF TypeOK
<1>4. pts' \in Assignment
  BY DEF ProcessNode, TypeOK, Assignment
<1>5. worklist' \subseteq Node
  BY <1>1 DEF ProcessNode, Grown, Edge
<1>6. TypeOK'
  BY <1>3, <1>4, <1>5 DEF TypeOK, ProcessNode
<1>7. AtReps(copyEdges', rep)
  BY <1>1, <1>2 DEF GraphInv, AtReps
<1>8. GraphInv'
  BY <1>7 DEF GraphInv, ProcessNode
<1> QED BY <1>6, <1>8

LEMMA UpdateKeepsGraph ==
  ASSUME TypeOK, GraphInv, UpdateCallGraph
  PROVE  TypeOK' /\ GraphInv'
<1>1. PICK C \in NewCalls(prog, getPts, indCalls) :
        /\ indCalls' = indCalls \cup C
        /\ copyEdges' = copyEdges \cup (ParamCopies(prog, C, rep) \ copyEdges)
        /\ worklist' = {e[1] : e \in ParamCopies(prog, C, rep) \ copyEdges}
        /\ phase' = IF C = {} THEN "done" ELSE "scc"
  BY DEF UpdateCallGraph
<1>2. prog \in Programs /\ rep \in [Node -> Node]
  BY DEF TypeOK
<1>3. C \subseteq prog.callee
  BY <1>2, NewCallsCallable
<1>4. \A m \in Node : rep[rep[m]] = rep[m]
  BY <1>2 DEF GraphInv, RepAgree
<1>5. ParamCopies(prog, C, rep) \subseteq Edge /\ AtReps(ParamCopies(prog, C, rep), rep)
  BY <1>2, <1>3, <1>4, ParamCopiesAtReps
<1>6. copyEdges' \subseteq Edge /\ worklist' \subseteq Node
  BY <1>1, <1>5 DEF TypeOK, Edge
<1>7. TypeOK'
  BY <1>1, <1>3, <1>6 DEF TypeOK, UpdateCallGraph
<1>8. AtReps(copyEdges', rep)
  BY <1>1, <1>5 DEF GraphInv, AtReps
<1>9. GraphInv'
  BY <1>8 DEF GraphInv, UpdateCallGraph
<1> QED BY <1>7, <1>9

LEMMA MergeKeepsGraph ==
  ASSUME TypeOK, GraphInv, SCCDetect
  PROVE  TypeOK' /\ GraphInv'
<1>1. PICK root \in RootMaps(copyEdges) :
       /\ rep' = MergedRep(rep, subs, root)
       /\ subs' = MergedSubs(subs, root)
       /\ copyEdges' = NoLoops(Moved(copyEdges, root))
       /\ loadEdges' = Moved(loadEdges, root)
       /\ storeEdges' = Moved(storeEdges, root)
       /\ pts' = MergedPts(pts, root)
       /\ nodeStack' = {n \in Node : rep[n] = n /\ root[n] = n}
  BY DEF SCCDetect
<1> USE <1>1
<1>2. /\ rep \in [Node -> Node] /\ subs \in [Node -> SUBSET Node] /\ pts \in Assignment
      /\ copyEdges \subseteq Edge /\ loadEdges \subseteq Edge /\ storeEdges \subseteq Edge
      /\ RepAgree(rep, subs)
      /\ AtReps(copyEdges, rep) /\ AtReps(loadEdges, rep) /\ AtReps(storeEdges, rep)
  BY DEF TypeOK, GraphInv
<1>3. rep' \in [Node -> Node] /\ subs' \in [Node -> SUBSET Node] /\ RepAgree(rep', subs')
  BY <1>2, MergedMaps
<1>4. Moved(copyEdges, root) \subseteq Edge /\ AtReps(Moved(copyEdges, root), rep')
  BY <1>2, MovedAtReps
<1>5. loadEdges' \subseteq Edge /\ AtReps(loadEdges', rep')
  BY <1>2, MovedAtReps
<1>6. storeEdges' \subseteq Edge /\ AtReps(storeEdges', rep')
  BY <1>2, MovedAtReps
<1>7. copyEdges' \subseteq Edge /\ AtReps(copyEdges', rep')
  BY <1>4 DEF NoLoops, AtReps
<1>8. pts' \in Assignment
  BY <1>2, MergedPtsAtRoot
<1>9. TypeOK'
  BY <1>3, <1>5, <1>6, <1>7, <1>8 DEF TypeOK, SCCDetect
<1>10. GraphInv'
  BY <1>3, <1>5, <1>6, <1>7 DEF GraphInv
<1> QED BY <1>9, <1>10

LEMMA InitGraphInv == Init => GraphInv /\ FreshInv
<1> SUFFICES ASSUME Init PROVE GraphInv /\ FreshInv
  OBVIOUS
<1>1. prog \in Programs
  BY DEF Init
<1>2. /\ copyEdges \subseteq Edge /\ loadEdges \subseteq Edge /\ storeEdges \subseteq Edge
  BY InitTypeOK DEF TypeOK
<1> QED BY <1>2 DEF Init, GraphInv, FreshInv, RepAgree, AtReps, Edge

LEMMA NextGraphInv ==
  ASSUME TypeOK, GraphInv, FreshInv, [Next]_vars
  PROVE  TypeOK' /\ GraphInv' /\ FreshInv'
<1>1. CASE ProcessAllAddr
  BY <1>1 DEF ProcessAllAddr, graph, TypeOK, GraphInv, FreshInv, Assignment
<1>2. CASE SCCDetect
  <2>1. FreshInv'
    BY <1>2 DEF SCCDetect, FreshInv
  <2> QED BY <2>1, <1>2, MergeKeepsGraph
<1>3. ASSUME NEW n \in Node, ProcessTop(n)
      PROVE  TypeOK' /\ GraphInv' /\ FreshInv'
  <2>1. nodeStack' \in SUBSET Node /\ worklist \in SUBSET Node
    BY <1>3 DEF ProcessTop, TypeOK
  <2>2. FreshInv'
    BY <1>3 DEF ProcessTop, ProcessNode, FreshInv
  <2>3. ProcessNode(n, worklist)
    BY <1>3 DEF ProcessTop
  <2> QED BY <2>1, <2>2, <2>3, ProcessNodeKeepsGraph
<1>4. ASSUME NEW n \in Node, ProcessWorklist(n)
      PROVE  TypeOK' /\ GraphInv' /\ FreshInv'
  <2>1. /\ nodeStack' \in SUBSET Node /\ rep[n] \in Node
        /\ (worklist \ {n}) \in SUBSET Node
    BY <1>4 DEF ProcessWorklist, TypeOK
  <2>2. FreshInv'
    BY <1>4 DEF ProcessWorklist, ProcessNode, FreshInv
  <2>3. ProcessNode(rep[n], worklist \ {n})
    BY <1>4 DEF ProcessWorklist
  <2> QED BY <2>1, <2>2, <2>3, ProcessNodeKeepsGraph
<1>5. CASE UpdateCallGraph
  <2>1. FreshInv'
    BY <1>5 DEF UpdateCallGraph, FreshInv
  <2> QED BY <2>1, <1>5, UpdateKeepsGraph
<1>6. CASE UNCHANGED vars
  BY <1>6 DEF vars, graph, TypeOK, GraphInv, FreshInv
<1> QED BY <1>1, <1>2, <1>3, <1>4, <1>5, <1>6 DEF Next, Terminated

LEMMA WellFormed == Spec => [](TypeOK /\ GraphInv /\ FreshInv)
<1>1. Init => TypeOK /\ GraphInv /\ FreshInv
  BY InitTypeOK, InitGraphInv
<1>2. TypeOK /\ GraphInv /\ FreshInv /\ [Next]_vars
        => (TypeOK /\ GraphInv /\ FreshInv)'
  BY NextGraphInv
<1> QED BY <1>1, <1>2, PTL DEF Spec

(* Every reachable state is well formed.                                   *)
THEOREM TypeCorrect == Spec => []TypeOK
BY WellFormed, PTL

(* The representative maps agree at every moment, however often nodes that *)
(* stand for others are merged again.                                      *)
THEOREM RepresentativesAgree == Spec => []RepSubsAgree
<1>1. TypeOK /\ GraphInv /\ FreshInv => RepSubsAgree
  BY DEF GraphInv, RepAgree, RepSubsAgree
<1> QED BY <1>1, WellFormed, PTL

(* No edge ever ends at a node that has been merged away.                  *)
THEOREM EdgesStayAtRepresentatives == Spec => []EdgesAtRepresentatives
<1>1. TypeOK /\ GraphInv /\ FreshInv => EdgesAtRepresentatives
  BY DEF GraphInv, AtReps, EdgesAtRepresentatives
<1> QED BY <1>1, WellFormed, PTL

-----------------------------------------------------------------------------
(***************************************************************************)
(* Soundness.  The constraints of the program stay in the graph, modulo    *)
(* merging, and a representative that is neither on the topological stack  *)
(* nor on the worklist is saturated: what it points to has reached the     *)
(* targets of its copy edges, and its loads and stores have their edges.   *)
(***************************************************************************)
Joined(E, m, n) == rep[m] = rep[n] \/ <<rep[m], rep[n]>> \in E

AddrKept  == phase # "addr" => \A e \in prog.addr : e[1] \in pts[rep[e[2]]]
CopyKept  == \A e \in prog.copy : Joined(copyEdges, e[1], e[2])
LoadKept  == \A e \in prog.load : <<rep[e[1]], rep[e[2]]>> \in loadEdges
StoreKept == \A e \in prog.store : <<rep[e[1]], rep[e[2]]>> \in storeEdges
CallKept  == \A c \in indCalls : \A e \in prog.params[c] : Joined(copyEdges, e[1], e[2])

ConstraintsKept == AddrKept /\ CopyKept /\ LoadKept /\ StoreKept /\ CallKept

CopySaturated(n) ==
  \A m \in Node : <<n, m>> \in copyEdges => pts[n] \subseteq pts[m]

LoadSaturated(n) ==
  \A m \in Node : <<n, m>> \in loadEdges =>
    \A o \in pts[n] \ Opaque : rep[o] = m \/ <<rep[o], m>> \in copyEdges

StoreSaturated(n) ==
  \A m \in Node : <<m, n>> \in storeEdges =>
    \A o \in pts[n] \ Opaque : rep[o] = m \/ <<m, rep[o]>> \in copyEdges

Saturated(n) == CopySaturated(n) /\ LoadSaturated(n) /\ StoreSaturated(n)

RestSaturated ==
  /\ phase \in {"solve", "done"} =>
       \A n \in Node : rep[n] = n /\ n \notin nodeStack /\ n \notin worklist => Saturated(n)
  /\ phase = "done" => nodeStack = {} /\ worklist = {}

WellFormedInv == TypeOK /\ GraphInv /\ FreshInv

SoundInv == ConstraintsKept /\ RestSaturated

(* At the end, being saturated everywhere means being a solution.          *)
LEMMA SaturatedIsSolution ==
  ASSUME WellFormedInv, SoundInv
  PROVE  DoneIsSolution
<1> SUFFICES ASSUME phase = "done"
             PROVE  /\ AddrHolds(prog, getPts)
                    /\ CopyHolds(prog, getPts)
                    /\ LoadHolds(prog, getPts)
                    /\ StoreHolds(prog, getPts)
                    /\ CallsResolved => CallHolds(prog, getPts)
  BY DEF DoneIsSolution, Done
<1>1. /\ prog \in Programs /\ rep \in [Node -> Node] /\ pts \in Assignment
      /\ \A n \in Node : rep[n] \in Node /\ rep[rep[n]] = rep[n]
      /\ Obj \subseteq Node
  BY GraphAssumption DEF WellFormedInv, TypeOK, GraphInv, RepAgree
<1>2. \A n \in Node : Saturated(rep[n])
  BY <1>1 DEF SoundInv, RestSaturated
<1>3. \A n \in Node : getPts[n] = pts[rep[n]] /\ getPts[n] \subseteq Obj
  BY <1>1 DEF getPts, Assignment
<1>4. ASSUME NEW m \in Node, NEW n \in Node, Joined(copyEdges, m, n)
      PROVE  getPts[m] \subseteq getPts[n]
  BY <1>1, <1>2, <1>3, <1>4 DEF Joined, Saturated, CopySaturated
<1>5. AddrHolds(prog, getPts)
  <2>1. \A e \in prog.addr : e[2] \in Node
    BY <1>1, ProgramFields
  <2> QED BY <2>1, <1>3 DEF AddrHolds, SoundInv, ConstraintsKept, AddrKept
<1>6. CopyHolds(prog, getPts)
  <2>1. \A e \in prog.copy : e[1] \in Node /\ e[2] \in Node
    BY <1>1, ProgramFields DEF Edge
  <2> QED BY <2>1, <1>4 DEF CopyHolds, SoundInv, ConstraintsKept, CopyKept
<1>7. LoadHolds(prog, getPts)
  <2> SUFFICES ASSUME NEW e \in prog.load, NEW o \in getPts[e[1]] \ Opaque
               PROVE  getPts[o] \subseteq getPts[e[2]]
    BY DEF LoadHolds
  <2>1. e[1] \in Node /\ e[2] \in Node
    BY <1>1, ProgramFields DEF Edge
  <2>2. o \in Node /\ o \in pts[rep[e[1]]] \ Opaque
    BY <2>1, <1>1, <1>3
  <2>3. <<rep[e[1]], rep[e[2]]>> \in loadEdges
    BY DEF SoundInv, ConstraintsKept, LoadKept
  <2>4. Joined(copyEdges, o, e[2])
    <3>1. rep[e[2]] \in Node /\ LoadSaturated(rep[e[1]])
      BY <2>1, <1>1, <1>2 DEF Saturated
    <3> QED BY <3>1, <2>2, <2>3 DEF LoadSaturated, Joined
  <2> QED BY <2>1, <2>2, <2>4, <1>4
<1>8. StoreHolds(prog, getPts)
  <2> SUFFICES ASSUME NEW e \in prog.store, NEW o \in getPts[e[2]] \ Opaque
               PROVE  getPts[e[1]] \subseteq getPts[o]
    BY DEF StoreHolds
  <2>1. e[1] \in Node /\ e[2] \in Node
    BY <1>1, ProgramFields DEF Edge
  <2>2. o \in Node /\ o \in pts[rep[e[2]]] \ Opaque
    BY <2>1, <1>1, <1>3
  <2>3. <<rep[e[1]], rep[e[2]]>> \in storeEdges
    BY DEF SoundInv, ConstraintsKept, StoreKept
  <2>4. Joined(copyEdges, e[1], o)
    <3>1. rep[e[1]] \in Node /\ StoreSaturated(rep[e[2]])
      BY <2>1, <1>1, <1>2 DEF Saturated
    <3> QED BY <3>1, <2>2, <2>3 DEF StoreSaturated, Joined
  <2> QED BY <2>1, <2>2, <2>4, <1>4
<1>9. ASSUME CallsResolved PROVE CallHolds(prog, getPts)
  <2> SUFFICES ASSUME NEW c \in prog.callee, c[2] \in getPts[prog.funptr[c[1]]],
                      NEW e \in prog.params[c]
               PROVE  getPts[e[1]] \subseteq getPts[e[2]]
    BY DEF CallHolds
  <2>1. c \in indCalls
    BY <1>9 DEF CallsResolved, Callable
  <2>2. e[1] \in Node /\ e[2] \in Node
    BY <1>1, ProgramFields DEF Edge
  <2> QED BY <2>1, <2>2, <1>4 DEF SoundInv, ConstraintsKept, CallKept
<1> QED BY <1>5, <1>6, <1>7, <1>8, <1>9

LEMMA InitSound == Init => SoundInv
<1> SUFFICES ASSUME Init PROVE SoundInv
  OBVIOUS
<1>1. prog \in Programs
  BY DEF Init
<1>2. \A e \in prog.copy \cup prog.load \cup prog.store :
        e[1] \in Node /\ e[2] \in Node /\ e = <<e[1], e[2]>>
  BY <1>1, ProgramFields DEF Edge
<1>3. CopyKept /\ LoadKept /\ StoreKept
  BY <1>2 DEF Init, CopyKept, LoadKept, StoreKept, Joined, NoLoops
<1> QED BY <1>3 DEF Init, SoundInv, ConstraintsKept, AddrKept, CallKept, RestSaturated

LEMMA AddrSound ==
  ASSUME WellFormedInv, SoundInv, ProcessAllAddr
  PROVE  SoundInv'
<1>1. rep = [n \in Node |-> n] /\ prog \in Programs
  BY DEF ProcessAllAddr, WellFormedInv, FreshInv, TypeOK
<1>2. \A e \in prog.addr : e[1] \in Obj /\ e[2] \in Node /\ e = <<e[1], e[2]>>
  BY <1>1, ProgramFields
<1>3. AddrKept'
  BY <1>1, <1>2 DEF AddrKept, ProcessAllAddr, graph
<1>4. (CopyKept /\ LoadKept /\ StoreKept /\ CallKept)'
  BY DEF SoundInv, ConstraintsKept, CopyKept, LoadKept, StoreKept, CallKept, Joined,
         ProcessAllAddr, graph
<1>5. RestSaturated'
  BY DEF RestSaturated, ProcessAllAddr
<1> QED BY <1>3, <1>4, <1>5 DEF SoundInv, ConstraintsKept

(* Merging keeps the constraints, and nothing is left off the stack.       *)
LEMMA MergeSound ==
  ASSUME WellFormedInv, SoundInv, SCCDetect
  PROVE  SoundInv'
<1>1. PICK root \in RootMaps(copyEdges) :
       /\ rep' = MergedRep(rep, subs, root)
       /\ copyEdges' = NoLoops(Moved(copyEdges, root))
       /\ loadEdges' = Moved(loadEdges, root)
       /\ storeEdges' = Moved(storeEdges, root)
       /\ pts' = MergedPts(pts, root)
       /\ nodeStack' = {n \in Node : rep[n] = n /\ root[n] = n}
  BY DEF SCCDetect
<1>2. /\ rep \in [Node -> Node] /\ subs \in [Node -> SUBSET Node] /\ pts \in Assignment
      /\ copyEdges \subseteq Edge /\ prog \in Programs
      /\ RepAgree(rep, subs) /\ AtReps(copyEdges, rep)
      /\ indCalls \subseteq prog.callee
  BY DEF WellFormedInv, TypeOK, GraphInv
<1>3. \A n \in Node : rep'[n] = root[rep[n]]
  BY <1>1, <1>2, MergedRepIsRoot
<1>4. root \in [Node -> Node] /\ \A n \in Node : root[root[n]] = root[n]
  BY <1>1, RootOfComponent
<1>5. \A n \in Node : rep[n] \in Node /\ rep[rep[n]] = rep[n]
  BY <1>2 DEF RepAgree
<1>6. phase = "scc" /\ phase' = "solve" /\ prog' = prog /\ indCalls' = indCalls
  BY DEF SCCDetect
<1>7. ASSUME NEW m \in Node, NEW n \in Node, Joined(copyEdges, m, n)
      PROVE  Joined(copyEdges, m, n)'
  <2>1. CASE rep[m] = rep[n]
    BY <2>1, <1>3 DEF Joined
  <2>2. CASE <<rep[m], rep[n]>> \in copyEdges
    <3>1. <<root[rep[m]], root[rep[n]]>> \in Moved(copyEdges, root)
      BY <2>2 DEF Moved
    <3> QED BY <3>1, <1>1, <1>3 DEF Joined, NoLoops
  <2> QED BY <2>1, <2>2, <1>7 DEF Joined
<1>8. AddrKept'
  <2> SUFFICES ASSUME NEW e \in prog.addr PROVE e[1] \in pts'[rep'[e[2]]]
    BY <1>6 DEF AddrKept
  <2>1. e[2] \in Node
    BY <1>2, ProgramFields
  <2>2. e[1] \in pts[rep[e[2]]]
    BY <1>6 DEF SoundInv, ConstraintsKept, AddrKept
  <2>3. pts[rep[e[2]]] \subseteq pts'[root[rep[e[2]]]]
    BY <1>1, <1>2, <1>5, <2>1, MergedPtsAtRoot
  <2> QED BY <2>1, <2>2, <2>3, <1>3
<1>9. CopyKept'
  <2>1. \A e \in prog.copy : e[1] \in Node /\ e[2] \in Node
    BY <1>2, ProgramFields DEF Edge
  <2> QED BY <2>1, <1>6, <1>7 DEF SoundInv, ConstraintsKept, CopyKept
<1>10. LoadKept'
  <2>1. \A e \in prog.load : e[1] \in Node /\ e[2] \in Node
    BY <1>2, ProgramFields DEF Edge
  <2>2. \A e \in prog.load : <<rep[e[1]], rep[e[2]]>> \in loadEdges
    BY DEF SoundInv, ConstraintsKept, LoadKept
  <2>3. \A e \in prog.load : <<root[rep[e[1]]], root[rep[e[2]]]>> \in loadEdges'
    BY <2>2, <1>1, MovedEdge
  <2> QED BY <2>1, <2>3, <1>3, <1>6 DEF LoadKept
<1>11. StoreKept'
  <2>1. \A e \in prog.store : e[1] \in Node /\ e[2] \in Node
    BY <1>2, ProgramFields DEF Edge
  <2>2. \A e \in prog.store : <<rep[e[1]], rep[e[2]]>> \in storeEdges
    BY DEF SoundInv, ConstraintsKept, StoreKept
  <2>3. \A e \in prog.store : <<root[rep[e[1]]], root[rep[e[2]]]>> \in storeEdges'
    BY <2>2, <1>1, MovedEdge
  <2> QED BY <2>1, <2>3, <1>3, <1>6 DEF StoreKept
<1>12. CallKept'
  <2>1. \A c \in indCalls : \A e \in prog.params[c] : e[1] \in Node /\ e[2] \in Node
    BY <1>2, ProgramFields DEF Edge
  <2> QED BY <2>1, <1>6, <1>7 DEF SoundInv, ConstraintsKept, CallKept
<1>13. RestSaturated'
  <2>1. ASSUME NEW n \in Node, rep'[n] = n PROVE n \in nodeStack'
    <3>1. root[rep[n]] = n
      BY <1>3, <2>1
    <3>2. root[n] = n
      BY <3>1, <1>4, <1>5
    <3>3. rep[n] = n
      BY <3>1, <1>1, <1>2, <1>5, RootOfLive
    <3> QED BY <3>2, <3>3, <1>1
  <2> QED BY <2>1, <1>6 DEF RestSaturated
<1> QED BY <1>8, <1>9, <1>10, <1>11, <1>12, <1>13 DEF SoundInv, ConstraintsKept

(* Processing representative n saturates it, unless it is pushed again,    *)
(* and disturbs no node that is not pushed.                                *)
LEMMA ProcessNodeSaturates ==
  ASSUME WellFormedInv, NEW n \in Node, NEW queued, ProcessNode(n, queued),
         NEW m \in Node, m \notin worklist',
         m = n \/ Saturated(m)
  PROVE  Saturated(m)'
<1> DEFINE new == NewCopies(n)
           E   == copyEdges \cup new
<1>1. /\ copyEdges' = E
      /\ pts' = [k \in Node |-> IF <<n, k>> \in E THEN pts[k] \cup pts[n] ELSE pts[k]]
      /\ worklist' = queued \cup {e[1] : e \in new} \cup Grown(n, E)
      /\ rep' = rep /\ loadEdges' = loadEdges /\ storeEdges' = storeEdges
  BY DEF ProcessNode
<1>2. pts \in Assignment
  BY DEF WellFormedInv, TypeOK
<1>3. /\ \A k \in Node : pts[k] \subseteq pts'[k]
      /\ copyEdges \subseteq copyEdges'
  BY <1>1, <1>2 DEF Assignment
<1>4. pts'[m] = pts[m]
  <2>1. m \notin Grown(n, E)
    BY <1>1
  <2> QED BY <2>1, <1>1 DEF Grown
<1>5. \A k \in Node : <<m, k>> \in copyEdges' => <<m, k>> \in copyEdges
  BY <1>1
<1>6. CASE Saturated(m)
  <2>1. CopySaturated(m)'
    BY <1>3, <1>4, <1>5, <1>6 DEF Saturated, CopySaturated
  <2>2. LoadSaturated(m)'
    BY <1>1, <1>3, <1>4, <1>6 DEF Saturated, LoadSaturated
  <2>3. StoreSaturated(m)'
    BY <1>1, <1>3, <1>4, <1>6 DEF Saturated, StoreSaturated
  <2> QED BY <2>1, <2>2, <2>3 DEF Saturated
<1>7. CASE m = n
  <2>1. CopySaturated(m)'
    <3> SUFFICES ASSUME NEW k \in Node, <<n, k>> \in E PROVE pts[n] \subseteq pts'[k]
      BY <1>1, <1>4, <1>7 DEF CopySaturated
    <3> QED BY <1>1
  <2>2. LoadSaturated(m)'
    <3> SUFFICES ASSUME NEW k \in Node, <<n, k>> \in loadEdges, NEW o \in pts[n] \ Opaque
                 PROVE  rep[o] = k \/ <<rep[o], k>> \in E
      BY <1>1, <1>4, <1>7 DEF LoadSaturated
    <3>1. <<rep[o], k>> \in LoadCopies(n)
      BY DEF LoadCopies
    <3> QED BY <3>1 DEF NewCopies, NoLoops
  <2>3. StoreSaturated(m)'
    <3> SUFFICES ASSUME NEW k \in Node, <<k, n>> \in storeEdges, NEW o \in pts[n] \ Opaque
                 PROVE  rep[o] = k \/ <<k, rep[o]>> \in E
      BY <1>1, <1>4, <1>7 DEF StoreSaturated
    <3>1. <<k, rep[o]>> \in StoreCopies(n)
      BY DEF StoreCopies
    <3> QED BY <3>1 DEF NewCopies, NoLoops
  <2> QED BY <2>1, <2>2, <2>3 DEF Saturated
<1> QED BY <1>6, <1>7

LEMMA ProcessNodeKeeps ==
  ASSUME WellFormedInv, ConstraintsKept, NEW n \in Node, NEW queued, ProcessNode(n, queued)
  PROVE  ConstraintsKept'
<1>1. /\ copyEdges \subseteq copyEdges' /\ rep' = rep /\ prog' = prog /\ phase' = phase
      /\ loadEdges' = loadEdges /\ storeEdges' = storeEdges /\ indCalls' = indCalls
  BY DEF ProcessNode
<1>2. \A k \in Node : pts[k] \subseteq pts'[k]
  BY DEF ProcessNode, WellFormedInv, TypeOK, Assignment
<1>3. prog \in Programs /\ rep \in [Node -> Node]
  BY DEF WellFormedInv, TypeOK
<1>4. \A e \in prog.addr : rep[e[2]] \in Node
  BY <1>3, ProgramFields
<1>5. AddrKept'
  BY <1>1, <1>2, <1>4 DEF ConstraintsKept, AddrKept
<1> QED BY <1>1, <1>5 DEF ConstraintsKept, CopyKept, LoadKept, StoreKept, CallKept, Joined

LEMMA ProcessTopSound ==
  ASSUME WellFormedInv, SoundInv, NEW n \in Node, ProcessTop(n)
  PROVE  SoundInv'
<1>1. ProcessNode(n, worklist) /\ phase = "solve" /\ nodeStack' = nodeStack \ {n}
  BY DEF ProcessTop
<1>2. rep' = rep /\ phase' = phase /\ worklist \subseteq worklist'
  BY <1>1 DEF ProcessNode
<1>3. ASSUME NEW m \in Node, rep[m] = m, m \notin nodeStack', m \notin worklist'
      PROVE  Saturated(m)'
  <2>1. m = n \/ Saturated(m)
    BY <1>1, <1>2, <1>3 DEF SoundInv, RestSaturated
  <2> QED BY <2>1, <1>1, <1>3, ProcessNodeSaturates
<1>4. RestSaturated'
  BY <1>1, <1>2, <1>3 DEF RestSaturated
<1> QED BY <1>1, <1>4, ProcessNodeKeeps DEF SoundInv

LEMMA ProcessWorklistSound ==
  ASSUME WellFormedInv, SoundInv, NEW n \in Node, ProcessWorklist(n)
  PROVE  SoundInv'
<1>1. /\ ProcessNode(rep[n], worklist \ {n}) /\ phase = "solve"
      /\ nodeStack = {} /\ nodeStack' = nodeStack
  BY DEF ProcessWorklist
<1>2. rep' = rep /\ phase' = phase /\ worklist \ {n} \subseteq worklist'
  BY <1>1 DEF ProcessNode
<1>3. rep[n] \in Node
  BY DEF WellFormedInv, TypeOK
<1>4. ASSUME NEW m \in Node, rep[m] = m, m \notin nodeStack', m \notin worklist'
      PROVE  Saturated(m)'
  <2>1. m = rep[n] \/ Saturated(m)
    BY <1>1, <1>2, <1>4 DEF SoundInv, RestSaturated
  <2> QED BY <2>1, <1>1, <1>3, <1>4, ProcessNodeSaturates
<1>5. RestSaturated'
  BY <1>1, <1>2, <1>4 DEF RestSaturated
<1> QED BY <1>1, <1>3, <1>5, ProcessNodeKeeps DEF SoundInv

LEMMA UpdateSound ==
  ASSUME WellFormedInv, SoundInv, UpdateCallGraph
  PROVE  SoundInv'
<1>1. PICK C \in NewCalls(prog, getPts, indCalls) :
        /\ indCalls' = indCalls \cup C
        /\ copyEdges' = copyEdges \cup (ParamCopies(prog, C, rep) \ copyEdges)
        /\ worklist' = {e[1] : e \in ParamCopies(prog, C, rep) \ copyEdges}
        /\ phase' = IF C = {} THEN "done" ELSE "scc"
  BY DEF UpdateCallGraph
<1>2. /\ phase = "solve" /\ nodeStack = {} /\ worklist = {}
      /\ prog' = prog /\ rep' = rep /\ pts' = pts /\ nodeStack' = nodeStack
      /\ loadEdges' = loadEdges /\ storeEdges' = storeEdges
  BY DEF UpdateCallGraph, graph
<1>3. (AddrKept /\ CopyKept /\ LoadKept /\ StoreKept)'
  BY <1>1, <1>2 DEF SoundInv, ConstraintsKept, AddrKept, CopyKept, LoadKept, StoreKept, Joined
<1>4. CallKept'
  <2> SUFFICES ASSUME NEW c \in indCalls \cup C, NEW e \in prog.params[c]
               PROVE  Joined(copyEdges, e[1], e[2])'
    BY <1>1, <1>2 DEF CallKept
  <2>1. CASE c \in indCalls
    BY <2>1, <1>1, <1>2 DEF SoundInv, ConstraintsKept, CallKept, Joined
  <2>2. CASE c \in C
    <3>1. e \in UNION {prog.params[k] : k \in C}
      BY <2>2
    <3>2. rep[e[1]] = rep[e[2]] \/ <<rep[e[1]], rep[e[2]]>> \in ParamCopies(prog, C, rep)
      BY <3>1 DEF ParamCopies, NoLoops
    <3> QED BY <3>2, <1>1, <1>2 DEF Joined
  <2> QED BY <2>1, <2>2
<1>5. RestSaturated'
  <2>1. CASE C = {}
    <3>1. ParamCopies(prog, C, rep) = {}
      BY <2>1 DEF ParamCopies, NoLoops
    <3>2. copyEdges' = copyEdges /\ worklist' = {}
      BY <3>1, <1>1
    <3>3. \A n \in Node : Saturated(n) => Saturated(n)'
      BY <3>2, <1>2 DEF Saturated, CopySaturated, LoadSaturated, StoreSaturated
    <3> QED BY <3>2, <3>3, <1>2 DEF SoundInv, RestSaturated
  <2>2. CASE C # {}
    BY <2>2, <1>1 DEF RestSaturated
  <2> QED BY <2>1, <2>2
<1> QED BY <1>3, <1>4, <1>5 DEF SoundInv, ConstraintsKept

LEMMA NextSound ==
  ASSUME WellFormedInv, SoundInv, [Next]_vars
  PROVE  SoundInv'
<1>1. CASE UNCHANGED vars
  BY <1>1 DEF vars, graph, SoundInv, ConstraintsKept, AddrKept, CopyKept, LoadKept, StoreKept,
              CallKept, Joined, RestSaturated, Saturated, CopySaturated, LoadSaturated,
              StoreSaturated
<1> QED BY <1>1, AddrSound, MergeSound, ProcessTopSound, ProcessWorklistSound, UpdateSound
        DEF Next, Terminated

LEMMA SoundInvariant == Spec => [](WellFormedInv /\ SoundInv)
<1>1. Init => WellFormedInv /\ SoundInv
  BY InitTypeOK, InitGraphInv, InitSound DEF WellFormedInv
<1>2. WellFormedInv /\ SoundInv /\ [Next]_vars => (WellFormedInv /\ SoundInv)'
  BY NextGraphInv, NextSound DEF WellFormedInv
<1> QED BY <1>1, <1>2, PTL DEF Spec

(* Soundness: when the analysis ends, its points-to sets satisfy every     *)
(* constraint of the program.                                              *)
THEOREM Soundness == Spec => []DoneIsSolution
<1>1. WellFormedInv /\ SoundInv => DoneIsSolution
  BY SaturatedIsSolution
<1> QED BY <1>1, SoundInvariant, PTL

-----------------------------------------------------------------------------
(***************************************************************************)
(* Precision.  Let T be any solution.  The points-to sets stay below T,    *)
(* T satisfies every edge of the graph as a constraint, and T gives a node *)
(* and its representative the same set.  So merging the nodes of a copy    *)
(* cycle is harmless: T is equal on a cycle of edges it satisfies.         *)
(***************************************************************************)
Below(T) ==
  \A n \in Node : pts[n] \subseteq T[n] /\ T[rep[n]] = T[n]

GraphHolds(T) ==
  /\ \A e \in copyEdges : T[e[1]] \subseteq T[e[2]]
  /\ \A e \in loadEdges : \A o \in T[e[1]] \ Opaque : T[o] \subseteq T[e[2]]
  /\ \A e \in storeEdges : \A o \in T[e[2]] \ Opaque : T[e[1]] \subseteq T[o]

PreciseInv ==
  \A T \in Assignment : IsSolution(prog, T) => Below(T) /\ GraphHolds(T)

LEMMA InitPrecise == Init => PreciseInv
<1> SUFFICES ASSUME Init, NEW T \in Assignment, IsSolution(prog, T)
             PROVE  Below(T) /\ GraphHolds(T)
  BY DEF PreciseInv
<1>1. Below(T)
  BY DEF Init, Below
<1>2. GraphHolds(T)
  BY DEF Init, GraphHolds, IsSolution, CopyHolds, LoadHolds, StoreHolds, NoLoops
<1> QED BY <1>1, <1>2

LEMMA AddrPrecise ==
  ASSUME WellFormedInv, PreciseInv, ProcessAllAddr
  PROVE  PreciseInv'
<1> SUFFICES ASSUME NEW T \in Assignment, IsSolution(prog, T)
             PROVE  (Below(T) /\ GraphHolds(T))'
  BY DEF PreciseInv, ProcessAllAddr
<1>1. Below(T) /\ GraphHolds(T)
  BY DEF PreciseInv
<1>2. Below(T)'
  BY <1>1 DEF Below, ProcessAllAddr, graph, IsSolution, AddrHolds
<1>3. GraphHolds(T)'
  BY <1>1 DEF GraphHolds, ProcessAllAddr, graph
<1> QED BY <1>2, <1>3

LEMMA MergePrecise ==
  ASSUME WellFormedInv, PreciseInv, SCCDetect
  PROVE  PreciseInv'
<1> SUFFICES ASSUME NEW T \in Assignment, IsSolution(prog, T)
             PROVE  (Below(T) /\ GraphHolds(T))'
  BY DEF PreciseInv, SCCDetect
<1>1. Below(T) /\ GraphHolds(T)
  BY DEF PreciseInv
<1>2. PICK root \in RootMaps(copyEdges) :
       /\ rep' = MergedRep(rep, subs, root)
       /\ copyEdges' = NoLoops(Moved(copyEdges, root))
       /\ loadEdges' = Moved(loadEdges, root)
       /\ storeEdges' = Moved(storeEdges, root)
       /\ pts' = MergedPts(pts, root)
  BY DEF SCCDetect
<1>3. /\ rep \in [Node -> Node] /\ subs \in [Node -> SUBSET Node] /\ pts \in Assignment
      /\ copyEdges \subseteq Edge /\ loadEdges \subseteq Edge /\ storeEdges \subseteq Edge
      /\ RepAgree(rep, subs) /\ AtReps(copyEdges, rep)
  BY DEF WellFormedInv, TypeOK, GraphInv
<1>4. \A n \in Node : T[root[n]] = T[n]
  BY <1>1, <1>2, <1>3, RootHasSameSet DEF GraphHolds
<1>5. \A n \in Node : rep'[n] = root[rep[n]]
  BY <1>2, <1>3, MergedRepIsRoot
<1>6. Below(T)'
  <2> SUFFICES ASSUME NEW n \in Node
               PROVE  pts'[n] \subseteq T[n] /\ T[rep'[n]] = T[n]
    BY DEF Below
  <2>1. T[rep'[n]] = T[n]
    BY <1>1, <1>3, <1>4, <1>5 DEF Below
  <2>2. ASSUME NEW o \in pts'[n] PROVE o \in T[n]
    <3>1. PICK m \in Node : root[m] = root[n] /\ o \in pts[m]
      BY <2>2, <1>2, <1>3, MergedPtsAtRoot
    <3>2. T[m] = T[n]
      BY <3>1, <1>4
    <3> QED BY <3>1, <3>2, <1>1 DEF Below
  <2> QED BY <2>1, <2>2
<1>7. GraphHolds(T)'
  <2>1. ASSUME NEW e \in copyEdges' PROVE T[e[1]] \subseteq T[e[2]]
    <3>1. PICK d \in copyEdges : e = <<root[d[1]], root[d[2]]>>
      BY <2>1, <1>2 DEF NoLoops, Moved
    <3> QED BY <3>1, <1>1, <1>3, <1>4 DEF GraphHolds, Edge
  <2>2. ASSUME NEW e \in loadEdges', NEW o \in T[e[1]] \ Opaque
        PROVE  T[o] \subseteq T[e[2]]
    <3>1. PICK d \in loadEdges : e = <<root[d[1]], root[d[2]]>>
      BY <2>2, <1>2 DEF Moved
    <3>2. T[e[1]] = T[d[1]] /\ T[e[2]] = T[d[2]]
      BY <3>1, <1>3, <1>4 DEF Edge
    <3> QED BY <3>2, <2>2, <1>1 DEF GraphHolds
  <2>3. ASSUME NEW e \in storeEdges', NEW o \in T[e[2]] \ Opaque
        PROVE  T[e[1]] \subseteq T[o]
    <3>1. PICK d \in storeEdges : e = <<root[d[1]], root[d[2]]>>
      BY <2>3, <1>2 DEF Moved
    <3>2. T[e[1]] = T[d[1]] /\ T[e[2]] = T[d[2]]
      BY <3>1, <1>3, <1>4 DEF Edge
    <3> QED BY <3>2, <2>3, <1>1 DEF GraphHolds
  <2> QED BY <2>1, <2>2, <2>3 DEF GraphHolds
<1> QED BY <1>6, <1>7

LEMMA ProcessNodePrecise ==
  ASSUME WellFormedInv, PreciseInv, NEW n \in Node, NEW queued, ProcessNode(n, queued)
  PROVE  PreciseInv'
<1> SUFFICES ASSUME NEW T \in Assignment, IsSolution(prog, T)
             PROVE  (Below(T) /\ GraphHolds(T))'
  BY DEF PreciseInv, ProcessNode
<1>1. Below(T) /\ GraphHolds(T)
  BY DEF PreciseInv
<1> DEFINE E == copyEdges \cup NewCopies(n)
<1>2. /\ copyEdges' = E
      /\ pts' = [m \in Node |-> IF <<n, m>> \in E THEN pts[m] \cup pts[n] ELSE pts[m]]
      /\ rep' = rep /\ loadEdges' = loadEdges /\ storeEdges' = storeEdges
  BY DEF ProcessNode
<1>3. pts[n] \subseteq Obj /\ pts[n] \subseteq Node
  BY GraphAssumption DEF WellFormedInv, TypeOK, Assignment
<1>4. ASSUME NEW e \in LoadCopies(n) PROVE T[e[1]] \subseteq T[e[2]]
  <2>1. PICK o \in pts[n] \ Opaque, l \in loadEdges : l[1] = n /\ e = <<rep[o], l[2]>>
    BY <1>4 DEF LoadCopies
  <2>2. o \in T[l[1]] \ Opaque /\ T[rep[o]] = T[o]
    BY <2>1, <1>1, <1>3 DEF Below
  <2> QED BY <2>1, <2>2, <1>1 DEF GraphHolds
<1>5. ASSUME NEW e \in StoreCopies(n) PROVE T[e[1]] \subseteq T[e[2]]
  <2>1. PICK o \in pts[n] \ Opaque, s \in storeEdges : s[2] = n /\ e = <<s[1], rep[o]>>
    BY <1>5 DEF StoreCopies
  <2>2. o \in T[s[2]] \ Opaque /\ T[rep[o]] = T[o]
    BY <2>1, <1>1, <1>3 DEF Below
  <2> QED BY <2>1, <2>2, <1>1 DEF GraphHolds
<1>6. \A e \in E : T[e[1]] \subseteq T[e[2]]
  BY <1>1, <1>4, <1>5 DEF GraphHolds, NewCopies, NoLoops
<1>7. GraphHolds(T)'
  BY <1>1, <1>2, <1>6 DEF GraphHolds
<1>8. Below(T)'
  <2>1. \A m \in Node : <<n, m>> \in E => T[n] \subseteq T[m]
    BY <1>6
  <2> QED BY <2>1, <1>1, <1>2 DEF Below
<1> QED BY <1>7, <1>8

LEMMA UpdatePrecise ==
  ASSUME WellFormedInv, PreciseInv, UpdateCallGraph
  PROVE  PreciseInv'
<1> SUFFICES ASSUME NEW T \in Assignment, IsSolution(prog, T)
             PROVE  (Below(T) /\ GraphHolds(T))'
  BY DEF PreciseInv, UpdateCallGraph
<1>1. Below(T) /\ GraphHolds(T)
  BY DEF PreciseInv
<1>2. PICK C \in NewCalls(prog, getPts, indCalls) :
        copyEdges' = copyEdges \cup (ParamCopies(prog, C, rep) \ copyEdges)
  BY DEF UpdateCallGraph
<1>3. /\ pts' = pts /\ rep' = rep /\ loadEdges' = loadEdges /\ storeEdges' = storeEdges
  BY DEF UpdateCallGraph
<1>4. /\ prog \in Programs /\ rep \in [Node -> Node]
      /\ C \subseteq prog.callee /\ \A c \in C : c[2] \in getPts[prog.funptr[c[1]]]
  BY <1>2, NewCallsCallable DEF WellFormedInv, TypeOK
<1>5. ASSUME NEW e \in ParamCopies(prog, C, rep) PROVE T[e[1]] \subseteq T[e[2]]
  <2>1. PICK c \in C : \E d \in prog.params[c] : e = <<rep[d[1]], rep[d[2]]>>
    BY <1>5 DEF ParamCopies, NoLoops
  <2>2. PICK d \in prog.params[c] : e = <<rep[d[1]], rep[d[2]]>>
    BY <2>1
  <2>3. d[1] \in Node /\ d[2] \in Node /\ prog.funptr[c[1]] \in Node
    BY <1>4, ProgramFields DEF Edge
  <2>4. c[2] \in T[prog.funptr[c[1]]]
    BY <2>3, <1>1, <1>4 DEF getPts, Below
  <2>5. T[d[1]] \subseteq T[d[2]]
    BY <2>4, <1>4 DEF IsSolution, CallHolds
  <2> QED BY <2>2, <2>3, <2>5, <1>1 DEF Below
<1>6. Below(T)'
  BY <1>1, <1>3 DEF Below
<1>7. GraphHolds(T)'
  BY <1>1, <1>2, <1>3, <1>5 DEF GraphHolds
<1> QED BY <1>6, <1>7

LEMMA NextPrecise ==
  ASSUME WellFormedInv, PreciseInv, [Next]_vars
  PROVE  PreciseInv'
<1>1. CASE UNCHANGED vars
  BY <1>1 DEF vars, graph, PreciseInv, Below, GraphHolds
<1>2. ASSUME NEW n \in Node, ProcessTop(n) PROVE PreciseInv'
  BY <1>2, ProcessNodePrecise DEF ProcessTop
<1>3. ASSUME NEW n \in Node, ProcessWorklist(n) PROVE PreciseInv'
  <2>1. rep[n] \in Node
    BY DEF WellFormedInv, TypeOK
  <2> QED BY <2>1, <1>3, ProcessNodePrecise DEF ProcessWorklist
<1> QED BY <1>1, <1>2, <1>3, AddrPrecise, MergePrecise, UpdatePrecise DEF Next, Terminated

LEMMA PreciseInvariant == Spec => [](WellFormedInv /\ PreciseInv)
<1>1. Init => WellFormedInv /\ PreciseInv
  BY InitTypeOK, InitGraphInv, InitPrecise DEF WellFormedInv
<1>2. WellFormedInv /\ PreciseInv /\ [Next]_vars => (WellFormedInv /\ PreciseInv)'
  BY NextGraphInv, NextPrecise DEF WellFormedInv
<1> QED BY <1>1, <1>2, PTL DEF Spec

LEMMA PreciseImplies ==
  ASSUME WellFormedInv, PreciseInv
  PROVE  NeverSpurious
<1> SUFFICES ASSUME NEW T \in Assignment, IsSolution(prog, T), NEW n \in Node
             PROVE  getPts[n] \subseteq T[n]
  BY DEF NeverSpurious, NothingSpurious
<1>1. Below(T)
  BY DEF PreciseInv
<1>2. rep[n] \in Node
  BY DEF WellFormedInv, TypeOK
<1> QED BY <1>1, <1>2 DEF Below, getPts

(* Precision: at no time does a variable point to an object that some      *)
(* solution of the constraints keeps out.                                  *)
THEOREM Precision == Spec => []NeverSpurious
<1>1. WellFormedInv /\ PreciseInv => NeverSpurious
  BY PreciseImplies
<1> QED BY <1>1, PreciseInvariant, PTL

-----------------------------------------------------------------------------
(***************************************************************************)
(* Points-to sets grow, and the solver implements InclusionAnalysis.       *)
(***************************************************************************)
Grows == \A n \in Node : getPts[n] \subseteq getPts'[n]

LEMMA NextGrows ==
  ASSUME WellFormedInv, [Next]_vars
  PROVE  Grows
<1>1. /\ rep \in [Node -> Node] /\ pts \in Assignment
      /\ subs \in [Node -> SUBSET Node] /\ copyEdges \subseteq Edge
      /\ RepAgree(rep, subs) /\ AtReps(copyEdges, rep)
  BY DEF WellFormedInv, TypeOK, GraphInv
<1>2. CASE ProcessAllAddr
  BY <1>2, <1>1 DEF ProcessAllAddr, graph, WellFormedInv, FreshInv, Grows, getPts
<1>3. CASE SCCDetect
  <2>1. PICK root \in RootMaps(copyEdges) :
          rep' = MergedRep(rep, subs, root) /\ pts' = MergedPts(pts, root)
    BY <1>3 DEF SCCDetect
  <2> SUFFICES ASSUME NEW n \in Node PROVE pts[rep[n]] \subseteq pts'[rep'[n]]
    BY DEF Grows, getPts
  <2>2. rep'[n] = root[rep[n]]
    BY <1>1, <2>1, MergedRepIsRoot
  <2> QED BY <1>1, <2>1, <2>2, MergedPtsAtRoot
<1>4. ASSUME NEW n \in Node, NEW queued, ProcessNode(n, queued) PROVE Grows
  BY <1>1, <1>4 DEF ProcessNode, Grows, getPts, Assignment
<1>5. ASSUME NEW n \in Node, ProcessTop(n) PROVE Grows
  BY <1>4, <1>5 DEF ProcessTop
<1>6. ASSUME NEW n \in Node, ProcessWorklist(n) PROVE Grows
  BY <1>1, <1>4, <1>6 DEF ProcessWorklist
<1>7. CASE UpdateCallGraph
  BY <1>7 DEF UpdateCallGraph, Grows, getPts
<1>8. CASE UNCHANGED vars
  BY <1>8 DEF vars, graph, Grows, getPts
<1> QED BY <1>2, <1>3, <1>5, <1>6, <1>7, <1>8 DEF Next, Terminated

(* What a variable may point to only grows, across merges too.             *)
THEOREM Growth == Spec => PointsToGrows
<1>1. WellFormedInv /\ [Next]_vars => [Grows]_vars
  BY NextGrows
<1>2. Spec => []WellFormedInv
  BY WellFormed, PTL DEF WellFormedInv
<1> QED BY <1>1, <1>2, PTL DEF Spec, PointsToGrows, Grows

(* The budget of resolved calls is never reached.                          *)
BudgetSuffices ==
  \A p \in Programs : IsFiniteSet(p.callee) /\ Cardinality(p.callee) <= IndirectCallLimit

(* If the budget allows every call, the analysis ends with all resolved.   *)
LEMMA EndsResolved ==
  ASSUME BudgetSuffices, TypeOK, NEW C \in NewCalls(prog, getPts, indCalls), C = {}
  PROVE  CallsResolved
<1>1. prog \in Programs /\ indCalls \subseteq prog.callee
  BY DEF TypeOK
<1>2. /\ IsFiniteSet(prog.callee) /\ Cardinality(prog.callee) \in Nat
      /\ Cardinality(prog.callee) <= IndirectCallLimit
  BY <1>1, FS_CardinalityType DEF BudgetSuffices
<1>3. Cardinality(indCalls) \in Nat /\ Cardinality(indCalls) <= IndirectCallLimit
  <2>1. IsFiniteSet(indCalls) /\ Cardinality(indCalls) <= Cardinality(prog.callee)
    BY <1>1, <1>2, FS_Subset
  <2>2. Cardinality(indCalls) \in Nat
    BY <2>1, FS_CardinalityType
  <2> QED BY <2>1, <2>2, <1>2, GraphAssumption
<1>4. Cardinality(C) = 0
  BY FS_EmptySet
<1>5. Cardinality(C) # BudgetLeft(indCalls)
  BY <1>3, <1>4, GraphAssumption DEF BudgetLeft
<1> QED BY <1>5 DEF NewCalls, CallsResolved

LEMMA StepRefines ==
  ASSUME BudgetSuffices,
         WellFormedInv, (WellFormedInv /\ DoneIsSolution /\ NeverSpurious)', [Next]_vars
  PROVE  [Abstract!Next]_(Abstract!vars)
<1>1. Grows
  BY NextGrows
<1>2. getPts' \in Assignment
  BY DEF WellFormedInv, TypeOK, getPts, Assignment
<1>3. NeverSpurious' /\ DoneIsSolution'
  OBVIOUS
<1>4. ASSUME ~Done, ~Done', prog' = prog PROVE Abstract!Next
  <2>1. Abstract!NothingSpurious(prog, getPts')
    BY <1>3, <1>4 DEF NeverSpurious, NothingSpurious, IsSolution, AddrHolds, CopyHolds,
         LoadHolds, StoreHolds, CallHolds, Assignment,
         Abstract!NothingSpurious, Abstract!IsSolution, Abstract!AddrHolds,
         Abstract!CopyHolds, Abstract!LoadHolds, Abstract!StoreHolds,
         Abstract!CallHolds, Abstract!Assignment
  <2> QED BY <2>1, <1>1, <1>2, <1>4 DEF Abstract!Next, Abstract!Derive, Abstract!Assignment,
         Assignment, Grows, Done
<1>5. CASE UpdateCallGraph /\ phase' = "done"
  <2>1. /\ phase = "solve" /\ prog' = prog /\ pts' = pts /\ rep' = rep
    BY <1>5 DEF UpdateCallGraph
  <2>2. PICK C \in NewCalls(prog, getPts, indCalls) :
          indCalls' = indCalls \cup C /\ C = {}
    BY <1>5 DEF UpdateCallGraph
  <2>3. CallsResolved
    BY <2>2, EndsResolved DEF WellFormedInv
  <2>4. getPts' = getPts /\ indCalls' = indCalls
    BY <2>1, <2>2 DEF getPts
  <2>5. CallsResolved'
    BY <2>1, <2>3, <2>4 DEF CallsResolved
  <2>6. Abstract!IsSolution(prog, getPts)
    BY <1>3, <1>5, <2>1, <2>4, <2>5 DEF DoneIsSolution, Done,
         AddrHolds, CopyHolds, LoadHolds, StoreHolds, CallHolds,
         Abstract!IsSolution, Abstract!AddrHolds, Abstract!CopyHolds,
         Abstract!LoadHolds, Abstract!StoreHolds, Abstract!CallHolds
  <2> QED BY <1>5, <2>1, <2>4, <2>6 DEF Done, Abstract!Next, Abstract!Finish
<1>6. CASE UNCHANGED vars
  BY <1>6 DEF vars, graph, getPts, Done, Abstract!vars
<1>7. CASE ProcessAllAddr
  BY <1>4, <1>7 DEF ProcessAllAddr, Done
<1>8. CASE SCCDetect
  BY <1>4, <1>8 DEF SCCDetect, Done
<1>9. ASSUME NEW n \in Node, ProcessTop(n) PROVE Abstract!Next
  BY <1>4, <1>9 DEF ProcessTop, ProcessNode, Done
<1>10. ASSUME NEW n \in Node, ProcessWorklist(n) PROVE Abstract!Next
  BY <1>4, <1>10 DEF ProcessWorklist, ProcessNode, Done
<1>11. CASE UpdateCallGraph /\ phase' # "done"
  BY <1>4, <1>11 DEF UpdateCallGraph, Done
<1> QED BY <1>5, <1>6, <1>7, <1>8, <1>9, <1>10, <1>11 DEF Next, Terminated

(* The solver implements the abstract analysis: if the budget of resolved  *)
(* calls suffices, it stops only at the least solution.                    *)
THEOREM Implementation ==
  ASSUME BudgetSuffices
  PROVE  Spec => ImplementsInclusionAnalysis
<1>1. Init => Abstract!Init
  BY InitTypeOK DEF Init, Abstract!Init, getPts, Done, TypeOK
<1>2. WellFormedInv /\ (WellFormedInv /\ DoneIsSolution /\ NeverSpurious)' /\ [Next]_vars
        => [Abstract!Next]_(Abstract!vars)
  BY StepRefines
<1> QED BY <1>1, <1>2, SoundInvariant, Soundness, Precision, PTL
        DEF Spec, ImplementsInclusionAnalysis, Abstract!Spec

=============================================================================
