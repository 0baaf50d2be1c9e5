------------------------ MODULE ConstraintGraph_proofs ------------------------
(***************************************************************************)
(* What merging copy cycles does to the constraint graph, proved for every *)
(* graph: the facts the proofs about the solvers rest on.                  *)
(***************************************************************************)
EXTENDS ConstraintGraph, TLAPS

(* The representative maps agree: see RepSubsAgree of the solvers.         *)
RepAgree(rep, subs) ==
  \A n, r \in Node : rep[n] = r <=> rep[r] = r /\ n \in subs[r]

(* The copy edges join representatives.                                    *)
AtReps(E, rep) == \A e \in E : rep[e[1]] = e[1] /\ rep[e[2]] = e[2]

(* Each field of a program has its type.                                   *)
LEMMA ProgramFields ==
  ASSUME NEW p \in Programs
  PROVE  /\ p.addr \subseteq Obj \X Node
         /\ p.copy \subseteq Edge
         /\ p.load \subseteq Edge
         /\ p.store \subseteq Edge
         /\ p.funptr \in [CallSite -> Node]
         /\ p.callee \subseteq CallSite \X Obj
         /\ p.params \in [CallSite \X Obj -> SUBSET Edge]
BY GraphAssumption DEF Program

(* A root map sends every node to a member of its component, and the       *)
(* chosen member to itself.                                                *)
LEMMA RootOfComponent ==
  ASSUME NEW E, NEW root \in RootMaps(E)
  PROVE  /\ root \in [Node -> Node]
         /\ \A n \in Node : root[n] \in Components(E)[n]
         /\ \A n \in Node : root[root[n]] = root[n]
<1> DEFINE scc == Components(E)
<1> DEFINE cyclic == {C \in {scc[n] : n \in Node} : \E m, n \in C : m # n}
<1>1. PICK pick \in [cyclic -> UNION cyclic] :
        /\ \A C \in cyclic : pick[C] \in C
        /\ root = [n \in Node |-> IF scc[n] \in cyclic THEN pick[scc[n]] ELSE n]
  BY DEF RootMaps
<1>2. \A n \in Node : n \in scc[n] /\ scc[n] \subseteq Node
  BY DEF Components
<1>3. \A n \in Node : root[n] \in scc[n]
  BY <1>1, <1>2
<1>4. root \in [Node -> Node]
  BY <1>1, <1>2, <1>3
<1>5. \A n \in Node : scc[root[n]] = scc[n]
  BY <1>3, <1>4 DEF Components
<1>6. ASSUME NEW n \in Node PROVE root[root[n]] = root[n]
  <2>1. CASE scc[n] \in cyclic
    BY <1>1, <1>4, <1>5, <2>1
  <2>2. CASE scc[n] \notin cyclic
    BY <1>1, <2>2
  <2> QED BY <2>1, <2>2
<1> HIDE DEF scc
<1> QED BY <1>3, <1>4, <1>6 DEF scc

(* A set closed under the edges contains a node and its root, or neither.  *)
LEMMA RootInClosed ==
  ASSUME NEW E, NEW root \in RootMaps(E),
         NEW S \in SUBSET Node, \A e \in E : e[1] \in S => e[2] \in S,
         NEW n \in Node
  PROVE  root[n] \in S <=> n \in S
<1>1. S \in ClosedSets(E)
  BY DEF ClosedSets
<1>2. root[n] \in Components(E)[n]
  BY RootOfComponent
<1> QED BY <1>1, <1>2 DEF Components

(* A node without edges is its own root and no other node's.               *)
LEMMA RootOfIsolated ==
  ASSUME NEW E, E \subseteq Edge, NEW root \in RootMaps(E), NEW n \in Node,
         \A e \in E : e[1] # n /\ e[2] # n,
         NEW m \in Node, root[m] = n
  PROVE  m = n
<1>1. {n} \in SUBSET Node /\ \A e \in E : e[1] \in {n} => e[2] \in {n}
  OBVIOUS
<1> QED BY <1>1, RootInClosed

LEMMA RootOfIsolatedIsItself ==
  ASSUME NEW E, E \subseteq Edge, NEW root \in RootMaps(E), NEW n \in Node,
         \A e \in E : e[1] # n /\ e[2] # n
  PROVE  root[n] = n
<1>1. {n} \in SUBSET Node /\ \A e \in E : e[1] \in {n} => e[2] \in {n}
  OBVIOUS
<1> QED BY <1>1, RootInClosed

(* A node and its root are representatives both or neither.                *)
LEMMA RootOfLive ==
  ASSUME NEW E, E \subseteq Edge, NEW root \in RootMaps(E),
         NEW rep, AtReps(E, rep), NEW n \in Node
  PROVE  rep[n] = n <=> rep[root[n]] = root[n]
<1>1. root[n] \in Node
  BY RootOfComponent
<1>2. CASE root[n] = n
  BY <1>2
<1>3. CASE root[n] # n
  <2>1. rep[n] = n
    <3> SUFFICES ASSUME rep[n] # n PROVE FALSE
      OBVIOUS
    <3>1. \A e \in E : e[1] # n /\ e[2] # n
      BY DEF AtReps
    <3> QED BY <3>1, <1>3, RootOfIsolatedIsItself
  <2>2. rep[root[n]] = root[n]
    <3> SUFFICES ASSUME rep[root[n]] # root[n] PROVE FALSE
      OBVIOUS
    <3>1. \A e \in E : e[1] # root[n] /\ e[2] # root[n]
      BY DEF AtReps
    <3> QED BY <3>1, <1>1, <1>3, RootOfIsolated
  <2> QED BY <2>1, <2>2
<1> QED BY <1>2, <1>3

(* After a merge the representative of n is the root of the one it had.    *)
LEMMA MergedRepIsRoot ==
  ASSUME NEW E, E \subseteq Edge, NEW root \in RootMaps(E),
         NEW rep \in [Node -> Node], NEW subs \in [Node -> SUBSET Node],
         RepAgree(rep, subs), AtReps(E, rep), NEW n \in Node
  PROVE  MergedRep(rep, subs, root)[n] = root[rep[n]]
<1>1. ASSUME NEW m \in MergedNodes(root), n \in subs[m] PROVE m = rep[n]
  <2>1. m \in Node /\ root[m] # m
    BY DEF MergedNodes
  <2>2. rep[m] = m
    <3> SUFFICES ASSUME rep[m] # m PROVE FALSE
      OBVIOUS
    <3>1. \A e \in E : e[1] # m /\ e[2] # m
      BY DEF AtReps
    <3> QED BY <3>1, <2>1, RootOfIsolatedIsItself
  <2> QED BY <1>1, <2>1, <2>2 DEF RepAgree
<1>2. rep[n] \in Node /\ n \in subs[rep[n]]
  BY DEF RepAgree
<1>3. CASE root[rep[n]] # rep[n]
  <2>1. rep[n] \in MergedNodes(root)
    BY <1>2, <1>3 DEF MergedNodes
  <2>2. (CHOOSE m \in MergedNodes(root) : n \in subs[m]) = rep[n]
    BY <1>1, <1>2, <2>1
  <2> QED BY <1>2, <2>1, <2>2 DEF MergedRep
<1>4. CASE root[rep[n]] = rep[n]
  <2>1. ~ \E m \in MergedNodes(root) : n \in subs[m]
    BY <1>1, <1>4 DEF MergedNodes
  <2> QED BY <2>1, <1>4 DEF MergedRep
<1> QED BY <1>3, <1>4

(* Merging keeps the representative maps in agreement.                     *)
LEMMA MergedMaps ==
  ASSUME NEW E, E \subseteq Edge, NEW root \in RootMaps(E),
         NEW rep \in [Node -> Node], NEW subs \in [Node -> SUBSET Node],
         RepAgree(rep, subs), AtReps(E, rep)
  PROVE  /\ MergedRep(rep, subs, root) \in [Node -> Node]
         /\ MergedSubs(subs, root) \in [Node -> SUBSET Node]
         /\ RepAgree(MergedRep(rep, subs, root), MergedSubs(subs, root))
<1> DEFINE newRep  == MergedRep(rep, subs, root)
           newSubs == MergedSubs(subs, root)
<1>1. root \in [Node -> Node] /\ \A n \in Node : root[root[n]] = root[n]
  BY RootOfComponent
<1>2. \A n \in Node : newRep[n] = root[rep[n]]
  BY MergedRepIsRoot
<1>3. \A n \in Node : rep[n] = n <=> rep[root[n]] = root[n]
  BY RootOfLive
<1>4. newRep = [n \in Node |-> root[rep[n]]]
  BY <1>2 DEF MergedRep
<1>5. newSubs \in [Node -> SUBSET Node]
  BY DEF MergedSubs, MergedNodes
<1>6. \A r \in Node : \A n \in Node :
        n \in newSubs[r] <=> n \in subs[r] \/ \E m \in Node : root[m] = r /\ m # r /\ n \in subs[m]
  BY <1>1 DEF MergedSubs, MergedNodes
<1>7. ASSUME NEW n \in Node, NEW r \in Node, newRep[n] = r
      PROVE  newRep[r] = r /\ n \in newSubs[r]
  <2>1. rep[n] \in Node /\ rep[rep[n]] = rep[n] /\ n \in subs[rep[n]]
    BY DEF RepAgree
  <2>2. root[rep[n]] = r
    BY <1>2, <1>7
  <2>3. rep[r] = r
    BY <1>3, <2>1, <2>2
  <2>4. newRep[r] = r
    BY <1>1, <1>2, <2>1, <2>2, <2>3
  <2> QED BY <2>1, <2>2, <2>4, <1>6
<1>8. ASSUME NEW n \in Node, NEW r \in Node, newRep[r] = r, n \in newSubs[r]
      PROVE  newRep[n] = r
  <2>1. rep[r] \in Node /\ rep[rep[r]] = rep[r]
    BY DEF RepAgree
  <2>2. root[rep[r]] = r
    BY <1>2, <1>8
  <2>3. rep[r] = r
    BY <1>3, <2>1, <2>2
  <2>4. CASE n \in subs[r]
    <3>1. rep[n] = r
      BY <2>3, <2>4 DEF RepAgree
    <3> QED BY <3>1, <2>2, <2>3, <1>2
  <2>5. ASSUME NEW m \in Node, root[m] = r, m # r, n \in subs[m]
        PROVE  newRep[n] = r
    <3>1. rep[m] = m
      BY <1>3, <2>3, <2>5
    <3>2. rep[n] = m
      BY <2>5, <3>1 DEF RepAgree
    <3> QED BY <3>2, <2>5, <1>2
  <2> QED BY <1>6, <1>8, <2>4, <2>5
<1>9. RepAgree(newRep, newSubs)
  BY <1>7, <1>8 DEF RepAgree
<1>10. newRep \in [Node -> Node]
  BY <1>1, <1>4
<1> QED BY <1>5, <1>9, <1>10

(* Every edge is moved.                                                    *)
LEMMA MovedEdge ==
  ASSUME NEW E, NEW m, NEW n, <<m, n>> \in E, NEW root
  PROVE  <<root[m], root[n]>> \in Moved(E, root)
BY DEF Moved

(* Moved edges join the new representatives.                               *)
LEMMA MovedAtReps ==
  ASSUME NEW E, E \subseteq Edge, NEW root \in RootMaps(E),
         NEW rep \in [Node -> Node], NEW subs \in [Node -> SUBSET Node],
         RepAgree(rep, subs), AtReps(E, rep),
         NEW F, F \subseteq Edge, AtReps(F, rep)
  PROVE  /\ Moved(F, root) \subseteq Edge
         /\ AtReps(Moved(F, root), MergedRep(rep, subs, root))
<1>1. root \in [Node -> Node] /\ \A n \in Node : root[root[n]] = root[n]
  BY RootOfComponent
<1>2. \A n \in Node : MergedRep(rep, subs, root)[n] = root[rep[n]]
  BY MergedRepIsRoot
<1>3. \A n \in Node : rep[n] = n <=> rep[root[n]] = root[n]
  BY RootOfLive
<1>4. \A e \in F : e[1] \in Node /\ e[2] \in Node
  BY DEF Edge
<1>5. Moved(F, root) \subseteq Edge
  BY <1>1, <1>4 DEF Moved, Edge
<1>6. ASSUME NEW f \in F
      PROVE  /\ MergedRep(rep, subs, root)[root[f[1]]] = root[f[1]]
             /\ MergedRep(rep, subs, root)[root[f[2]]] = root[f[2]]
  <2>1. f[1] \in Node /\ f[2] \in Node /\ rep[f[1]] = f[1] /\ rep[f[2]] = f[2]
    BY <1>4 DEF AtReps
  <2>2. /\ root[f[1]] \in Node /\ rep[root[f[1]]] = root[f[1]]
        /\ root[f[2]] \in Node /\ rep[root[f[2]]] = root[f[2]]
    BY <2>1, <1>1, <1>3
  <2> QED BY <2>1, <2>2, <1>1, <1>2
<1> QED BY <1>5, <1>6 DEF AtReps, Moved

(* The representative of a component points to what its members did.       *)
LEMMA MergedPtsAtRoot ==
  ASSUME NEW E, NEW root \in RootMaps(E), NEW pts \in Assignment
  PROVE  /\ MergedPts(pts, root) \in Assignment
         /\ \A n \in Node : pts[n] \subseteq MergedPts(pts, root)[root[n]]
         /\ \A n \in Node : \A o \in MergedPts(pts, root)[n] :
              \E m \in Node : root[m] = root[n] /\ o \in pts[m]
<1>1. root \in [Node -> Node] /\ \A n \in Node : root[root[n]] = root[n]
  BY RootOfComponent
<1>2. MergedPts(pts, root) \in Assignment
  BY DEF MergedPts, Assignment
<1>3. \A n \in Node : pts[n] \subseteq MergedPts(pts, root)[root[n]]
  BY <1>1 DEF MergedPts
<1>4. \A n \in Node : \A o \in MergedPts(pts, root)[n] :
        \E m \in Node : root[m] = root[n] /\ o \in pts[m]
  BY <1>1 DEF MergedPts
<1> QED BY <1>2, <1>3, <1>4

(* A merge keeps connected what is connected: two nodes are one, or the    *)
(* first has a copy edge to the second.                                    *)
Connects(E, m, n) == m = n \/ <<m, n>> \in E

LEMMA MergeKeepsConnects ==
  ASSUME NEW E, NEW root, NEW m, NEW n, Connects(E, m, n)
  PROVE  Connects(NoLoops(Moved(E, root)), root[m], root[n])
<1>1. CASE m = n
  BY <1>1 DEF Connects
<1>2. CASE <<m, n>> \in E
  <2>1. <<root[m], root[n]>> \in Moved(E, root)
    BY <1>2, MovedEdge
  <2> QED BY <2>1 DEF NoLoops, Connects
<1> QED BY <1>1, <1>2 DEF Connects

(* A solution of the copy edges is equal on the nodes of a component.      *)
LEMMA RootHasSameSet ==
  ASSUME NEW E, NEW root \in RootMaps(E), NEW T \in Assignment,
         \A e \in E : T[e[1]] \subseteq T[e[2]], E \subseteq Edge, NEW n \in Node
  PROVE  T[root[n]] = T[n]
<1>1. root[n] \in Node
  BY RootOfComponent
<1>2. ASSUME NEW o \in Obj PROVE o \in T[root[n]] <=> o \in T[n]
  <2> DEFINE S == {k \in Node : o \in T[k]}
  <2>1. \A e \in E : e[1] \in S => e[2] \in S
    BY DEF Edge
  <2>2. S \in SUBSET Node
    OBVIOUS
  <2> HIDE DEF S
  <2>3. root[n] \in S <=> n \in S
    BY <2>1, <2>2, RootInClosed
  <2> QED BY <2>3, <1>1 DEF S
<1> QED BY <1>1, <1>2 DEF Assignment

(* A solution that is equal on components satisfies moved edges too.       *)
LEMMA MovedEdgesHold ==
  ASSUME NEW T, NEW root, \A n \in Node : T[root[n]] = T[n], NEW E, E \subseteq Edge
  PROVE  /\ (\A e \in E : T[e[1]] \subseteq T[e[2]])
              => \A e \in Moved(E, root) : T[e[1]] \subseteq T[e[2]]
         /\ (\A e \in E : \A o \in T[e[1]] \ Opaque : T[o] \subseteq T[e[2]])
              => \A e \in Moved(E, root) : \A o \in T[e[1]] \ Opaque : T[o] \subseteq T[e[2]]
         /\ (\A e \in E : \A o \in T[e[2]] \ Opaque : T[e[1]] \subseteq T[o])
              => \A e \in Moved(E, root) : \A o \in T[e[2]] \ Opaque : T[e[1]] \subseteq T[o]
<1>1. ASSUME NEW e \in Moved(E, root)
      PROVE  \E d \in E : T[e[1]] = T[d[1]] /\ T[e[2]] = T[d[2]]
  <2>1. PICK d \in E : e = <<root[d[1]], root[d[2]]>>
    BY <1>1 DEF Moved
  <2>2. d[1] \in Node /\ d[2] \in Node
    BY DEF Edge
  <2> QED BY <2>1, <2>2
<1>2. ASSUME \A e \in E : T[e[1]] \subseteq T[e[2]], NEW e \in Moved(E, root)
      PROVE  T[e[1]] \subseteq T[e[2]]
  BY <1>1, <1>2
<1>3. ASSUME \A e \in E : \A o \in T[e[1]] \ Opaque : T[o] \subseteq T[e[2]],
             NEW e \in Moved(E, root), NEW o \in T[e[1]] \ Opaque
      PROVE  T[o] \subseteq T[e[2]]
  BY <1>1, <1>3
<1>4. ASSUME \A e \in E : \A o \in T[e[2]] \ Opaque : T[e[1]] \subseteq T[o],
             NEW e \in Moved(E, root), NEW o \in T[e[2]] \ Opaque
      PROVE  T[e[1]] \subseteq T[o]
  BY <1>1, <1>4
<1> QED BY <1>2, <1>3, <1>4

(* Resolved calls are callable, and callable calls are calls.              *)
LEMMA NewCallsCallable ==
  ASSUME NEW p \in Programs, NEW S, NEW resolved, NEW C \in NewCalls(p, S, resolved)
  PROVE  /\ C \subseteq p.callee
         /\ \A c \in C : c[2] \in S[p.funptr[c[1]]]
BY DEF NewCalls, Callable

(* Parameter copies join representatives.                                  *)
LEMMA ParamCopiesAtReps ==
  ASSUME NEW p \in Programs, NEW C, C \subseteq p.callee,
         NEW rep \in [Node -> Node], \A n \in Node : rep[rep[n]] = rep[n]
  PROVE  /\ ParamCopies(p, C, rep) \subseteq Edge
         /\ AtReps(ParamCopies(p, C, rep), rep)
<1>1. \A c \in C : p.params[c] \subseteq Edge
  BY ProgramFields
<1>2. \A e \in UNION {p.params[c] : c \in C} : e[1] \in Node /\ e[2] \in Node
  BY <1>1 DEF Edge
<1> QED BY <1>2 DEF ParamCopies, NoLoops, AtReps, Edge

=============================================================================
