-------------------------- MODULE SVFGOPT_proofs --------------------------
(***************************************************************************)
(* Proofs about the reduction of the value-flow graph, for every graph.    *)
(***************************************************************************)
EXTENDS SVFGOPT, FiniteSetTheorems, WellFoundedInduction, TLAPS

PhaseInv ==
  /\ phase = "retarget" => nodes = DOMAIN prog.kind
  /\ phase \in {"retarget", "remove"} => worklist = {}
  /\ phase \in {"intra", "done"} => todo = {}
  /\ phase = "retarget" => todo \subseteq Of({"ain", "fout"})
  /\ phase = "remove" => todo \subseteq Of({"ain", "aout", "fin"})

(* Calls and returns leave only actual-in and formal-out nodes and their   *)
(* definitions; before the worklist runs nothing else leaves the former,   *)
(* and nothing else but stores enters actual-out and formal-in nodes.      *)
InterInv ==
  \A e \in edges :
    /\ IsInter(e) => prog.kind[e[1]] \in {"ain", "fout"} \/ isDefOfAInFOut(e[1])
    /\ phase \in {"retarget", "remove"} =>
         /\ prog.kind[e[1]] \in {"ain", "fout"} => IsInter(e)
         /\ prog.kind[e[2]] \in {"aout", "fin"} => IsInter(e) \/ prog.kind[e[1]] = "store"

WorklistInv == \A n \in worklist : prog.kind[n] = "phi" /\ ~ isDefOfAInFOut(n)

IInv == TypeOK /\ PhaseInv /\ InterInv /\ WorklistInv

LEMMA InitInv == Init => IInv
<1> SUFFICES ASSUME Init PROVE IInv
  OBVIOUS
<1>1. TypeOK
  <2>1. prog \in Programs /\ nodes = DOMAIN prog.kind /\ edges = prog.edges
    BY DEF Init
  <2>2. edges \subseteq nodes \X nodes \X (Context \cup {Intra}) \X Obj
    BY <2>1, GraphAssumption
  <2>3. todo \subseteq nodes
    BY DEF Init, Of
  <2> QED
    BY <2>1, <2>2, <2>3 DEF Init, TypeOK
<1>2. PhaseInv
  BY DEF Init, PhaseInv, Of
<1>3. InterInv
  BY GraphAssumption DEF Init, InterInv, IsInter
<1>4. WorklistInv
  BY DEF Init, WorklistInv
<1> QED
  BY <1>1, <1>2, <1>3, <1>4 DEF IInv

LEMMA EdgeFields ==
  ASSUME TypeOK, NEW e \in edges
  PROVE  /\ e = <<e[1], e[2], e[3], e[4]>>
         /\ e[1] \in nodes /\ e[2] \in nodes /\ e[3] \in Context \cup {Intra} /\ e[4] \in Obj
BY DEF TypeOK

(* A joined edge leads from the source of an edge of E into n to the       *)
(* destination of one out of it, with the context Ctx chooses.             *)
LEMMA JoinedSecond ==
  ASSUME NEW E, NEW n, NEW e \in Joined(E, n, Second)
  PROVE  \E a \in InEdges(E, n), b \in OutEdges(E, n) : e = <<a[1], b[2], b[3], a[4]>>
BY DEF Joined, Second

LEMMA JoinedFirst ==
  ASSUME NEW E, NEW n, NEW e \in Joined(E, n, First)
  PROVE  \E a \in InEdges(E, n), b \in OutEdges(E, n) : e = <<a[1], b[2], a[3], a[4]>>
BY DEF Joined, First

LEMMA JoinedEither ==
  ASSUME NEW E, NEW n, NEW e \in Joined(E, n, Either)
  PROVE  \E a \in InEdges(E, n), b \in OutEdges(E, n) :
           e = <<a[1], b[2], IF a[3] = Intra THEN b[3] ELSE a[3], a[4]>>
BY DEF Joined, Either

LEMMA RetargetStep ==
  ASSUME IInv, NEW n \in nodes, RetargetAInFOut(n)
  PROVE  IInv'
<1> USE DEF IInv
<1>0. n \in Of({"ain", "fout"}) /\ n \in DOMAIN prog.kind
  BY DEF RetargetAInFOut, PhaseInv, Of
<1>1. \A e \in edges' \ edges :
        \E a, b \in edges : a[2] = n /\ b[1] = n /\ e = <<a[1], b[2], b[3], a[4]>>
  BY JoinedSecond DEF RetargetAInFOut, InEdges, OutEdges
<1>2. TypeOK'
  <2>1. edges' \subseteq nodes' \X nodes' \X (Context \cup {Intra}) \X Obj
    <3>1. ASSUME NEW e \in edges' \ edges
          PROVE  e \in nodes \X nodes \X (Context \cup {Intra}) \X Obj
      BY <1>1, EdgeFields
    <3> QED
      BY <3>1 DEF RetargetAInFOut, TypeOK
  <2>2. defs' \subseteq Of({"ain", "fout"}) \X Node
    <3>1. nodes \subseteq Node
      BY GraphAssumption DEF TypeOK
    <3>2. \A e \in edges : e[1] \in Node
      BY <3>1, EdgeFields
    <3>3. {<<n, e[1]>> : e \in InEdges(edges, n)} \subseteq Of({"ain", "fout"}) \X Node
      BY <1>0, <3>2 DEF InEdges
    <3> QED
      BY <3>3 DEF RetargetAInFOut, TypeOK
  <2> QED
    BY <2>1, <2>2 DEF RetargetAInFOut, TypeOK, Of
<1>3. PhaseInv'
  BY DEF RetargetAInFOut, PhaseInv, Of
<1>4. InterInv'
  <2>1. defs \subseteq defs' /\ \A a \in edges : a[2] = n => \E d \in defs' : d[2] = a[1]
    <3>1. defs' = defs \cup {<<n, e[1]>> : e \in InEdges(edges, n)}
      BY DEF RetargetAInFOut
    <3>2. ASSUME NEW a \in edges, a[2] = n
          PROVE  <<n, a[1]>> \in defs'
      BY <3>1, <3>2 DEF InEdges
    <3>3. ASSUME NEW a \in edges, a[2] = n
          PROVE  \E d \in defs' : d[2] = a[1]
      <4>1. <<n, a[1]>>[2] = a[1]
        OBVIOUS
      <4> QED
        BY <3>2, <3>3, <4>1
    <3> QED
      BY <3>1, <3>3
  <2>2. ASSUME NEW e \in edges' \ edges
        PROVE  IsInter(e) /\ isDefOfAInFOut(e[1])'
    BY <1>0, <1>1, <2>1, <2>2 DEF InterInv, IsInter, isDefOfAInFOut, RetargetAInFOut, Of
  <2>3. ASSUME NEW m PROVE isDefOfAInFOut(m) => isDefOfAInFOut(m)'
    BY <2>1 DEF isDefOfAInFOut
  <2> QED
    BY <2>2, <2>3 DEF InterInv, IsInter, RetargetAInFOut
<1>5. WorklistInv'
  BY DEF RetargetAInFOut, PhaseInv, WorklistInv
<1> QED
  BY <1>2, <1>3, <1>4, <1>5

(* A formal-in or actual-out that is removed defines no actual-in or       *)
(* formal-out, so that no call or return leaves it; nor has it an edge to  *)
(* itself.                                                                 *)
LEMMA RemovedLeavesNoCalls ==
  ASSUME IInv, phase = "remove", NEW n, canBeRemoved(n), prog.kind[n] \in {"aout", "fin"},
         NEW c \in edges, c[1] = n
  PROVE  ~ IsInter(c) /\ c[2] # n
<1>1. ~ isDefOfAInFOut(n)
  BY DEF canBeRemoved
<1>2. ~ IsInter(c)
  BY <1>1 DEF IInv, InterInv
<1> QED
  BY <1>2 DEF IInv, InterInv

LEMMA RemoveNodeStep ==
  ASSUME IInv, NEW n \in nodes, RemoveNode(n)
  PROVE  IInv'
<1> USE DEF IInv
<1>0. /\ n \in Of({"ain", "aout", "fin"}) /\ UNCHANGED <<prog, defs, worklist, phase>>
      /\ phase = "remove" /\ worklist = {} /\ todo' = todo \ {n}
      /\ nodes' \subseteq nodes
  BY DEF RemoveNode, PhaseInv
<1>1. ASSUME NEW e \in edges' \ edges
      PROVE  \E a, b \in edges :
               /\ a[2] = n /\ b[1] = n /\ e = <<a[1], b[2], a[3], a[4]>>
               /\ ~ IsInter(b) /\ a[1] # n /\ b[2] # n
  <2>1. /\ canBeRemoved(n) /\ prog.kind[n] \in {"aout", "fin"}
        /\ e \in Joined(edges, n, First)
    BY <1>0 DEF RemoveNode, Of
  <2>2. PICK a \in edges, b \in edges : a[2] = n /\ b[1] = n /\ e = <<a[1], b[2], a[3], a[4]>>
    BY <2>1, JoinedFirst DEF InEdges, OutEdges
  <2>3. \A c \in edges : c[1] = n => ~ IsInter(c) /\ c[2] # n
    BY <1>0, <2>1, RemovedLeavesNoCalls
  <2> QED
    BY <2>2, <2>3
<1>2. TypeOK'
  <2>1. ASSUME NEW e \in edges' \ edges
        PROVE  e \in nodes' \X nodes' \X (Context \cup {Intra}) \X Obj
    BY <1>1, EdgeFields DEF RemoveNode
  <2>2. ASSUME NEW e \in edges' \cap edges
        PROVE  e \in nodes' \X nodes' \X (Context \cup {Intra}) \X Obj
    <3>1. CASE ~ canBeRemoved(n)
      BY <3>1 DEF RemoveNode, TypeOK
    <3>2. CASE canBeRemoved(n) /\ e[1] # n /\ e[2] # n
      BY <3>2, EdgeFields DEF RemoveNode
    <3>3. CASE canBeRemoved(n) /\ (e[1] = n \/ e[2] = n)
      <4>1. e \notin edges \ Around(edges, n)
        BY <3>3 DEF Around, InEdges, OutEdges
      <4>2. e \in Joined(edges, n, First) /\ prog.kind[n] \in {"aout", "fin"}
        BY <1>0, <3>3, <4>1 DEF RemoveNode, Of
      <4>3. PICK a \in edges, b \in edges : a[2] = n /\ b[1] = n /\ e = <<a[1], b[2], a[3], a[4]>>
        BY <4>2, JoinedFirst DEF InEdges, OutEdges
      <4>4. \A c \in edges : c[1] = n => c[2] # n
        BY <1>0, <3>3, <4>2, RemovedLeavesNoCalls
      <4> QED
        BY <3>3, <4>3, <4>4
    <3> QED
      BY <3>1, <3>2, <3>3
  <2>3. todo' \subseteq nodes'
    BY <1>0 DEF RemoveNode, TypeOK
  <2>4. nodes' \subseteq DOMAIN prog.kind
    BY <1>0 DEF TypeOK
  <2>5. edges' \subseteq nodes' \X nodes' \X (Context \cup {Intra}) \X Obj
    BY <2>1, <2>2
  <2> QED
    BY <1>0, <2>3, <2>4, <2>5 DEF TypeOK, Of
<1>3. PhaseInv'
  BY <1>0 DEF PhaseInv, Of
<1>4. InterInv'
  <2>1. ASSUME NEW e \in edges' \ edges
        PROVE  /\ IsInter(e) => prog.kind[e[1]] \in {"ain", "fout"} \/ isDefOfAInFOut(e[1])
               /\ prog.kind[e[1]] \in {"ain", "fout"} => IsInter(e)
               /\ prog.kind[e[2]] \in {"aout", "fin"} => IsInter(e) \/ prog.kind[e[1]] = "store"
    <3>1. PICK a \in edges, b \in edges :
            /\ b[1] = n /\ e = <<a[1], b[2], a[3], a[4]>> /\ ~ IsInter(b)
      BY <1>1
    <3>2. prog.kind[n] # "store"
      BY <1>0 DEF Of
    <3>3. prog.kind[b[2]] \notin {"aout", "fin"}
      BY <1>0, <3>1, <3>2 DEF InterInv
    <3> QED
      BY <1>0, <3>1, <3>3 DEF InterInv, IsInter
  <2> QED
    BY <1>0, <2>1 DEF InterInv, isDefOfAInFOut
<1>5. WorklistInv'
  BY <1>0 DEF WorklistInv
<1> QED
  BY <1>2, <1>3, <1>4, <1>5

LEMMA SkipStep ==
  ASSUME IInv, NEW n \in nodes, SkipPHI(n)
  PROVE  IInv'
<1> USE DEF IInv
<1>1. edges' \subseteq edges /\ worklist' \subseteq worklist /\ phase = "intra"
  BY DEF SkipPHI, Popped
<1>2. TypeOK'
  BY <1>1 DEF SkipPHI, TypeOK, Of
<1>3. PhaseInv'
  BY DEF SkipPHI, PhaseInv
<1>4. InterInv'
  BY <1>1 DEF SkipPHI, InterInv, IsInter, isDefOfAInFOut
<1>5. WorklistInv'
  BY <1>1 DEF SkipPHI, WorklistInv, isDefOfAInFOut
<1> QED
  BY <1>2, <1>3, <1>4, <1>5

LEMMA RemovePHIStep ==
  ASSUME IInv, NEW n \in nodes, RemovePHI(n)
  PROVE  IInv'
<1> USE DEF IInv
<1> DEFINE E == edges \ SelfEdges(n)
<1>0. /\ phase = "intra" /\ n \in worklist /\ UNCHANGED <<prog, defs, todo, phase>>
      /\ edges' = (E \ Around(E, n)) \cup Joined(E, n, Either)
      /\ nodes' = nodes \ {n}
      /\ worklist' = Popped(n) \cup PushedByRemoval(E, n)
  BY DEF RemovePHI
<1>1. E \subseteq edges /\ \A e \in E : ~ (e[1] = n /\ e[2] = n)
  BY DEF SelfEdges
<1> HIDE DEF E
<1>2. ASSUME NEW e \in Joined(E, n, Either)
      PROVE  \E a, b \in edges :
               /\ a[2] = n /\ b[1] = n /\ a[1] # n /\ b[2] # n
               /\ e = <<a[1], b[2], IF a[3] = Intra THEN b[3] ELSE a[3], a[4]>>
  BY <1>1, JoinedEither DEF InEdges, OutEdges
<1>3. ASSUME NEW e \in E \ Around(E, n)
      PROVE  e \in edges /\ e[1] # n /\ e[2] # n
  BY <1>1 DEF Around, InEdges, OutEdges
<1>4. \A m \in PushedByRemoval(E, n) : m \in nodes \ {n} /\ Removable(E, m)
  BY <1>1 DEF PushedByRemoval, InEdges, OutEdges
<1>5. TypeOK'
  <2>1. ASSUME NEW e \in edges'
        PROVE  e \in nodes' \X nodes' \X (Context \cup {Intra}) \X Obj
    <3>1. CASE e \in Joined(E, n, Either)
      BY <1>0, <1>2, <3>1, EdgeFields
    <3>2. CASE e \in E \ Around(E, n)
      BY <1>0, <1>3, <3>2, EdgeFields
    <3> QED
      BY <1>0, <3>1, <3>2
  <2>2. todo = {}
    BY <1>0 DEF PhaseInv
  <2>3. worklist' \subseteq nodes'
    BY <1>0, <1>4 DEF Popped, TypeOK
  <2>4. edges' \subseteq nodes' \X nodes' \X (Context \cup {Intra}) \X Obj
    BY <2>1
  <2> QED
    BY <1>0, <2>2, <2>3, <2>4 DEF TypeOK, Of
<1>6. PhaseInv'
  BY <1>0 DEF PhaseInv
<1>7. InterInv'
  <2>1. ASSUME NEW e \in edges', IsInter(e)
        PROVE  prog.kind[e[1]] \in {"ain", "fout"} \/ isDefOfAInFOut(e[1])
    <3>1. CASE e \in Joined(E, n, Either)
      <4>1. PICK a \in edges, b \in edges :
              /\ a[2] = n /\ b[1] = n
              /\ e = <<a[1], b[2], IF a[3] = Intra THEN b[3] ELSE a[3], a[4]>>
        BY <1>2, <3>1
      <4>2. ~ IsInter(b)
        BY <1>0, <4>1 DEF InterInv, WorklistInv
      <4>3. IsInter(a)
        BY <2>1, <4>1, <4>2 DEF IsInter
      <4> QED
        BY <4>1, <4>3 DEF InterInv
    <3>2. CASE e \in E \ Around(E, n)
      BY <1>3, <2>1, <3>2 DEF InterInv
    <3> QED
      BY <1>0, <3>1, <3>2
  <2> QED
    BY <1>0, <2>1 DEF InterInv, IsInter, isDefOfAInFOut
<1>8. WorklistInv'
  BY <1>0, <1>4 DEF WorklistInv, Popped, Removable, isDefOfAInFOut
<1> QED
  BY <1>5, <1>6, <1>7, <1>8

LEMMA OtherSteps ==
  ASSUME IInv, StartRemoving \/ StartIntra \/ EndIntra \/ UNCHANGED vars
  PROVE  IInv'
<1> USE DEF IInv
<1>1. CASE StartRemoving
  BY <1>1 DEF StartRemoving, TypeOK, PhaseInv, InterInv, WorklistInv, Of, IsInter, isDefOfAInFOut
<1>2. CASE StartIntra
  <2>1. worklist' \subseteq nodes /\ \A n \in worklist' : Removable(edges, n)
    BY <1>2 DEF StartIntra
  <2> QED
    BY <1>2, <2>1 DEF StartIntra, TypeOK, PhaseInv, InterInv, WorklistInv, Removable, Of,
                      IsInter, isDefOfAInFOut
<1>3. CASE EndIntra
  BY <1>3 DEF EndIntra, TypeOK, PhaseInv, InterInv, WorklistInv, Of, IsInter, isDefOfAInFOut
<1>4. CASE UNCHANGED vars
  BY <1>4 DEF vars, TypeOK, PhaseInv, InterInv, WorklistInv, Of, IsInter, isDefOfAInFOut
<1> QED
  BY <1>1, <1>2, <1>3, <1>4

LEMMA Inductive == Spec => []IInv
<1>1. IInv /\ [Next]_vars => IInv'
  BY RetargetStep, RemoveNodeStep, SkipStep, RemovePHIStep, OtherSteps DEF Next, Terminated
<1> QED
  BY <1>1, InitInv, PTL DEF Spec

(* The edges of the reduced graph are between nodes that are left, in      *)
(* every phase of the reduction.                                           *)
THEOREM TypeCorrect == Spec => []TypeOK
<1>1. IInv => TypeOK
  BY DEF IInv
<1> QED
  BY <1>1, Inductive, PTL

(* A node on the worklist of handleIntraValueFlow never has to be checked  *)
(* again: only definitions of actual-in and formal-out nodes have calls or *)
(* returns going out, and no definition is found once the worklist runs.   *)
THEOREM Removability == Spec => []StillRemovable
<1>1. IInv => StillRemovable
  BY DEF IInv, WorklistInv, InterInv, StillRemovable, isConnectingTwoCallSites, OutEdges
<1> QED
  BY <1>1, Inductive, PTL

-----------------------------------------------------------------------------
(* Every set of natural numbers that is not empty has a least one.         *)
LEMMA LeastNatural ==
  ASSUME NEW T, T \subseteq Nat, T # {}
  PROVE  \E x \in T : \A y \in T : x <= y
<1> DEFINE Less == {ss \in Nat \X Nat : ss[1] < ss[2]}
<1>1. IsWellFoundedOn(Less, Nat)
  BY NatLessThanWellFounded DEF OpToRel
<1>2. \E x \in T : \A y \in T : ~ (<<y, x>> \in Less)
  BY <1>1, WFMin
<1>3. \A x, y \in Nat : y < x => <<y, x>> \in Less
  OBVIOUS
<1>4. \A x, y \in Nat : ~(y < x) => x <= y
  OBVIOUS
<1> HIDE DEF Less
<1> QED BY <1>2, <1>3, <1>4

(* Induction, for a set of natural numbers in place of a predicate.        *)
LEMMA Induction ==
  ASSUME NEW T, T \subseteq Nat, 0 \in T, \A i \in T : i + 1 \in T
  PROVE  T = Nat
<1> SUFFICES ASSUME T # Nat PROVE FALSE
  OBVIOUS
<1>1. PICK x \in Nat \ T : \A y \in Nat \ T : x <= y
  BY LeastNatural
<1>2. x - 1 \in Nat /\ x - 1 \in T
  BY <1>1
<1> QED BY <1>1, <1>2

-----------------------------------------------------------------------------
Usable(E, o, C, store) ==
  {e \in E : /\ e[4] = o
             /\ e[3] \in C \cup {Intra}
             /\ e[1] = store \/ prog.kind[e[1]] # "store"}

(* What one more edge reaches.                                             *)
Further(U, R) == R \cup {e[2] : e \in {d \in U : d[1] \in R}}

IsClosed(U, S) == \A e \in U : e[1] \in S => e[2] \in S

(* f[i] is what at most i edges reach.                                     *)
Reaches(f, U, x, n) ==
  f = [i \in 0 .. n |-> IF i = 0 THEN {x} ELSE Further(U, f[i - 1])]

LEMMA ReachesExists ==
  ASSUME NEW U, NEW x, NEW n \in Nat
  PROVE  \E f : Reaches(f, U, x, n)
<1> DEFINE T == {k \in Nat : \E f : Reaches(f, U, x, k)}
<1>1. 0 \in T
  <2> DEFINE f == [i \in 0 .. 0 |-> {x}]
  <2>1. f = [i \in 0 .. 0 |-> IF i = 0 THEN {x} ELSE Further(U, f[i - 1])]
    OBVIOUS
  <2> QED BY <2>1 DEF Reaches
<1>2. ASSUME NEW k \in T
      PROVE  k + 1 \in T
  <2>1. PICK f : Reaches(f, U, x, k)
    OBVIOUS
  <2> DEFINE g == [i \in 0 .. k + 1 |-> IF i = k + 1 THEN Further(U, f[k]) ELSE f[i]]
             h == [i \in 0 .. k + 1 |-> IF i = 0 THEN {x} ELSE Further(U, g[i - 1])]
  <2>2. k \in Nat /\ \A i \in 0 .. k : f[i] = IF i = 0 THEN {x} ELSE Further(U, f[i - 1])
    BY <2>1 DEF Reaches
  <2>3. \A i \in 0 .. k + 1 : g[i] = h[i]
    <3> TAKE i \in 0 .. k + 1
    <3>1. CASE i = k + 1
      BY <2>2, <3>1
    <3>2. CASE i \in 0 .. k /\ i # 0
      <4>1. i - 1 \in 0 .. k /\ i - 1 # k + 1 /\ i # k + 1 /\ i - 1 \in 0 .. k + 1
        BY <2>2, <3>2
      <4>2. g[i] = f[i] /\ g[i - 1] = f[i - 1]
        BY <4>1
      <4> QED BY <2>2, <3>2, <4>2
    <3>3. CASE i = 0
      BY <2>2, <3>3
    <3> QED BY <2>2, <3>1, <3>2, <3>3
  <2>4. g = h
    BY <2>3
  <2>5. Reaches(g, U, x, k + 1)
    BY <2>4 DEF Reaches
  <2> QED BY <2>2, <2>5
<1> HIDE DEF T
<1>3. T = Nat
  <2>1. T \subseteq Nat
    BY DEF T
  <2> QED BY <1>1, <1>2, <2>1, Induction
<1> QED BY <1>3 DEF T

(* Within a finite set of n nodes, n edges reach all there is to reach.    *)
LEMMA ReachesFacts ==
  ASSUME NEW N, IsFiniteSet(N), NEW U, \A e \in U : e[2] \in N, NEW x \in N,
         NEW n, n = Cardinality(N), NEW f, Reaches(f, U, x, n)
  PROVE  /\ x \in f[n] /\ f[n] \subseteq N /\ IsClosed(U, f[n])
         /\ \A S : x \in S /\ IsClosed(U, S) => f[n] \subseteq S
<1>1. n \in Nat
  BY FS_CardinalityType
<1>2. f[0] = {x} /\ \A i \in 0 .. n : i + 1 \in 0 .. n => f[i + 1] = Further(U, f[i])
  <2>1. \A i \in 0 .. n : f[i] = IF i = 0 THEN {x} ELSE Further(U, f[i - 1])
    BY DEF Reaches
  <2> QED BY <1>1, <2>1
<1>3. ASSUME NEW S, x \in S, IsClosed(U, S)
      PROVE  f[n] \subseteq S
  <2> DEFINE T == {i \in Nat : i <= n => f[i] \subseteq S}
  <2>1. 0 \in T
    BY <1>2, <1>3
  <2>2. ASSUME NEW i \in T
        PROVE  i + 1 \in T
    <3>1. i + 1 <= n => f[i] \subseteq S /\ f[i + 1] = Further(U, f[i])
      BY <1>1, <1>2
    <3>2. f[i] \subseteq S => Further(U, f[i]) \subseteq S
      BY <1>3 DEF Further, IsClosed
    <3> QED BY <3>1, <3>2
  <2>3. T = Nat
    <3>1. T \subseteq Nat
      OBVIOUS
    <3> HIDE DEF T
    <3> QED BY <2>1, <2>2, <3>1, Induction
  <2> QED BY <1>1, <2>3
<1>4. /\ f[n] \subseteq N /\ x \in f[n]
      /\ Further(U, f[n]) = f[n] \/ Cardinality(f[n]) >= n + 1
  <2> DEFINE T == {i \in Nat : i <= n =>
                     /\ f[i] \subseteq N /\ x \in f[i]
                     /\ Further(U, f[i]) = f[i] \/ Cardinality(f[i]) >= i + 1}
  <2>1. 0 \in T
    <3>1. Cardinality({x}) = 1
      BY FS_Singleton
    <3> QED BY <1>2, <3>1
  <2>2. ASSUME NEW i \in T
        PROVE  i + 1 \in T
    <3>1. SUFFICES ASSUME i + 1 <= n
                   PROVE  /\ f[i + 1] \subseteq N /\ x \in f[i + 1]
                          /\ \/ Further(U, f[i + 1]) = f[i + 1]
                             \/ Cardinality(f[i + 1]) >= (i + 1) + 1
      OBVIOUS
    <3>2. /\ f[i] \subseteq N /\ x \in f[i] /\ i \in Nat
          /\ Further(U, f[i]) = f[i] \/ Cardinality(f[i]) >= i + 1
          /\ f[i + 1] = Further(U, f[i])
      BY <1>1, <1>2, <3>1
    <3>3. f[i] \subseteq f[i + 1] /\ f[i + 1] \subseteq N
      BY <3>2 DEF Further
    <3>4. CASE Further(U, f[i]) = f[i]
      BY <3>2, <3>3, <3>4
    <3>5. CASE Further(U, f[i]) # f[i]
      <4>1. IsFiniteSet(f[i + 1])
        BY <3>3, FS_Subset
      <4>2. /\ Cardinality(f[i]) <= Cardinality(f[i + 1])
            /\ Cardinality(f[i + 1]) = Cardinality(f[i]) => f[i + 1] = f[i]
        BY <3>3, <4>1, FS_Subset
      <4>3. Cardinality(f[i]) \in Nat /\ Cardinality(f[i + 1]) \in Nat
        BY <3>3, <4>1, FS_Subset, FS_CardinalityType
      <4> QED BY <3>2, <3>3, <3>5, <4>2, <4>3
    <3> QED BY <3>4, <3>5
  <2>3. T = Nat
    <3>1. T \subseteq Nat
      OBVIOUS
    <3> HIDE DEF T
    <3> QED BY <2>1, <2>2, <3>1, Induction
  <2> QED BY <1>1, <2>3
<1>5. Further(U, f[n]) = f[n]
  <2>1. Cardinality(f[n]) <= n /\ Cardinality(f[n]) \in Nat
    BY <1>4, FS_Subset, FS_CardinalityType
  <2> QED BY <1>1, <1>4, <2>1
<1>6. IsClosed(U, f[n])
  BY <1>5 DEF Further, IsClosed
<1> QED BY <1>3, <1>4, <1>6

(* Reach is the least set with the store in it and closed under the edges. *)
LEMMA ReachIsLeast ==
  ASSUME NEW E, \A e \in E : e[2] \in Node, NEW o, NEW C, NEW store \in Node
  PROVE  /\ Reach(E, o, C, store) \subseteq Node
         /\ store \in Reach(E, o, C, store)
         /\ IsClosed(Usable(E, o, C, store), Reach(E, o, C, store))
         /\ \A S : store \in S /\ IsClosed(Usable(E, o, C, store), S) =>
              Reach(E, o, C, store) \subseteq S
<1> DEFINE n == Cardinality(Node)
           U == Usable(E, o, C, store)
           g == CHOOSE f : f = [i \in 0 .. n |-> IF i = 0 THEN {store} ELSE Further(U, f[i - 1])]
<1>1. n \in Nat
  BY NodeAssumption, FS_CardinalityType
<1>2. Reach(E, o, C, store) = g[n]
  BY Zenon DEF Reach, Usable, Further
<1>3. Reaches(g, U, store, n)
  <2>1. \E f : Reaches(f, U, store, n)
    <3> HIDE DEF U, n
    <3> QED BY <1>1, ReachesExists
  <2> QED BY <2>1, Zenon DEF Reaches
<1>4. \A e \in U : e[2] \in Node
  BY DEF Usable
<1> HIDE DEF U, g, n
<1>5. /\ store \in g[n] /\ g[n] \subseteq Node /\ IsClosed(U, g[n])
      /\ \A S : store \in S /\ IsClosed(U, S) => g[n] \subseteq S
  BY <1>3, <1>4, NodeAssumption, ReachesFacts DEF n
<1> QED BY <1>2, <1>5 DEF U

-----------------------------------------------------------------------------
(* The edge e does what the edge a and then the edge b do, for the same    *)
(* object and through the same calls and returns.                          *)
Composes(e, a, b) ==
  /\ e[1] = a[1] /\ a[2] = b[1] /\ e[2] = b[2]
  /\ e[4] = a[4] /\ e[4] = b[4]
  /\ e[3] \in {a[3], b[3]} /\ {a[3], b[3]} \subseteq {e[3], Intra}

(* F is E with the edges into n joined with those out of it.               *)
Bypassed(E, F, n) ==
  /\ \A e \in F : e \in E \/ \E a, b \in E : a[2] = n /\ Composes(e, a, b)
  /\ \A e \in E : e[1] # n /\ e[2] # n => e \in F
  /\ \A a, b \in E : a[2] = n /\ b[1] = n /\ a[1] # n /\ b[2] # n /\ a[4] = b[4] =>
       \E e \in F : Composes(e, a, b)

LEMMA StoresAreNodes ==
  ASSUME prog \in Programs, NEW store \in Of({"store"})
  PROVE  store \in Node /\ prog.kind[store] = "store"
BY GraphAssumption DEF Of

(* Bypassing a node that neither loads nor stores changes no flow.         *)
LEMMA BypassKeepsFlow ==
  ASSUME prog \in Programs,
         NEW E, \A e \in E : e[2] \in Node, NEW F, \A e \in F : e[2] \in Node,
         NEW n, prog.kind[n] \notin {"store", "load"}, Bypassed(E, F, n)
  PROVE  SameFlow(F, E)
<1> SUFFICES ASSUME NEW store \in Of({"store"}), NEW o \in Obj, NEW C \in SUBSET Context
             PROVE  Reach(F, o, C, store) \cap Of({"store", "load"})
                      = Reach(E, o, C, store) \cap Of({"store", "load"})
  BY DEF SameFlow
<1> DEFINE UE == Usable(E, o, C, store)
           UF == Usable(F, o, C, store)
           RE == Reach(E, o, C, store)
           RF == Reach(F, o, C, store)
<1>1. store \in Node /\ store # n
  BY StoresAreNodes
<1>2. /\ store \in RE /\ IsClosed(UE, RE)
      /\ \A S : store \in S /\ IsClosed(UE, S) => RE \subseteq S
  BY <1>1, ReachIsLeast
<1>3. /\ store \in RF /\ IsClosed(UF, RF)
      /\ \A S : store \in S /\ IsClosed(UF, S) => RF \subseteq S
  BY <1>1, ReachIsLeast
<1>4. ASSUME NEW e \in UF
      PROVE  e \in UE \/ \E a, b \in UE : Composes(e, a, b)
  BY DEF Usable, Bypassed, Composes
<1>5. \A e \in UE : e[1] # n /\ e[2] # n => e \in UF
  BY DEF Usable, Bypassed
<1>6. ASSUME NEW a \in UE, NEW b \in UE, a[2] = n, b[1] = n, a[1] # n, b[2] # n
      PROVE  \E e \in UF : Composes(e, a, b)
  <2>1. PICK e \in F : Composes(e, a, b)
    BY <1>6 DEF Usable, Bypassed
  <2> QED BY <2>1 DEF Usable, Composes
<1> HIDE DEF UE, UF, RE, RF
<1>7. IsClosed(UF, RE)
  <2> SUFFICES ASSUME NEW e \in UF, e[1] \in RE PROVE e[2] \in RE
    BY DEF IsClosed
  <2>1. CASE e \in UE
    BY <1>2, <2>1 DEF IsClosed
  <2>2. CASE \E a, b \in UE : Composes(e, a, b)
    BY <1>2, <2>2 DEF IsClosed, Composes
  <2> QED BY <1>4, <2>1, <2>2
<1>8. RE \ {n} \subseteq RF
  <2> DEFINE S == (RF \ {n}) \cup {m \in {n} : \E a \in UE : a[2] = n /\ a[1] \in RF \ {n}}
  <2>1. store \in S
    BY <1>1, <1>3
  <2>2. IsClosed(UE, S)
    <3> SUFFICES ASSUME NEW e \in UE, e[1] \in S PROVE e[2] \in S
      BY DEF IsClosed
    <3>1. CASE e[1] # n /\ e[2] # n
      BY <1>3, <1>5, <3>1 DEF IsClosed
    <3>2. CASE e[2] = n
      BY <3>2
    <3>3. CASE e[1] = n /\ e[2] # n
      <4>1. PICK a \in UE : a[2] = n /\ a[1] \in RF \ {n}
        BY <3>3
      <4>2. PICK c \in UF : Composes(c, a, e)
        BY <1>6, <3>3, <4>1
      <4> QED BY <1>3, <3>3, <4>1, <4>2 DEF IsClosed, Composes
    <3> QED BY <3>1, <3>2, <3>3
  <2> QED BY <1>2, <2>1, <2>2
<1>9. RF \subseteq RE
  BY <1>2, <1>3, <1>7
<1>10. n \notin Of({"store", "load"})
  BY DEF Of
<1> QED BY <1>8, <1>9, <1>10 DEF RE, RF

(* Nor does removing edges from a node to itself.                          *)
LEMMA SelfEdgesKeepFlow ==
  ASSUME prog \in Programs,
         NEW E, \A e \in E : e[2] \in Node, NEW F, F \subseteq E,
         \A e \in E \ F : e[1] = e[2]
  PROVE  SameFlow(F, E)
<1> SUFFICES ASSUME NEW store \in Of({"store"}), NEW o \in Obj, NEW C \in SUBSET Context
             PROVE  Reach(F, o, C, store) = Reach(E, o, C, store)
  BY DEF SameFlow
<1> DEFINE UE == Usable(E, o, C, store)
           UF == Usable(F, o, C, store)
           RE == Reach(E, o, C, store)
           RF == Reach(F, o, C, store)
<1>1. store \in Node
  BY StoresAreNodes
<1>2. /\ store \in RE /\ IsClosed(UE, RE)
      /\ \A S : store \in S /\ IsClosed(UE, S) => RE \subseteq S
  BY <1>1, ReachIsLeast
<1>3. /\ store \in RF /\ IsClosed(UF, RF)
      /\ \A S : store \in S /\ IsClosed(UF, S) => RF \subseteq S
  BY <1>1, ReachIsLeast
<1>4. UF \subseteq UE /\ \A e \in UE \ UF : e[1] = e[2]
  BY DEF Usable
<1> HIDE DEF UE, UF, RE, RF
<1>5. IsClosed(UF, RE) /\ IsClosed(UE, RF)
  BY <1>2, <1>3, <1>4 DEF IsClosed
<1>6. RE = RF
  BY <1>2, <1>3, <1>5
<1> QED BY <1>6 DEF RE, RF

LEMMA SameFlowTransitive ==
  ASSUME NEW E, NEW F, NEW G, SameFlow(E, F), SameFlow(F, G)
  PROVE  SameFlow(E, G)
BY DEF SameFlow

LEMMA SameFlowReflexive ==
  ASSUME NEW E
  PROVE  SameFlow(E, E)
BY DEF SameFlow

(* Edges that do not touch the node may be added to both graphs.           *)
LEMMA BypassedWith ==
  ASSUME NEW E, NEW F, NEW n, Bypassed(E, F, n), NEW K, \A e \in K : e[1] # n /\ e[2] # n
  PROVE  Bypassed(E \cup K, F \cup K, n)
<1>1. \A e \in F \cup K : e \in E \cup K \/ \E a, b \in E \cup K : a[2] = n /\ Composes(e, a, b)
  BY DEF Bypassed
<1>2. \A e \in E \cup K : e[1] # n /\ e[2] # n => e \in F \cup K
  BY DEF Bypassed
<1>3. \A a, b \in E \cup K : a[2] = n /\ b[1] = n /\ a[1] # n /\ b[2] # n /\ a[4] = b[4] =>
        \E e \in F \cup K : Composes(e, a, b)
  BY DEF Bypassed
<1> QED BY <1>1, <1>2, <1>3 DEF Bypassed

-----------------------------------------------------------------------------
(* The definition of the actual-in or formal-out m in the graph before.    *)
Def(m) ==
  CHOOSE d \in DOMAIN prog.kind :
    InEdges(prog.edges, m) = {<<d, m, Intra, o>> : o \in prog.label[m]}

(* Where a call resolved now would be connected: at m itself as long as m  *)
(* has its edges, and then at its definition.                              *)
Current == [m \in DOMAIN prog.kind |-> IF phase = "retarget" /\ m \in todo THEN m ELSE Def(m)]

Later == Connections(Current)

(* The definitions recorded are the right ones and are kept, and so are    *)
(* the other ends of the connections to come.                              *)
DefInv ==
  /\ \A d \in defs : d[2] \in nodes /\ prog.kind[d[2]] \notin {"ain", "fout"}
  /\ \A q \in prog.later :
       /\ q[2] \in nodes
       /\ (phase = "retarget" /\ q[1] \in todo) \/ <<q[1], Def(q[1])>> \in defs
       /\ \A d \in defs : d[1] = q[1] => d[2] = Def(q[1])

(* An actual-in or formal-out not visited yet has the edges into it that   *)
(* it had before the reduction; one that was visited has none.             *)
EdgesInv ==
  /\ phase = "retarget" =>
       /\ \A m \in todo : InEdges(edges, m) = InEdges(prog.edges, m)
       /\ \A e \in edges :
            /\ IsInter(e) => prog.kind[e[2]] \in {"aout", "fin"}
            /\ prog.kind[e[1]] \in {"ain", "fout"} => e[1] \in todo
            /\ prog.kind[e[2]] \in {"ain", "fout"} => e[2] \in todo
  /\ phase = "remove" =>
       \A e \in edges : prog.kind[e[1]] \notin {"ain", "fout"} /\ prog.kind[e[2]] \notin {"ain", "fout"}

LaterInv == SameFlow(edges \cup Later, prog.edges \cup Connections(Itself))

FlowIInv == IInv /\ DefInv /\ EdgesInv /\ FlowIsPreserved /\ LaterInv

LEMMA ConnectionsAre ==
  ASSUME NEW f, NEW e
  PROVE  e \in Connections(f) <=>
           \E q \in prog.later, o \in Obj :
             /\ o \in prog.label[q[1]] /\ o \in prog.label[q[2]]
             /\ e = <<f[q[1]], q[2], q[3], o>>
<1>1. ASSUME NEW q \in prog.later, NEW o \in Obj, o \in prog.label[q[1]], o \in prog.label[q[2]],
             e = <<f[q[1]], q[2], q[3], o>>
      PROVE  e \in Connections(f)
  <2> DEFINE p == <<q, o>>
  <2>1. /\ p \in prog.later \X Obj /\ p[1] = q /\ p[2] = o
        /\ p[2] \in prog.label[p[1][1]] \cap prog.label[p[1][2]]
    BY <1>1
  <2>2. e = <<f[p[1][1]], p[1][2], p[1][3], p[2]>>
    BY <1>1
  <2> HIDE DEF p
  <2> QED BY <2>1, <2>2 DEF Connections
<1>2. ASSUME e \in Connections(f)
      PROVE  \E q \in prog.later, o \in Obj :
               /\ o \in prog.label[q[1]] /\ o \in prog.label[q[2]]
               /\ e = <<f[q[1]], q[2], q[3], o>>
  BY <1>2 DEF Connections
<1> QED BY <1>1, <1>2

(* A connection to come leads from an actual-in or formal-out, which has   *)
(* one definition, to a formal-in or actual-out.                           *)
LEMMA LaterFacts ==
  ASSUME prog \in Programs, NEW q \in prog.later
  PROVE  /\ q[1] \in DOMAIN prog.kind /\ prog.kind[q[1]] \in {"ain", "fout"}
         /\ q[2] \in DOMAIN prog.kind /\ prog.kind[q[2]] \in {"aout", "fin"}
         /\ q[2] \in prog.needed /\ q[3] \in Context
         /\ InEdges(prog.edges, q[1]) = {<<Def(q[1]), q[1], Intra, o>> : o \in prog.label[q[1]]}
         /\ prog.label[q[1]] # {}
         /\ Def(q[1]) \in DOMAIN prog.kind /\ prog.kind[Def(q[1])] \notin {"ain", "fout"}
<1>1. /\ q \in (DOMAIN prog.kind) \X prog.needed \X Context
      /\ prog.kind[q[1]] \in {"ain", "fout"}
      /\ q[2] \in DOMAIN prog.kind /\ prog.kind[q[2]] \in {"aout", "fin"}
      /\ prog.label[q[1]] # {}
      /\ \E d \in DOMAIN prog.kind :
           {e \in prog.edges : e[2] = q[1]} = {<<d, q[1], Intra, o>> : o \in prog.label[q[1]]}
      /\ \A e \in prog.edges : e[3] # Intra <=> prog.kind[e[1]] \in {"ain", "fout"}
  BY GraphAssumption
<1>2. /\ Def(q[1]) \in DOMAIN prog.kind
      /\ InEdges(prog.edges, q[1]) = {<<Def(q[1]), q[1], Intra, o>> : o \in prog.label[q[1]]}
  BY <1>1, Zenon DEF Def, InEdges
<1>3. prog.kind[Def(q[1])] \notin {"ain", "fout"}
  <2>1. PICK o \in prog.label[q[1]] : TRUE
    BY <1>1
  <2>2. <<Def(q[1]), q[1], Intra, o>> \in prog.edges
    BY <1>2, <2>1 DEF InEdges
  <2> QED BY <1>1, <2>2
<1> QED BY <1>1, <1>2, <1>3

LEMMA CurrentIs ==
  ASSUME prog \in Programs, NEW q \in prog.later
  PROVE  Current[q[1]] = IF phase = "retarget" /\ q[1] \in todo THEN q[1] ELSE Def(q[1])
BY LaterFacts DEF Current

LEMMA CurrentNext ==
  ASSUME prog \in Programs, prog' = prog, NEW q \in prog.later
  PROVE  Current'[q[1]] = IF phase' = "retarget" /\ q[1] \in todo' THEN q[1] ELSE Def(q[1])
<1>1. Def(q[1])' = Def(q[1])
  BY DEF Def, InEdges
<1>2. q[1] \in DOMAIN prog'.kind
  BY LaterFacts
<1>3. Current'[q[1]] = IF phase' = "retarget" /\ q[1] \in todo' THEN q[1] ELSE Def(q[1])'
  BY <1>2 DEF Current
<1> QED BY <1>1, <1>3

LEMMA LaterNext ==
  ASSUME prog' = prog
  PROVE  Later' = Connections(Current')
BY DEF Later, Connections

LEMMA LaterUnchanged ==
  ASSUME prog \in Programs, prog' = prog,
         \A q \in prog.later :
           (phase' = "retarget" /\ q[1] \in todo') <=> (phase = "retarget" /\ q[1] \in todo)
  PROVE  Later' = Later
<1>1. \A q \in prog.later : Current'[q[1]] = Current[q[1]]
  BY CurrentIs, CurrentNext
<1>2. ASSUME NEW e
      PROVE  e \in Connections(Current') <=> e \in Connections(Current)
  BY <1>1, ConnectionsAre
<1> QED BY <1>2, LaterNext DEF Later

(* What the flow of the next state is compared with has not changed.       *)
LEMMA FlowNext ==
  ASSUME prog' = prog
  PROVE  /\ FlowIsPreserved' <=> SameFlow(edges', prog.edges)
         /\ LaterInv' <=> SameFlow(edges' \cup Later', prog.edges \cup Connections(Itself))
<1>1. FlowIsPreserved' <=> SameFlow(edges', prog.edges)
  BY SMT DEF FlowIsPreserved, SameFlow, Reach, Of
<1>2. Connections(Itself)' = Connections(Itself)
  BY DEF Connections, Itself
<1>3. LaterInv' <=> SameFlow(edges' \cup Later', prog.edges \cup Connections(Itself))
  BY <1>2, SMT DEF LaterInv, SameFlow, Reach, Of
<1> QED BY <1>1, <1>3

LEMMA EndsAreNodes ==
  ASSUME TypeOK
  PROVE  /\ \A e \in edges \cup Later : e[2] \in Node
         /\ \A e \in prog.edges \cup Connections(Itself) : e[2] \in Node
<1>1. DOMAIN prog.kind \subseteq Node /\ nodes \subseteq Node
  BY GraphAssumption DEF TypeOK
<1>2. \A e \in edges : e[2] \in Node
  BY <1>1, EdgeFields
<1>3. \A e \in prog.edges : e[2] \in Node
  BY GraphAssumption DEF TypeOK
<1>4. ASSUME NEW f, NEW e \in Connections(f)
      PROVE  e[2] \in Node
  <2>1. PICK q \in prog.later, o \in Obj : e = <<f[q[1]], q[2], q[3], o>>
    BY ConnectionsAre
  <2> QED BY <1>1, <2>1, LaterFacts DEF TypeOK
<1> QED BY <1>2, <1>3, <1>4 DEF Later

(* Later calls are connected neither at a node that is not needed nor      *)
(* at one that is not the definition of an actual-in or formal-out.        *)
LEMMA LaterAvoids ==
  ASSUME prog \in Programs, DefInv, phase # "retarget", NEW n, ~ isDefOfAInFOut(n),
         n \notin prog.needed \/ prog.kind[n] \notin {"aout", "fin"}
  PROVE  \A e \in Later : e[1] # n /\ e[2] # n
<1> SUFFICES ASSUME NEW e \in Later PROVE e[1] # n /\ e[2] # n
  OBVIOUS
<1>1. PICK q \in prog.later, o \in Obj : e = <<Current[q[1]], q[2], q[3], o>>
  BY ConnectionsAre DEF Later
<1>2. Current[q[1]] = Def(q[1]) /\ <<q[1], Def(q[1])>> \in defs
  BY CurrentIs DEF DefInv
<1>3. Def(q[1]) # n
  <2>1. <<q[1], Def(q[1])>>[2] = Def(q[1])
    OBVIOUS
  <2> QED BY <1>2, <2>1 DEF isDefOfAInFOut
<1> QED BY <1>1, <1>2, <1>3, LaterFacts

(* A step that bypasses a node keeps the flow, now and after later calls.  *)
LEMMA BypassStep ==
  ASSUME IInv, IInv', FlowIsPreserved, LaterInv, prog' = prog,
         NEW n, prog.kind[n] \notin {"store", "load"},
         Bypassed(edges, edges', n), Bypassed(edges \cup Later, edges' \cup Later', n)
  PROVE  FlowIsPreserved' /\ LaterInv'
<1>1. /\ \A e \in edges \cup Later : e[2] \in Node
      /\ \A e \in edges' \cup Later' : e[2] \in Node
  <2>1. (\A e \in edges \cup Later : e[2] \in Node)'
    BY EndsAreNodes, PTL DEF IInv
  <2> QED BY <2>1, EndsAreNodes DEF IInv
<1>2. SameFlow(edges', edges) /\ SameFlow(edges' \cup Later', edges \cup Later)
  BY <1>1, BypassKeepsFlow DEF IInv, TypeOK
<1> QED BY <1>2, FlowNext, SameFlowTransitive DEF FlowIsPreserved, LaterInv

LEMMA InitFlow == Init => FlowIInv
<1> SUFFICES ASSUME Init PROVE FlowIInv
  OBVIOUS
<1>1. IInv /\ prog \in Programs
  BY InitInv DEF IInv, TypeOK
<1>2. DefInv
  <2>1. \A q \in prog.later : q[2] \in nodes /\ q[1] \in todo
    BY <1>1, LaterFacts DEF Init, Of
  <2> QED BY <2>1 DEF Init, DefInv
<1>3. EdgesInv
  <2>1. \A e \in prog.edges :
          /\ e[1] \in DOMAIN prog.kind /\ e[2] \in DOMAIN prog.kind
          /\ e[3] # Intra => prog.kind[e[2]] \in {"aout", "fin"}
    BY <1>1, GraphAssumption
  <2> QED BY <2>1 DEF Init, EdgesInv, Of, IsInter
<1>4. FlowIsPreserved
  BY SameFlowReflexive DEF Init, FlowIsPreserved
<1>5. LaterInv
  <2>1. \A q \in prog.later : Current[q[1]] = Itself[q[1]]
    BY <1>1, LaterFacts, CurrentIs DEF Init, Of, Itself
  <2>2. ASSUME NEW e
        PROVE  e \in Connections(Current) <=> e \in Connections(Itself)
    BY <2>1, ConnectionsAre
  <2>3. Later = Connections(Itself)
    BY <2>2 DEF Later
  <2>4. edges = prog.edges
    BY DEF Init
  <2> QED BY <2>3, <2>4, SameFlowReflexive DEF LaterInv
<1> QED BY <1>1, <1>2, <1>3, <1>4, <1>5 DEF FlowIInv

(* The edges of an actual-in or formal-out that has not been visited come  *)
(* from within the function and lead to the other side of calls.           *)
LEMMA RetargetEdges ==
  ASSUME FlowIInv, NEW n, n \in todo, phase = "retarget"
  PROVE  /\ \A a \in InEdges(edges, n) :
              a[3] = Intra /\ a[1] # n /\ prog.kind[a[1]] \notin {"ain", "fout"}
         /\ \A b \in OutEdges(edges, n) :
              IsInter(b) /\ prog.kind[b[2]] \in {"aout", "fin"}
<1>1. prog.kind[n] \in {"ain", "fout"}
  BY DEF FlowIInv, IInv, PhaseInv, Of
<1>2. \A a \in InEdges(edges, n) : ~ IsInter(a)
  BY <1>1 DEF FlowIInv, EdgesInv, InEdges
<1>3. \A a \in InEdges(edges, n) : prog.kind[a[1]] \notin {"ain", "fout"}
  BY <1>2 DEF FlowIInv, IInv, InterInv, InEdges
<1>4. \A b \in OutEdges(edges, n) : IsInter(b)
  BY <1>1 DEF FlowIInv, IInv, InterInv, OutEdges
<1>5. \A b \in OutEdges(edges, n) : prog.kind[b[2]] \in {"aout", "fin"}
  BY <1>4 DEF FlowIInv, EdgesInv, OutEdges
<1> QED BY <1>1, <1>2, <1>3, <1>4, <1>5 DEF IsInter

LEMMA RetargetFlow ==
  ASSUME FlowIInv, IInv', NEW n \in nodes, RetargetAInFOut(n)
  PROVE  FlowIInv'
<1> DEFINE J == Joined(edges, n, Second)
<1>0. /\ phase = "retarget" /\ n \in todo /\ todo' = todo \ {n}
      /\ defs' = defs \cup {<<n, e[1]>> : e \in InEdges(edges, n)}
      /\ edges' = (edges \ Around(edges, n)) \cup J
      /\ UNCHANGED <<prog, nodes, worklist, phase>>
  BY DEF RetargetAInFOut
<1>1. /\ prog \in Programs /\ prog' = prog
      /\ n \in DOMAIN prog.kind /\ prog.kind[n] \in {"ain", "fout"}
  BY <1>0 DEF FlowIInv, IInv, TypeOK, PhaseInv, Of
<1>2. /\ \A a \in InEdges(edges, n) :
           a[3] = Intra /\ a[1] # n /\ prog.kind[a[1]] \notin {"ain", "fout"}
      /\ \A b \in OutEdges(edges, n) :
           IsInter(b) /\ prog.kind[b[2]] \in {"aout", "fin"}
  BY <1>0, RetargetEdges
<1>3. ASSUME NEW e \in J
      PROVE  \E a \in InEdges(edges, n), b \in OutEdges(edges, n) :
               a[4] = b[4] /\ e = <<a[1], b[2], b[3], a[4]>>
  BY DEF Joined, Second
<1>4. ASSUME NEW a \in InEdges(edges, n), NEW b \in OutEdges(edges, n), a[4] = b[4]
      PROVE  <<a[1], b[2], b[3], a[4]>> \in J
  <2> DEFINE p == <<a, b>>
  <2>1. /\ p \in InEdges(edges, n) \X OutEdges(edges, n) /\ p[1][4] = p[2][4]
        /\ <<a[1], b[2], b[3], a[4]>> = <<p[1][1], p[2][2], Second(p[1][3], p[2][3]), p[1][4]>>
    BY <1>4 DEF Second
  <2> HIDE DEF p
  <2> QED BY <2>1 DEF Joined
<1> HIDE DEF J
<1>5. \A e \in edges' :
        \/ e \in edges /\ e[1] # n /\ e[2] # n
        \/ e \in J
  BY <1>0 DEF Around, InEdges, OutEdges
<1>6. InEdges(edges, n) = InEdges(prog.edges, n)
  BY <1>0 DEF FlowIInv, EdgesInv
<1>7. DefInv'
  <2>1. ASSUME NEW d \in defs'
        PROVE  d[2] \in nodes' /\ prog'.kind[d[2]] \notin {"ain", "fout"}
    <3>1. CASE d \in defs
      BY <1>0, <3>1 DEF FlowIInv, DefInv
    <3>2. CASE d \notin defs
      <4>1. PICK a \in InEdges(edges, n) : d = <<n, a[1]>>
        BY <1>0, <3>2
      <4> QED BY <1>0, <1>2, <4>1, EdgeFields DEF FlowIInv, IInv, InEdges
    <3> QED BY <3>1, <3>2
  <2>2. ASSUME NEW q \in prog.later
        PROVE  /\ q[2] \in nodes'
               /\ (phase' = "retarget" /\ q[1] \in todo') \/ <<q[1], Def(q[1])>> \in defs'
               /\ \A d \in defs' : d[1] = q[1] => d[2] = Def(q[1])
    <3>1. q[2] \in nodes'
      BY <1>0 DEF FlowIInv, DefInv
    <3>2. CASE q[1] = n
      <4>1. /\ InEdges(edges, n) = {<<Def(n), n, Intra, o>> : o \in prog.label[n]}
            /\ prog.label[n] # {}
        BY <1>1, <1>6, <3>2, LaterFacts
      <4>2. PICK o \in prog.label[n] : TRUE
        BY <4>1
      <4>3. <<Def(n), n, Intra, o>> \in InEdges(edges, n) /\ <<Def(n), n, Intra, o>>[1] = Def(n)
        BY <4>1, <4>2
      <4>4. <<n, Def(n)>> \in defs'
        BY <1>0, <4>3
      <4>5. \A d \in defs' : d[1] = n => d[2] = Def(n)
        <5>1. \A d \in defs : d[1] = n => d[2] = Def(n)
          BY <3>2 DEF FlowIInv, DefInv
        <5> QED BY <1>0, <4>1, <5>1
      <4> QED BY <3>1, <3>2, <4>4, <4>5
    <3>3. CASE q[1] # n
      <4>1. \A d \in defs' : d[1] = q[1] => d \in defs
        BY <1>0, <3>3
      <4> QED BY <1>0, <3>1, <3>3, <4>1 DEF FlowIInv, DefInv
    <3> QED BY <3>2, <3>3
  <2>3. \A q \in prog.later : Def(q[1])' = Def(q[1])
    BY <1>1 DEF Def, InEdges
  <2> QED BY <1>1, <2>1, <2>2, <2>3 DEF DefInv
<1>8. EdgesInv'
  <2>1. ASSUME NEW e \in edges'
        PROVE  /\ IsInter(e) => prog.kind[e[2]] \in {"aout", "fin"}
               /\ prog.kind[e[1]] \in {"ain", "fout"} => e[1] \in todo'
               /\ prog.kind[e[2]] \in {"ain", "fout"} => e[2] \in todo'
    <3>1. CASE e \in edges /\ e[1] # n /\ e[2] # n
      BY <1>0, <3>1 DEF FlowIInv, EdgesInv
    <3>2. CASE e \in J
      BY <1>2, <1>3, <3>2
    <3> QED BY <1>5, <3>1, <3>2
  <2>2. ASSUME NEW m \in todo'
        PROVE  InEdges(edges', m) = InEdges(prog.edges, m)
    <3>1. m # n /\ m \in todo /\ prog.kind[m] \in {"ain", "fout"}
      BY <1>0 DEF FlowIInv, IInv, PhaseInv, Of
    <3>2. \A e \in J : e[2] # m
      BY <1>2, <1>3, <3>1
    <3>3. \A e \in edges : e[2] = m => e[1] # n
      BY <1>2, <3>1 DEF OutEdges
    <3>4. InEdges(edges', m) = InEdges(edges, m)
      BY <1>0, <3>1, <3>2, <3>3 DEF InEdges, OutEdges, Around
    <3> QED BY <1>0, <3>1, <3>4 DEF FlowIInv, EdgesInv
  <2> QED BY <1>0, <2>1, <2>2 DEF EdgesInv, IsInter, InEdges
<1>9. Bypassed(edges, edges', n)
  <2>1. ASSUME NEW e \in J
        PROVE  \E a, b \in edges : a[2] = n /\ Composes(e, a, b)
    BY <1>2, <1>3 DEF InEdges, OutEdges, Composes
  <2>2. ASSUME NEW a \in edges, NEW b \in edges, a[2] = n, b[1] = n, a[4] = b[4]
        PROVE  \E e \in edges' : Composes(e, a, b)
    <3>1. a[3] = Intra /\ <<a[1], b[2], b[3], a[4]>> \in edges'
      BY <1>0, <1>2, <1>4, <2>2 DEF InEdges, OutEdges
    <3>2. Composes(<<a[1], b[2], b[3], a[4]>>, a, b)
      BY <2>2, <3>1 DEF Composes
    <3> QED BY <3>1, <3>2
  <2>3. \A e \in edges : e[1] # n /\ e[2] # n => e \in edges'
    BY <1>0 DEF Around, InEdges, OutEdges
  <2> QED BY <1>5, <2>1, <2>2, <2>3 DEF Bypassed
<1>10. Bypassed(edges \cup Later, edges' \cup Later', n)
  <2> DEFINE At(m) == IF m \in todo THEN m ELSE Def(m)
             AtNext(m) == IF m \in todo' THEN m ELSE Def(m)
  <2>1. \A q \in prog.later :
          /\ Current[q[1]] = At(q[1]) /\ Current'[q[1]] = AtNext(q[1])
          /\ q[2] # n /\ Def(q[1]) # n
          /\ q[1] # n => AtNext(q[1]) = At(q[1]) /\ At(q[1]) # n
          /\ q[1] = n => AtNext(q[1]) = Def(n) /\ At(q[1]) = n
    BY <1>0, <1>1, CurrentIs, CurrentNext, LaterFacts
  <2> HIDE DEF At, AtNext
  <2>2. ASSUME NEW e
        PROVE  e \in Later <=>
                 \E q \in prog.later, o \in Obj :
                   /\ o \in prog.label[q[1]] /\ o \in prog.label[q[2]]
                   /\ e = <<At(q[1]), q[2], q[3], o>>
    BY <2>1, ConnectionsAre DEF Later
  <2>3. ASSUME NEW e
        PROVE  e \in Later' <=>
                 \E q \in prog.later, o \in Obj :
                   /\ o \in prog.label[q[1]] /\ o \in prog.label[q[2]]
                   /\ e = <<AtNext(q[1]), q[2], q[3], o>>
    BY <1>1, <2>1, ConnectionsAre, LaterNext
  <2>4. ASSUME NEW e \in Later'
        PROVE  e \in Later \/ \E a, b \in edges \cup Later : a[2] = n /\ Composes(e, a, b)
    <3>1. PICK q \in prog.later, o \in Obj :
            /\ o \in prog.label[q[1]] /\ o \in prog.label[q[2]]
            /\ e = <<AtNext(q[1]), q[2], q[3], o>>
      BY <2>3
    <3>2. CASE q[1] # n
      BY <2>1, <2>2, <3>1, <3>2
    <3>3. CASE q[1] = n
      <4> DEFINE a == <<Def(n), n, Intra, o>>
                 b == <<n, q[2], q[3], o>>
      <4>1. a \in edges
        <5>1. InEdges(edges, n) = {<<Def(n), n, Intra, r>> : r \in prog.label[n]}
          BY <1>1, <1>6, <3>3, LaterFacts
        <5> QED BY <3>1, <3>3, <5>1 DEF InEdges
      <4>2. b \in Later
        BY <2>1, <2>2, <3>1, <3>3
      <4>3. a[2] = n /\ Composes(e, a, b)
        BY <2>1, <3>1, <3>3 DEF Composes
      <4> HIDE DEF a, b
      <4> QED BY <4>1, <4>2, <4>3
    <3> QED BY <3>2, <3>3
  <2>5. ASSUME NEW e \in Later, e[1] # n
        PROVE  e \in Later'
    BY <2>1, <2>2, <2>3, <2>5
  <2>6. ASSUME NEW a \in edges, NEW b \in Later, a[2] = n, b[1] = n, a[4] = b[4]
        PROVE  \E e \in Later' : Composes(e, a, b)
    <3>1. PICK q \in prog.later, o \in Obj :
            /\ o \in prog.label[q[1]] /\ o \in prog.label[q[2]]
            /\ b = <<At(q[1]), q[2], q[3], o>>
      BY <2>2
    <3>2. q[1] = n
      BY <2>1, <2>6, <3>1
    <3>3. a = <<Def(n), n, Intra, o>>
      <4>1. InEdges(edges, n) = {<<Def(n), n, Intra, r>> : r \in prog.label[n]}
        BY <1>1, <1>6, <3>2, LaterFacts
      <4>2. PICK r \in prog.label[n] : a = <<Def(n), n, Intra, r>>
        BY <2>6, <4>1 DEF InEdges
      <4> QED BY <2>6, <3>1, <4>2
    <3> DEFINE e == <<Def(n), q[2], q[3], o>>
    <3>4. e \in Later'
      BY <2>1, <2>3, <3>1, <3>2
    <3>5. Composes(e, a, b)
      BY <2>1, <3>1, <3>2, <3>3 DEF Composes
    <3> HIDE DEF e
    <3> QED BY <3>4, <3>5
  <2>7. \A e \in Later : e[2] # n
    BY <2>1, <2>2
  <2>8. \A e \in edges' \cup Later' : e \in edges \cup Later
          \/ \E a, b \in edges \cup Later : a[2] = n /\ Composes(e, a, b)
    BY <1>9, <2>4 DEF Bypassed
  <2>9. \A e \in edges \cup Later : e[1] # n /\ e[2] # n => e \in edges' \cup Later'
    BY <1>9, <2>5 DEF Bypassed
  <2>10. \A a, b \in edges \cup Later : a[2] = n /\ b[1] = n /\ a[1] # n /\ b[2] # n /\ a[4] = b[4] =>
           \E e \in edges' \cup Later' : Composes(e, a, b)
    BY <1>9, <2>6, <2>7 DEF Bypassed
  <2> QED BY <2>8, <2>9, <2>10 DEF Bypassed
<1>11. FlowIsPreserved' /\ LaterInv'
  BY <1>1, <1>9, <1>10, BypassStep DEF FlowIInv
<1> QED BY <1>7, <1>8, <1>11 DEF FlowIInv

(* A step of the later phases that leaves the definitions alone, and       *)
(* removes at most a node nothing later is connected at.                   *)
LEMMA DefsKept ==
  ASSUME FlowIInv, prog' = prog, defs' = defs, phase # "retarget", phase' # "retarget",
         NEW n, ~ isDefOfAInFOut(n), nodes \ {n} \subseteq nodes',
         n \notin prog.needed \/ prog.kind[n] \notin {"aout", "fin"}
  PROVE  DefInv' /\ Later' = Later
<1>1. prog \in Programs
  BY DEF FlowIInv, IInv, TypeOK
<1>2. \A d \in defs : d[2] \in nodes'
  BY DEF FlowIInv, DefInv, isDefOfAInFOut
<1>3. \A q \in prog.later : q[2] \in nodes'
  BY <1>1, LaterFacts DEF FlowIInv, DefInv
<1>4. \A q \in prog.later : Def(q[1])' = Def(q[1])
  BY DEF Def, InEdges
<1>5. DefInv'
  BY <1>2, <1>3, <1>4 DEF FlowIInv, DefInv
<1> QED BY <1>1, <1>5, LaterUnchanged

LEMMA RemoveNodeFlow ==
  ASSUME FlowIInv, IInv', NEW n \in nodes, RemoveNode(n)
  PROVE  FlowIInv'
<1>0. /\ phase = "remove" /\ UNCHANGED <<prog, defs, worklist, phase>>
      /\ prog \in Programs /\ prog.kind[n] \in {"ain", "aout", "fin"}
  BY DEF RemoveNode, FlowIInv, IInv, TypeOK, PhaseInv, Of
<1>1. CASE ~ canBeRemoved(n)
  <2>1. UNCHANGED <<nodes, edges>>
    BY <1>1 DEF RemoveNode
  <2>2. Later' = Later
    BY <1>0, LaterUnchanged
  <2>3. FlowIsPreserved' /\ LaterInv'
    BY <1>0, <2>1, <2>2, FlowNext DEF FlowIInv, FlowIsPreserved, LaterInv
  <2>4. DefInv' /\ EdgesInv'
    BY <1>0, <2>1 DEF FlowIInv, DefInv, EdgesInv, Def, InEdges, IsInter
  <2> QED BY <2>3, <2>4 DEF FlowIInv
<1>2. CASE canBeRemoved(n)
  <2>0. /\ nodes' = nodes \ {n}
        /\ edges' = (edges \ Around(edges, n))
                      \cup (IF prog.kind[n] = "ain" THEN {} ELSE Joined(edges, n, First))
    BY <1>2 DEF RemoveNode
  <2>1. ~ isDefOfAInFOut(n) /\ n \notin prog.needed
    BY <1>0, <1>2 DEF canBeRemoved, FlowIInv, DefInv, isDefOfAInFOut
  <2>2. DefInv' /\ Later' = Later
    BY <1>0, <2>0, <2>1, DefsKept
  <2>3. \A e \in Later : e[1] # n /\ e[2] # n
    BY <1>0, <2>1, LaterAvoids DEF FlowIInv
  <2>4. \A e \in edges : e[1] # n /\ e[2] # n => e \in edges'
    BY <2>0 DEF Around, InEdges, OutEdges
  <2>5. Bypassed(edges, edges', n) /\ EdgesInv'
    <3>1. CASE prog.kind[n] = "ain"
      <4>1. \A e \in edges : e[1] # n /\ e[2] # n
        BY <1>0, <3>1 DEF FlowIInv, EdgesInv
      <4>2. edges' = edges
        BY <2>0, <3>1, <4>1 DEF Around, InEdges, OutEdges
      <4> QED BY <1>0, <4>1, <4>2 DEF Bypassed, FlowIInv, EdgesInv, IsInter, InEdges
    <3>2. CASE prog.kind[n] # "ain"
      <4>1. \A b \in edges : b[1] = n => ~ IsInter(b)
        BY <1>0, <1>2, <3>2, RemovedLeavesNoCalls DEF FlowIInv
      <4>2. \A b \in OutEdges(edges, n) : ~ IsInter(b)
        BY <4>1 DEF OutEdges
      <4>3. ASSUME NEW e \in Joined(edges, n, First)
            PROVE  \E a \in InEdges(edges, n), b \in OutEdges(edges, n) :
                     a[4] = b[4] /\ e = <<a[1], b[2], a[3], a[4]>>
        BY DEF Joined, First
      <4>4. ASSUME NEW a \in InEdges(edges, n), NEW b \in OutEdges(edges, n), a[4] = b[4]
            PROVE  <<a[1], b[2], a[3], a[4]>> \in Joined(edges, n, First)
        <5> DEFINE p == <<a, b>>
        <5>1. /\ p \in InEdges(edges, n) \X OutEdges(edges, n) /\ p[1][4] = p[2][4]
              /\ <<a[1], b[2], a[3], a[4]>> = <<p[1][1], p[2][2], First(p[1][3], p[2][3]), p[1][4]>>
          BY <4>4 DEF First
        <5> HIDE DEF p
        <5> QED BY <5>1 DEF Joined
      <4>5. \A e \in edges' : e \in edges \/ e \in Joined(edges, n, First)
        BY <2>0
      <4>6. ASSUME NEW e \in Joined(edges, n, First)
            PROVE  /\ \E a, b \in edges : a[2] = n /\ Composes(e, a, b)
                   /\ prog.kind[e[1]] \notin {"ain", "fout"} /\ prog.kind[e[2]] \notin {"ain", "fout"}
        <5>1. PICK a \in InEdges(edges, n), b \in OutEdges(edges, n) :
                a[4] = b[4] /\ e = <<a[1], b[2], a[3], a[4]>>
          BY <4>3
        <5>2. ~ IsInter(b)
          BY <4>2
        <5>3. Composes(e, a, b) /\ a \in edges /\ b \in edges /\ a[2] = n
          BY <5>1, <5>2 DEF Composes, IsInter, InEdges, OutEdges
        <5> QED BY <1>0, <5>1, <5>3 DEF FlowIInv, EdgesInv
      <4>7. ASSUME NEW a \in edges, NEW b \in edges, a[2] = n, b[1] = n, a[4] = b[4]
            PROVE  \E e \in edges' : Composes(e, a, b)
        <5>1. a \in InEdges(edges, n) /\ b \in OutEdges(edges, n)
          BY <4>7 DEF InEdges, OutEdges
        <5>2. <<a[1], b[2], a[3], a[4]>> \in edges'
          BY <2>0, <3>2, <4>4, <4>7, <5>1
        <5>3. Composes(<<a[1], b[2], a[3], a[4]>>, a, b)
          BY <4>2, <4>7, <5>1 DEF Composes, IsInter
        <5> QED BY <5>2, <5>3
      <4>8. Bypassed(edges, edges', n)
        BY <2>4, <4>5, <4>6, <4>7 DEF Bypassed
      <4>9. \A e \in edges' : prog.kind[e[1]] \notin {"ain", "fout"} /\ prog.kind[e[2]] \notin {"ain", "fout"}
        BY <1>0, <4>5, <4>6 DEF FlowIInv, EdgesInv
      <4>10. EdgesInv'
        BY <1>0, <4>9 DEF EdgesInv
      <4> QED BY <4>8, <4>10
    <3> QED BY <3>1, <3>2
  <2>6. Bypassed(edges \cup Later, edges' \cup Later', n)
    BY <2>2, <2>3, <2>5, BypassedWith
  <2>7. FlowIsPreserved' /\ LaterInv'
    BY <1>0, <2>5, <2>6, BypassStep DEF FlowIInv
  <2> QED BY <2>2, <2>5, <2>7 DEF FlowIInv
<1> QED BY <1>1, <1>2

LEMMA SkipFlow ==
  ASSUME FlowIInv, IInv', NEW n \in nodes, SkipPHI(n)
  PROVE  FlowIInv'
<1>0. /\ phase = "intra" /\ UNCHANGED <<prog, nodes, defs, todo, phase>>
      /\ prog \in Programs
      /\ edges' \subseteq edges /\ \A e \in edges \ edges' : e[1] = e[2]
  BY DEF SkipPHI, SelfEdges, FlowIInv, IInv, TypeOK
<1>1. DefInv' /\ EdgesInv'
  BY <1>0 DEF FlowIInv, DefInv, EdgesInv, Def, InEdges
<1>2. Later' = Later
  BY <1>0, LaterUnchanged
<1>3. \A e \in edges \cup Later : e[2] \in Node
  BY EndsAreNodes DEF FlowIInv, IInv
<1>4. SameFlow(edges', edges)
  BY <1>0, <1>3, SelfEdgesKeepFlow
<1>5. SameFlow(edges' \cup Later, edges \cup Later)
  <2>1. \A e \in (edges \cup Later) \ (edges' \cup Later) : e[1] = e[2]
    BY <1>0
  <2> QED BY <1>0, <1>3, <2>1, SelfEdgesKeepFlow
<1>6. FlowIsPreserved' /\ LaterInv'
  BY <1>0, <1>2, <1>4, <1>5, FlowNext, SameFlowTransitive DEF FlowIInv, FlowIsPreserved, LaterInv
<1> QED BY <1>1, <1>6 DEF FlowIInv

LEMMA RemovePHIFlow ==
  ASSUME FlowIInv, IInv', NEW n \in nodes, RemovePHI(n)
  PROVE  FlowIInv'
<1> DEFINE E == edges \ SelfEdges(n)
           J == Joined(E, n, Either)
<1>0. /\ phase = "intra" /\ n \in worklist /\ UNCHANGED <<prog, defs, todo, phase>>
      /\ prog \in Programs
      /\ edges' = (E \ Around(E, n)) \cup J
      /\ nodes' = nodes \ {n}
  BY DEF RemovePHI, FlowIInv, IInv, TypeOK
<1>1. prog.kind[n] = "phi" /\ ~ isDefOfAInFOut(n)
  BY <1>0 DEF FlowIInv, IInv, WorklistInv
<1>2. ~ isConnectingTwoCallSites(edges, n)
  BY <1>1 DEF FlowIInv, IInv, InterInv, isConnectingTwoCallSites, OutEdges
<1>3. /\ \A e \in E : e \in edges /\ ~ (e[1] = n /\ e[2] = n)
      /\ \A e \in edges : e[1] # n \/ e[2] # n => e \in E
  BY DEF SelfEdges
<1> HIDE DEF E
<1>4. ASSUME NEW e \in J
      PROVE  \E a \in InEdges(E, n), b \in OutEdges(E, n) :
               a[4] = b[4] /\ e = <<a[1], b[2], Either(a[3], b[3]), a[4]>>
  BY DEF Joined
<1>5. ASSUME NEW a \in InEdges(E, n), NEW b \in OutEdges(E, n), a[4] = b[4]
      PROVE  <<a[1], b[2], Either(a[3], b[3]), a[4]>> \in J
  <2> DEFINE p == <<a, b>>
  <2>1. /\ p \in InEdges(E, n) \X OutEdges(E, n) /\ p[1][4] = p[2][4]
        /\ <<a[1], b[2], Either(a[3], b[3]), a[4]>>
             = <<p[1][1], p[2][2], Either(p[1][3], p[2][3]), p[1][4]>>
    BY <1>5
  <2> HIDE DEF p
  <2> QED BY <2>1 DEF Joined
<1> HIDE DEF J
<1>6. ASSUME NEW a \in edges, NEW b \in edges, a[2] = n, b[1] = n, a[4] = b[4]
      PROVE  Composes(<<a[1], b[2], Either(a[3], b[3]), a[4]>>, a, b)
  <2>1. a[3] = Intra \/ b[3] = Intra
    BY <1>2, <1>6 DEF isConnectingTwoCallSites, InEdges, OutEdges, IsInter
  <2> QED BY <1>6, <2>1 DEF Composes, Either
<1>7. DefInv' /\ Later' = Later
  BY <1>0, <1>1, DefsKept
<1>8. \A e \in Later : e[1] # n /\ e[2] # n
  BY <1>0, <1>1, LaterAvoids DEF FlowIInv
<1>9. Bypassed(edges, edges', n)
  <2>1. \A e \in edges' : e \in edges \/ e \in J
    BY <1>0, <1>3
  <2>2. ASSUME NEW e \in J
        PROVE  \E a, b \in edges : a[2] = n /\ Composes(e, a, b)
    <3>1. PICK a \in InEdges(E, n), b \in OutEdges(E, n) :
            a[4] = b[4] /\ e = <<a[1], b[2], Either(a[3], b[3]), a[4]>>
      BY <1>4
    <3>2. a \in edges /\ b \in edges /\ a[2] = n /\ b[1] = n
      BY <1>3 DEF InEdges, OutEdges
    <3> QED BY <1>6, <3>1, <3>2
  <2>3. \A e \in edges : e[1] # n /\ e[2] # n => e \in edges'
    BY <1>0, <1>3 DEF Around, InEdges, OutEdges
  <2>4. ASSUME NEW a \in edges, NEW b \in edges, a[2] = n, b[1] = n, a[1] # n, b[2] # n, a[4] = b[4]
        PROVE  \E e \in edges' : Composes(e, a, b)
    <3>1. a \in InEdges(E, n) /\ b \in OutEdges(E, n)
      BY <1>3, <2>4 DEF InEdges, OutEdges
    <3> QED BY <1>0, <1>5, <1>6, <2>4, <3>1
  <2> QED BY <2>1, <2>2, <2>3, <2>4 DEF Bypassed
<1>10. Bypassed(edges \cup Later, edges' \cup Later', n)
  BY <1>7, <1>8, <1>9, BypassedWith
<1>11. FlowIsPreserved' /\ LaterInv'
  BY <1>0, <1>1, <1>9, <1>10, BypassStep DEF FlowIInv
<1>12. EdgesInv'
  BY <1>0 DEF EdgesInv
<1> QED BY <1>7, <1>11, <1>12 DEF FlowIInv

LEMMA OtherFlow ==
  ASSUME FlowIInv, IInv', StartRemoving \/ StartIntra \/ EndIntra \/ UNCHANGED vars
  PROVE  FlowIInv'
<1>1. /\ UNCHANGED <<prog, nodes, edges, defs>> /\ prog \in Programs
      /\ \/ UNCHANGED <<todo, phase>>
         \/ phase = "retarget" /\ todo = {} /\ phase' = "remove"
         \/ phase # "retarget" /\ phase' \in {"intra", "done"}
  BY DEF StartRemoving, StartIntra, EndIntra, vars, FlowIInv, IInv, TypeOK
<1>2. \A q \in prog.later :
        (phase' = "retarget" /\ q[1] \in todo') <=> (phase = "retarget" /\ q[1] \in todo)
  BY <1>1
<1>3. Later' = Later
  BY <1>1, <1>2, LaterUnchanged
<1>4. FlowIsPreserved' /\ LaterInv'
  BY <1>1, <1>3, FlowNext DEF FlowIInv, FlowIsPreserved, LaterInv
<1>5. DefInv'
  <2>1. \A q \in prog.later : Def(q[1])' = Def(q[1])
    BY <1>1 DEF Def, InEdges
  <2> QED BY <1>1, <1>2, <2>1 DEF FlowIInv, DefInv
<1>6. EdgesInv'
  BY <1>1 DEF FlowIInv, EdgesInv, InEdges, IsInter
<1> QED BY <1>4, <1>5, <1>6 DEF FlowIInv

LEMMA FlowInductive == Spec => []FlowIInv
<1>1. FlowIInv /\ IInv' /\ [Next]_vars => FlowIInv'
  BY RetargetFlow, RemoveNodeFlow, SkipFlow, RemovePHIFlow, OtherFlow DEF Next, Terminated
<1> QED BY <1>1, InitFlow, Inductive, PTL DEF Spec

(* After every step of the reduction each store reaches the same loads and *)
(* stores as before it, for every object and through the same calls and    *)
(* returns: no node that is removed carried a flow of its own.             *)
THEOREM Preservation == Spec => []FlowIsPreserved
<1>1. FlowIInv => FlowIsPreserved
  BY DEF FlowIInv
<1> QED BY <1>1, FlowInductive, PTL

(* The reduced graph can still be connected to the callees of an indirect  *)
(* call resolved later: the nodes this is done at are kept, and values     *)
(* flow as if the calls had been connected before the reduction.           *)
THEOREM LaterCalls == Spec => []LaterCallsAreConnected
<1>1. ASSUME FlowIInv
      PROVE  LaterCallsAreConnected
  <2> SUFFICES ASSUME phase = "done"
               PROVE  /\ \A q \in prog.later : {DefOf[q[1]], q[2]} \subseteq nodes
                      /\ SameFlow(edges \cup Connections(DefOf), prog.edges \cup Connections(Itself))
    BY DEF LaterCallsAreConnected
  <2>1. prog \in Programs
    BY <1>1 DEF FlowIInv, IInv, TypeOK
  <2>2. ASSUME NEW q \in prog.later
        PROVE  /\ DefOf[q[1]] = Def(q[1]) /\ Current[q[1]] = Def(q[1])
               /\ Def(q[1]) \in nodes /\ q[2] \in nodes
    <3> DEFINE m == q[1]
               d == <<m, Def(m)>>
    <3>1. d \in defs /\ d[1] = m /\ d[2] = Def(m) /\ \A c \in defs : c[1] = m => c[2] = Def(m)
      BY <1>1 DEF FlowIInv, DefInv
    <3>2. q[2] \in nodes /\ \A c \in defs : c[2] \in nodes
      BY <1>1 DEF FlowIInv, DefInv
    <3> HIDE DEF m, d
    <3>3. m \in {c[1] : c \in defs}
      BY <3>1
    <3>4. DefOf[m] = (CHOOSE c \in defs : c[1] = m)[2]
      BY <3>3 DEF DefOf
    <3>5. DefOf[m] = Def(m)
      BY <3>1, <3>4
    <3>6. Current[m] = Def(m)
      BY <2>1, CurrentIs DEF m
    <3> QED BY <3>1, <3>2, <3>5, <3>6 DEF m
  <2>3. ASSUME NEW e
        PROVE  e \in Connections(DefOf) <=> e \in Connections(Current)
    BY <2>2, ConnectionsAre
  <2>4. Connections(DefOf) = Later
    BY <2>3 DEF Later
  <2> QED BY <1>1, <2>2, <2>4 DEF FlowIInv, LaterInv
<1> QED BY <1>1, FlowInductive, PTL

=============================================================================
