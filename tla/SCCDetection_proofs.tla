------------------------ MODULE SCCDetection_proofs ------------------------
(***************************************************************************)
(* Proofs about SCC detection, for every graph and every order in which    *)
(* children are visited.  Components are defined by closed sets, so that   *)
(* no induction over paths is needed.                                      *)
(***************************************************************************)
EXTENDS SCCDetection, FiniteSetTheorems, WellFoundedInduction, TLAPS

(* Every set closed under E that has m has n: m reaches n.                 *)
Reaches(E, m, n) == \A S \in ClosedSets(E) : m \in S => n \in S

Same(E, m, n) == Reaches(E, m, n) /\ Reaches(E, n, m)

F(i)    == frames[i].node
Calls   == 1 .. Len(frames)
OnStack == {F(i) : i \in Calls}
Waiting == {SS[i] : i \in 1 .. Len(SS)}
Active  == Visited \ inSCC

(* The children of the i-th node on the call stack whose results have been *)
(* used.                                                                   *)
Used(i) == Children(F(i)) \ (frames[i].todo \cup frames[i].pending)

(* Every visited node is on the call stack, waits for its root or is in a  *)
(* complete component, and the first two are numbered in the order of the  *)
(* visits.                                                                 *)
NumberInv ==
  /\ \A n \in Node : D[n] <= I
  /\ \A m, n \in Visited : D[m] = D[n] => m = n
  /\ OnStack \cap Waiting = {}
  /\ Active = OnStack \cup Waiting
  /\ inSCC \subseteq Visited

(* A call in progress is made for a pending child of the call before.      *)
StackInv ==
  /\ \A i \in Calls :
       /\ frames[i].todo \subseteq Children(F(i))
       /\ frames[i].pending \subseteq Children(F(i)) \cap Visited
       /\ \A a, b \in frames[i].pending : a = b
       /\ Used(i) \subseteq Visited
       /\ i + 1 \in Calls => frames[i].pending = {F(i + 1)}
  /\ \A i, j \in Calls : i < j => D[F(i)] < D[F(j)]
  /\ \A i, j \in Calls : i <= j => Reaches(edges, F(i), F(j))

(* A waiting node reaches a node on the call stack that was visited before *)
(* it, and all of these reach it.  What waits above a node visited after a *)
(* node on the call stack was visited after that too.                      *)
WaitingInv ==
  /\ \A w \in Waiting :
       /\ \E i \in Calls : D[F(i)] < D[w] /\ Reaches(edges, w, F(i))
       /\ \A i \in Calls : D[F(i)] < D[w] => Reaches(edges, F(i), w)
  /\ \A i, j \in 1 .. Len(SS), k \in Calls : i < j /\ D[SS[i]] > D[F(k)] => D[SS[j]] > D[F(k)]

(* A candidate root is in the component of its node and was visited no     *)
(* later.                                                                  *)
RootInv ==
  /\ \A n \in Active : rep[n] \in Active /\ D[rep[n]] <= D[n] /\ Same(edges, n, rep[n])
  /\ \A w \in Waiting : rep[w] # w

(* The candidate root of a node is as early as the nodes its edges lead    *)
(* to, and as the candidate roots of the nodes waiting above it, those of  *)
(* the child last visited excepted.                                        *)
LowInv ==
  /\ \A i \in Calls : \A x \in Used(i) : x \in inSCC \/ D[rep[F(i)]] <= D[x]
  /\ \A w \in Waiting : \A x \in Children(w) :
       x \in inSCC \/ (x \in Visited /\ D[rep[w]] <= D[x])
  /\ \A w \in Waiting, i \in Calls :
       D[F(i)] < D[w] /\ (i + 1 \in Calls => D[w] < D[F(i + 1)]) =>
         \/ D[rep[F(i)]] <= D[rep[w]]
         \/ i = Len(frames) /\ \E c \in frames[i].pending : c \in Waiting /\ D[rep[c]] <= D[rep[w]]

(* The nodes a node was once the candidate root of are in its component.   *)
SubInv ==
  /\ \A n \in Node : \A m \in subNodes[n] : Same(edges, m, n)
  /\ \A n \in Visited : rep[n] = n => n \in subNodes[n]

(* Complete components are closed and exact.                               *)
ComponentInv ==
  /\ \A e \in edges : e[1] \in inSCC => e[2] \in inSCC
  /\ \A n \in inSCC :
       /\ rep[n] \in inSCC /\ Same(edges, n, rep[n])
       /\ \A m \in Node : Same(edges, m, n) => m \in inSCC /\ rep[m] = rep[n] /\ m \in subNodes[rep[n]]
       /\ n # rep[n] => subNodes[n] = {}

(* T has each root once, with edges between components leading downwards.  *)
OrderInv ==
  /\ \A i \in 1 .. Len(T) : T[i] \in inSCC /\ rep[T[i]] = T[i]
  /\ \A i, j \in 1 .. Len(T) : T[i] = T[j] => i = j
  /\ \A n \in inSCC : \E i \in 1 .. Len(T) : T[i] = rep[n]
  /\ \A e \in edges : e[1] \in inSCC =>
       \A i, j \in 1 .. Len(T) : T[i] = rep[e[1]] /\ T[j] = rep[e[2]] => j <= i

IInv ==
  /\ TypeOK /\ NumberInv /\ StackInv /\ WaitingInv /\ RootInv /\ LowInv
  /\ SubInv /\ ComponentInv /\ OrderInv

-----------------------------------------------------------------------------
Frame == [node : Node, todo : SUBSET Node, pending : SUBSET Node]

(* The call on top is replaced by f; or it has returned.                   *)
TopBecomes(f) ==
  /\ frames' \in Seq(Frame) /\ Len(frames') = Len(frames)
  /\ \A i \in Calls : frames'[i] = IF i = Len(frames) THEN f ELSE frames[i]

TopReturns ==
  /\ frames' \in Seq(Frame) /\ Len(frames') = Len(frames) - 1
  /\ \A i \in Calls : i # Len(frames) => frames'[i] = frames[i]

Waits(f, w) == [node |-> f.node, todo |-> f.todo \ {w}, pending |-> {w}]
Goes(f)     == [node |-> f.node, todo |-> f.todo, pending |-> {}]
NewCall(v)  == [node |-> v, todo |-> Children(v), pending |-> {}]

(* v is called by the find loop, or by the call on top.                    *)
CallMade(v) ==
  /\ frames' \in Seq(Frame) /\ Len(frames') = Len(frames) + 1
  /\ frames'[Len(frames) + 1] = NewCall(v)
  /\ \A i \in Calls :
       frames'[i] = IF i = Len(frames) THEN Waits(frames[i], v) ELSE frames[i]

LEMMA TopIsCall ==
  ASSUME TypeOK, frames # << >>
  PROVE  /\ Len(frames) \in Calls /\ top \in Frame /\ top = frames[Len(frames)]
         /\ F(Len(frames)) = top.node
<1>1. frames \in Seq(Frame) /\ Len(frames) \in Nat
  BY DEF TypeOK, Frame
<1>2. Len(frames) # 0
  BY <1>1
<1>3. Len(frames) \in Calls
  BY <1>1, <1>2 DEF Calls
<1>4. frames[Len(frames)] \in Frame
  BY <1>1, <1>3 DEF Calls
<1> QED BY <1>3, <1>4 DEF top, F

LEMMA FrameFields ==
  ASSUME TypeOK, NEW i \in Calls
  PROVE  /\ frames[i] \in Frame /\ F(i) \in Node
         /\ frames[i].todo \subseteq Node /\ frames[i].pending \subseteq Node
<1>1. frames \in Seq(Frame)
  BY DEF TypeOK, Frame
<1>2. frames[i] \in Frame
  BY <1>1 DEF Calls
<1> QED BY <1>2 DEF Frame, F

LEMMA NextChildFrames ==
  ASSUME TypeOK, NEW w \in Node, NextChild(w)
  PROVE  /\ frames # << >> /\ top.pending = {} /\ w \in top.todo
         /\ w \in Visited => TopBecomes(Waits(top, w)) /\ UNCHANGED <<edges, I, D, rep, subNodes, inSCC, repNodes, SS, T>>
         /\ w \notin Visited =>
              /\ CallMade(w)
              /\ I' = I + 1 /\ D' = [D EXCEPT ![w] = I + 1] /\ rep' = [rep EXCEPT ![w] = w]
              /\ subNodes' = [subNodes EXCEPT ![w] = @ \cup {w}]
              /\ UNCHANGED <<edges, inSCC, repNodes, SS, T>>
<1> DEFINE k == Len(frames)
           moved == [frames EXCEPT ![k].todo = @ \ {w}, ![k].pending = {w}]
<1>1. frames # << >> /\ top.pending = {} /\ w \in top.todo
  BY DEF NextChild
<1>2. k \in Calls /\ k \in Nat /\ top \in Frame /\ top = frames[k]
  BY <1>1, TopIsCall DEF TypeOK
<1>3. frames \in Seq(Frame)
  BY DEF TypeOK, Frame
<1>4. /\ Waits(top, w) \in Frame
      /\ Waits(top, w) = [[top EXCEPT !.todo = @ \ {w}] EXCEPT !.pending = {w}]
  <2>1. top.node \in Node /\ top.todo \in SUBSET Node /\ top.pending \in SUBSET Node
    BY <1>2 DEF Frame
  <2>2. top = [node |-> top.node, todo |-> top.todo, pending |-> top.pending]
    BY <1>2 DEF Frame
  <2>3. Waits(top, w) \in Frame
    BY <2>1 DEF Waits, Frame
  <2> DEFINE g == [top EXCEPT !.todo = @ \ {w}]
  <2>4. g = [node |-> top.node, todo |-> top.todo \ {w}, pending |-> top.pending]
    BY <2>2
  <2> HIDE DEF g
  <2>5. [g EXCEPT !.pending = {w}] = [node |-> top.node, todo |-> top.todo \ {w}, pending |-> {w}]
    BY <2>4
  <2> QED BY <2>3, <2>5 DEF Waits, g
<1>5. moved = [frames EXCEPT ![k] = Waits(top, w)]
  BY <1>2, <1>3, <1>4 DEF Calls
<1>6. /\ moved \in Seq(Frame) /\ Len(moved) = k
      /\ \A i \in Calls : moved[i] = IF i = k THEN Waits(top, w) ELSE frames[i]
  <2> DEFINE f == Waits(top, w)
  <2> HIDE DEF f, moved, k
  <2>1. f \in Frame /\ moved = [frames EXCEPT ![k] = f] /\ k \in 1 .. Len(frames)
    BY <1>2, <1>4, <1>5 DEF f, Calls
  <2>2. /\ moved \in Seq(Frame) /\ Len(moved) = Len(frames)
        /\ \A i \in 1 .. Len(frames) : moved[i] = IF i = k THEN f ELSE frames[i]
    BY <1>3, <2>1
  <2> QED BY <2>2 DEF f, k, Calls
<1> HIDE DEF moved
<1>7. CASE w \in Visited
  <2>1. frames' = moved /\ UNCHANGED <<edges, I, D, rep, subNodes, inSCC, repNodes, SS, T>>
    BY <1>7 DEF NextChild, moved
  <2> QED BY <1>1, <1>6, <1>7, <2>1 DEF TopBecomes
<1>8. CASE w \notin Visited
  <2>1. Visit(w, moved)
    BY <1>8 DEF NextChild, moved
  <2>2. frames' = Append(moved, NewCall(w))
    BY <2>1 DEF Visit, NewCall
  <2>3. NewCall(w) \in Frame
    BY DEF NewCall, Frame, Children
  <2>4. CallMade(w)
    <3>1. /\ frames' \in Seq(Frame) /\ Len(frames') = k + 1 /\ frames'[k + 1] = NewCall(w)
          /\ \A i \in 1 .. k : frames'[i] = moved[i]
      BY <1>2, <1>6, <2>2, <2>3
    <3> QED BY <1>2, <1>6, <3>1 DEF CallMade, Calls
  <2> QED BY <1>1, <1>8, <2>1, <2>4 DEF Visit
<1> QED BY <1>7, <1>8

LEMMA StartFrames ==
  ASSUME TypeOK, NEW v \in Node, Start(v)
  PROVE  /\ frames = << >> /\ v \notin Visited /\ CallMade(v)
         /\ I' = I + 1 /\ D' = [D EXCEPT ![v] = I + 1] /\ rep' = [rep EXCEPT ![v] = v]
         /\ subNodes' = [subNodes EXCEPT ![v] = @ \cup {v}]
         /\ UNCHANGED <<edges, inSCC, repNodes, SS, T>>
<1>1. frames' = Append(<< >>, NewCall(v)) /\ frames = << >>
  BY DEF Start, Visit, NewCall
<1>2. NewCall(v) \in Frame
  BY DEF NewCall, Frame, Children
<1>3. CallMade(v)
  <2>1. frames' = <<NewCall(v)>>
    BY <1>1
  <2> QED BY <1>1, <1>2, <2>1 DEF CallMade, Calls
<1> QED BY <1>3 DEF Start, Visit

LEMMA UseChildFrames ==
  ASSUME TypeOK, NEW w \in Node, UseChild(w)
  PROVE  frames # << >> /\ w \in top.pending /\ TopBecomes(Goes(top))
<1> DEFINE k == Len(frames)
<1>1. frames # << >> /\ w \in top.pending
  BY DEF UseChild
<1>2. k \in Calls /\ k \in Nat /\ top \in Frame /\ top = frames[k] /\ frames \in Seq(Frame)
  BY <1>1, TopIsCall DEF TypeOK, Frame
<1>3. Goes(top) \in Frame /\ Goes(top) = [top EXCEPT !.pending = {}]
  <2>1. top.node \in Node /\ top.todo \in SUBSET Node /\ top.pending \in SUBSET Node
    BY <1>2 DEF Frame
  <2>2. top = [node |-> top.node, todo |-> top.todo, pending |-> top.pending]
    BY <1>2 DEF Frame
  <2> QED BY <2>1, <2>2 DEF Goes, Frame
<1>4. frames' = [frames EXCEPT ![k] = Goes(top)]
  BY <1>2, <1>3 DEF UseChild, Calls
<1>5. TopBecomes(Goes(top))
  BY <1>2, <1>3, <1>4 DEF TopBecomes, Calls
<1> QED BY <1>1, <1>5

LEMMA ReturnFrames ==
  ASSUME TypeOK, frames # << >>, frames' = SubSeq(frames, 1, Len(frames) - 1)
  PROVE  TopReturns
<1>1. frames \in Seq(Frame) /\ Len(frames) \in Nat /\ Len(frames) >= 1
  <2>1. frames \in Seq(Frame)
    BY DEF TypeOK, Frame
  <2>2. Len(frames) \in Calls
    BY TopIsCall
  <2> QED BY <2>1, <2>2 DEF Calls
<1> DEFINE k == Len(frames) - 1
<1>2. frames' = SubSeq(frames, 1, k) /\ k \in 0 .. Len(frames)
  BY <1>1
<1> HIDE DEF k
<1>3. /\ frames' \in Seq(Frame) /\ Len(frames') = k
      /\ \A i \in 1 .. k : frames'[i] = frames[i]
  BY <1>1, <1>2
<1> QED BY <1>1, <1>3 DEF TopReturns, Calls, k

-----------------------------------------------------------------------------
LEMMA ReachesItself ==
  ASSUME NEW E, NEW m
  PROVE  Reaches(E, m, m) /\ Same(E, m, m)
BY DEF Reaches, Same

LEMMA ReachesTransitive ==
  ASSUME NEW E, NEW m, NEW n, NEW x, Reaches(E, m, n), Reaches(E, n, x)
  PROVE  Reaches(E, m, x)
BY DEF Reaches

LEMMA SameTransitive ==
  ASSUME NEW E, NEW m, NEW n, NEW x, Same(E, m, n), Same(E, n, x)
  PROVE  Same(E, m, x) /\ Same(E, n, m)
BY DEF Reaches, Same

LEMMA ChildReached ==
  ASSUME NEW v, NEW w \in Children(v)
  PROVE  Reaches(edges, v, w) /\ <<v, w>> \in edges /\ w \in Node
<1>1. <<v, w>> \in edges /\ <<v, w>>[1] = v /\ <<v, w>>[2] = w /\ w \in Node
  BY DEF Children
<1> QED BY <1>1 DEF Reaches, ClosedSets

(* The numbers of visited nodes are a reachability order on those that are *)
(* not in a complete component.                                            *)
LEMMA EarlierReaches ==
  ASSUME TypeOK, NumberInv, StackInv, WaitingInv,
         NEW r \in Active, NEW m \in Active, D[r] <= D[m]
  PROVE  Reaches(edges, r, m)
<1>0. /\ \A n \in Node : D[n] \in Nat
      /\ r \in Node /\ m \in Node
      /\ \A i \in Calls : F(i) \in Node /\ i \in Nat
  BY FrameFields DEF TypeOK, Active, Visited, Calls
<1>1. ASSUME NEW i \in Calls, D[F(i)] <= D[m]
      PROVE  Reaches(edges, F(i), m)
  <2>1. CASE m \in Waiting
    <3>1. F(i) # m
      BY <2>1 DEF NumberInv, OnStack
    <3>2. F(i) \in Visited /\ m \in Visited
      BY DEF NumberInv, OnStack, Active
    <3>3. D[F(i)] < D[m]
      BY <1>0, <1>1, <3>1, <3>2 DEF NumberInv
    <3> QED BY <2>1, <3>3 DEF WaitingInv
  <2>2. CASE m \in OnStack
    <3>1. PICK j \in Calls : m = F(j)
      BY <2>2 DEF OnStack
    <3>2. i <= j
      BY <1>0, <1>1, <3>1 DEF StackInv
    <3> QED BY <3>1, <3>2 DEF StackInv
  <2> QED BY <2>1, <2>2 DEF NumberInv
<1>2. CASE r \in OnStack
  BY <1>1, <1>2 DEF OnStack
<1>3. CASE r \in Waiting
  <2>1. PICK i \in Calls : D[F(i)] < D[r] /\ Reaches(edges, r, F(i))
    BY <1>3 DEF WaitingInv
  <2>2. D[F(i)] <= D[m]
    BY <1>0, <2>1
  <2> QED BY <1>1, <2>1, <2>2, ReachesTransitive
<1> QED BY <1>2, <1>3 DEF NumberInv

-----------------------------------------------------------------------------
LEMMA InitInv == Init => IInv
<1> SUFFICES ASSUME Init PROVE IInv
  OBVIOUS
<1> USE DEF Init
<1>1. Visited = {} /\ Calls = {} /\ Waiting = {} /\ OnStack = {} /\ Active = {}
  BY DEF Visited, Calls, Waiting, OnStack, Active
<1>2. TypeOK
  BY <1>1 DEF TypeOK
<1>3. NumberInv
  BY <1>1 DEF NumberInv
<1>4. StackInv /\ WaitingInv /\ RootInv /\ LowInv
  BY <1>1 DEF StackInv, WaitingInv, RootInv, LowInv
<1>5. SubInv /\ ComponentInv /\ OrderInv
  BY <1>1 DEF SubInv, ComponentInv, OrderInv
<1> QED BY <1>2, <1>3, <1>4, <1>5 DEF IInv

LEMMA VisitStep ==
  ASSUME IInv, NEW v \in Node, v \notin Visited, CallMade(v),
         \A i \in Calls : i = Len(frames) => frames[i].pending = {} /\ v \in frames[i].todo,
         I' = I + 1, D' = [D EXCEPT ![v] = I + 1], rep' = [rep EXCEPT ![v] = v],
         subNodes' = [subNodes EXCEPT ![v] = @ \cup {v}],
         UNCHANGED <<edges, inSCC, repNodes, SS, T>>
  PROVE  IInv'
<1> USE DEF IInv
<1> DEFINE k == Len(frames)
<1>0. /\ k \in Nat /\ Calls = 1 .. k /\ Calls' = 1 .. (k + 1)
      /\ \A i \in Calls : i \in Calls' /\ i \in Nat /\ i # k + 1
      /\ \A i \in Calls' : i \in Calls \/ i = k + 1
  BY DEF TypeOK, CallMade, Calls
<1>1. /\ \A i \in Calls : F(i)' = F(i)
      /\ frames'[k + 1].node = v
      /\ \A i \in Calls' : i = k + 1 => F(i)' = v
  <2>1. \A i \in Calls : frames'[i].node = frames[i].node
    <3> TAKE i \in Calls
    <3>1. CASE i = k
      <4>1. frames'[i] = Waits(frames[i], v)
        BY <3>1 DEF CallMade
      <4> QED BY <4>1 DEF Waits
    <3>2. CASE i # k
      BY <3>2 DEF CallMade
    <3> QED BY <3>1, <3>2
  <2>2. frames'[k + 1].node = v
    BY DEF CallMade, NewCall
  <2> QED BY <2>1, <2>2 DEF F
<1>2. /\ \A n \in Node : n # v => D'[n] = D[n] /\ rep'[n] = rep[n] /\ subNodes'[n] = subNodes[n]
      /\ D'[v] = I + 1 /\ rep'[v] = v /\ subNodes'[v] = subNodes[v] \cup {v}
      /\ I \in Nat /\ \A n \in Node : D[n] \in Nat /\ D'[n] \in Nat
  BY DEF TypeOK
<1>3. Visited' = Visited \cup {v}
  BY <1>2 DEF Visited
<1>4. /\ Waiting' = Waiting /\ OnStack' = OnStack \cup {v} /\ Active' = Active \cup {v}
      /\ v \notin Active /\ v \notin inSCC /\ v \notin Waiting /\ v \notin OnStack
  <2>1. Waiting' = Waiting
    BY DEF Waiting
  <2>2. OnStack' = OnStack \cup {v}
    <3>1. k + 1 \in Calls'
      BY <1>0
    <3> QED BY <1>0, <1>1, <3>1 DEF OnStack
  <2>3. v \notin Active /\ v \notin inSCC
    BY DEF NumberInv, Active
  <2>4. Active' = Active \cup {v}
    BY <1>3, <2>3 DEF Active
  <2> QED BY <2>1, <2>2, <2>3, <2>4 DEF NumberInv
<1>5. \A n \in Visited : n \in Node /\ n # v /\ D'[n] = D[n] /\ D[n] <= I
  BY <1>2 DEF Visited, NumberInv
<1>6. \A n : Children(n)' = Children(n)
  BY DEF Children
<1>7. /\ \A i \in Calls : Used(i)' = Used(i)
      /\ \A i \in Calls' : i = k + 1 => Used(i)' = {}
  <2>1. ASSUME NEW i \in Calls PROVE Used(i)' = Used(i)
    <3>1. CASE i = k
      <4>1. /\ frames'[i].todo = frames[i].todo \ {v} /\ frames'[i].pending = {v}
            /\ frames[i].pending = {} /\ v \in frames[i].todo
        <5>1. frames'[i] = Waits(frames[i], v)
          BY <3>1 DEF CallMade
        <5> QED BY <3>1, <5>1 DEF Waits
      <4> QED BY <1>1, <1>6, <4>1 DEF Used
    <3>2. CASE i # k
      <4>1. frames'[i] = frames[i]
        BY <3>2 DEF CallMade
      <4> QED BY <1>1, <1>6, <4>1 DEF Used
    <3> QED BY <3>1, <3>2
  <2>2. ASSUME NEW i \in Calls', i = k + 1 PROVE Used(i)' = {}
    BY <1>1, <1>6, <2>2 DEF Used, CallMade, NewCall
  <2> QED BY <2>1, <2>2
<1>8. \A i \in Calls : F(i) \in Visited /\ F(i) \in Active
  BY DEF NumberInv, OnStack, Active
<1>9. \A w \in Waiting : w \in Visited /\ w \in Active
  BY DEF NumberInv, Active
<1>10. TypeOK'
  <2>1. /\ edges' \in Graphs /\ I' \in Nat /\ D' \in [Node -> Nat]
        /\ inSCC' \subseteq Node /\ repNodes' \subseteq Node /\ SS' \in Seq(Node) /\ T' \in Seq(Node)
    BY <1>2 DEF TypeOK
  <2>2. rep' \in [Node -> Node \cup {0}] /\ subNodes' \in [Node -> SUBSET Node]
    BY DEF TypeOK
  <2>3. \A n \in Node : rep'[n] = 0 <=> n \notin Visited'
    BY <1>2, <1>3, SCCAssumption DEF TypeOK
  <2>4. frames' \in Seq([node : Node, todo : SUBSET Node, pending : SUBSET Node])
    BY DEF CallMade, Frame
  <2> QED BY <2>1, <2>2, <2>3, <2>4 DEF TypeOK
<1>11. NumberInv'
  <2>1. \A n \in Node : D'[n] <= I'
    BY <1>2 DEF NumberInv
  <2>2. \A m, n \in Visited' : D'[m] = D'[n] => m = n
    BY <1>2, <1>3, <1>5 DEF NumberInv
  <2>3. /\ OnStack' \cap Waiting' = {} /\ Active' = OnStack' \cup Waiting'
        /\ inSCC' \subseteq Visited'
    BY <1>3, <1>4 DEF NumberInv
  <2> QED BY <2>1, <2>2, <2>3 DEF NumberInv
<1>12. StackInv'
  <2>1. ASSUME NEW i \in Calls'
        PROVE  /\ frames'[i].todo \subseteq Children(F(i))'
               /\ frames'[i].pending \subseteq Children(F(i))' \cap Visited'
               /\ \A a, b \in frames'[i].pending : a = b
               /\ Used(i)' \subseteq Visited'
               /\ i + 1 \in Calls' => frames'[i].pending = {F(i + 1)'}
    <3>1. CASE i = k + 1
      BY <1>0, <1>1, <1>6, <1>7, <3>1 DEF CallMade, NewCall
    <3>2. CASE i \in Calls /\ i = k
      <4>1. frames'[i] = Waits(frames[i], v)
        BY <3>2 DEF CallMade
      <4>2. Children(F(i))' = Children(F(i))
        BY <1>1, <1>6, <3>2
      <4> QED BY <1>0, <1>1, <1>3, <1>7, <3>2, <4>1, <4>2 DEF StackInv, Waits
    <3>3. CASE i \in Calls /\ i # k
      <4>1. frames'[i] = frames[i] /\ i + 1 \in Calls
        BY <1>0, <3>3 DEF CallMade
      <4>2. Children(F(i))' = Children(F(i)) /\ F(i + 1)' = F(i + 1)
        BY <1>1, <1>6, <3>3, <4>1
      <4> QED BY <1>3, <1>7, <3>3, <4>1, <4>2 DEF StackInv
    <3> QED BY <1>0, <3>1, <3>2, <3>3
  <2>2. ASSUME NEW i \in Calls', NEW j \in Calls', i < j
        PROVE  D'[F(i)'] < D'[F(j)']
    <3>1. i \in Calls
      BY <1>0, <2>2
    <3>2. CASE j \in Calls
      BY <1>1, <1>5, <1>8, <2>2, <3>1, <3>2 DEF StackInv
    <3>3. CASE j = k + 1
      BY <1>1, <1>2, <1>5, <1>8, <3>1, <3>3
    <3> QED BY <1>0, <3>2, <3>3
  <2>3. ASSUME NEW i \in Calls', NEW j \in Calls', i <= j
        PROVE  Reaches(edges', F(i)', F(j)')
    <3>1. CASE j \in Calls
      <4>1. i \in Calls
        BY <1>0, <2>3, <3>1
      <4> QED BY <1>1, <2>3, <3>1, <4>1 DEF StackInv
    <3>2. CASE i = k + 1 /\ j = k + 1
      BY <1>1, <3>2, ReachesItself
    <3>3. CASE i \in Calls /\ j = k + 1
      <4>1. k \in Calls /\ i <= k
        BY <1>0, <3>3
      <4>2. v \in Children(F(k))
        BY <4>1 DEF StackInv
      <4>3. Reaches(edges, F(i), F(k)) /\ Reaches(edges, F(k), v)
        BY <3>3, <4>1, <4>2, ChildReached DEF StackInv
      <4> QED BY <1>1, <3>3, <4>3, ReachesTransitive
    <3> QED BY <1>0, <2>3, <3>1, <3>2, <3>3
  <2> QED BY <2>1, <2>2, <2>3 DEF StackInv
<1>13. WaitingInv'
  <2>1. ASSUME NEW w \in Waiting
        PROVE  /\ \E i \in Calls' : D'[F(i)'] < D'[w] /\ Reaches(edges, w, F(i)')
               /\ \A i \in Calls' : D'[F(i)'] < D'[w] => Reaches(edges, F(i)', w)
    <3>1. PICK i \in Calls : D[F(i)] < D[w] /\ Reaches(edges, w, F(i))
      BY DEF WaitingInv
    <3>2. D'[F(i)'] < D'[w] /\ Reaches(edges, w, F(i)') /\ i \in Calls'
      BY <1>0, <1>1, <1>5, <1>8, <1>9, <3>1
    <3>3. ASSUME NEW j \in Calls', D'[F(j)'] < D'[w]
          PROVE  Reaches(edges, F(j)', w)
      <4>1. j \in Calls
        BY <1>0, <1>1, <1>2, <1>5, <1>9, <3>3
      <4> QED BY <1>1, <1>5, <1>8, <1>9, <3>3, <4>1 DEF WaitingInv
    <3> QED BY <3>2, <3>3
  <2>2. ASSUME NEW i \in 1 .. Len(SS), NEW j \in 1 .. Len(SS), NEW c \in Calls',
               i < j, D'[SS[i]] > D'[F(c)']
        PROVE  D'[SS[j]] > D'[F(c)']
    <3>1. SS[i] \in Waiting /\ SS[j] \in Waiting
      BY DEF Waiting
    <3>2. c \in Calls
      BY <1>0, <1>1, <1>2, <1>5, <1>9, <2>2, <3>1
    <3> QED BY <1>1, <1>5, <1>8, <1>9, <2>2, <3>1, <3>2 DEF WaitingInv
  <2> QED BY <1>4, <2>1, <2>2 DEF WaitingInv
<1>14. RootInv'
  <2>1. ASSUME NEW n \in Active'
        PROVE  rep'[n] \in Active' /\ D'[rep'[n]] <= D'[n] /\ Same(edges', n, rep'[n])
    <3>1. CASE n = v
      BY <1>2, <1>4, <3>1, ReachesItself
    <3>2. CASE n \in Active
      BY <1>2, <1>4, <1>5, <3>2 DEF RootInv, Active
    <3> QED BY <1>4, <3>1, <3>2
  <2>2. \A w \in Waiting' : rep'[w] # w
    BY <1>4, <1>5, <1>9, <1>2 DEF RootInv
  <2> QED BY <2>1, <2>2 DEF RootInv
<1>15. LowInv'
  <2>0. /\ \A n \in Active : rep'[n] = rep[n] /\ D'[rep'[n]] = D[rep[n]]
    BY <1>2, <1>5 DEF RootInv, Active
  <2>1. ASSUME NEW i \in Calls', NEW x \in Used(i)'
        PROVE  x \in inSCC' \/ D'[rep'[F(i)']] <= D'[x]
    <3>1. i \in Calls /\ x \in Used(i)
      BY <1>0, <1>7, <2>1
    <3>2. x \in Visited
      BY <3>1 DEF StackInv
    <3> QED BY <1>1, <1>5, <1>8, <2>0, <3>1, <3>2 DEF LowInv
  <2>2. ASSUME NEW w \in Waiting, NEW x \in Children(w)
        PROVE  x \in inSCC' \/ (x \in Visited' /\ D'[rep'[w]] <= D'[x])
    BY <1>3, <1>5, <1>9, <2>0 DEF LowInv
  <2>3. ASSUME NEW w \in Waiting, NEW i \in Calls', D'[F(i)'] < D'[w],
               i + 1 \in Calls' => D'[w] < D'[F(i + 1)']
        PROVE  D'[rep'[F(i)']] <= D'[rep'[w]]
    <3>1. i \in Calls
      BY <1>0, <1>1, <1>2, <1>5, <1>9, <2>3
    <3>2. D[F(i)] < D[w]
      BY <1>1, <1>5, <1>8, <1>9, <2>3, <3>1
    <3>3. i + 1 \in Calls => D[w] < D[F(i + 1)]
      BY <1>0, <1>1, <1>5, <1>8, <1>9, <2>3
    <3>4. D[rep[F(i)]] <= D[rep[w]]
      BY <1>0, <3>1, <3>2, <3>3 DEF LowInv
    <3> QED BY <1>1, <1>8, <1>9, <2>0, <3>1, <3>4
  <2> QED BY <1>4, <1>6, <2>1, <2>2, <2>3 DEF LowInv
<1>16. SubInv'
  <2>1. ASSUME NEW n \in Node, NEW m \in subNodes'[n]
        PROVE  Same(edges', m, n)
    BY <1>2, ReachesItself DEF SubInv
  <2>2. \A n \in Visited' : rep'[n] = n => n \in subNodes'[n]
    BY <1>2, <1>3, <1>5 DEF SubInv
  <2> QED BY <2>1, <2>2 DEF SubInv
<1>17. ComponentInv'
  <2>1. \A n \in inSCC : n \in Node /\ n # v /\ rep'[n] = rep[n] /\ subNodes'[n] = subNodes[n]
    BY <1>2, <1>4, <1>5 DEF NumberInv
  <2> QED BY <2>1 DEF ComponentInv
<1>18. OrderInv'
  <2>1. \A n \in inSCC : n \in Node /\ rep'[n] = rep[n]
    BY <1>2, <1>4, <1>5 DEF NumberInv
  <2>2. \A e \in edges : e[1] \in inSCC => e[2] \in inSCC
    BY DEF ComponentInv
  <2>3. \A i \in 1 .. Len(T) : T[i] \in inSCC /\ rep'[T[i]] = T[i]
    BY <2>1 DEF OrderInv
  <2>4. \A n \in inSCC : \E i \in 1 .. Len(T) : T[i] = rep'[n]
    BY <2>1 DEF OrderInv
  <2>5. \A e \in edges : e[1] \in inSCC =>
          \A i, j \in 1 .. Len(T) : T[i] = rep'[e[1]] /\ T[j] = rep'[e[2]] => j <= i
    BY <2>1, <2>2 DEF OrderInv
  <2>6. \A i, j \in 1 .. Len(T) : T[i] = T[j] => i = j
    BY DEF OrderInv
  <2> QED BY <2>3, <2>4, <2>5, <2>6 DEF OrderInv
<1> QED BY <1>10, <1>11, <1>12, <1>13, <1>14, <1>15, <1>16, <1>17, <1>18

(* The calls on the stack stay the same ones.                              *)
LEMMA CallsKept ==
  ASSUME IInv, frames # << >>, NEW f \in Frame, f.node = top.node, f.todo \subseteq top.todo,
         f.pending \subseteq Children(top.node) \cap Visited, \A a, b \in f.pending : a = b,
         Children(top.node) \ (f.todo \cup f.pending) \subseteq Visited,
         TopBecomes(f), UNCHANGED <<edges, I, D, inSCC, SS, T>>
  PROVE  /\ Calls' = Calls /\ Visited' = Visited /\ Waiting' = Waiting
         /\ OnStack' = OnStack /\ Active' = Active
         /\ \A i \in Calls : F(i)' = F(i)
         /\ \A i \in Calls : i # Len(frames) => Used(i)' = Used(i)
         /\ NumberInv' /\ StackInv' /\ WaitingInv'
<1> USE DEF IInv
<1> DEFINE k == Len(frames)
<1>0. /\ k \in Nat /\ Calls = 1 .. k /\ Calls' = Calls /\ Len(frames') = k
      /\ k \in Calls /\ top = frames[k] /\ F(k) = top.node
  BY TopIsCall DEF TypeOK, TopBecomes, Calls
<1>1. \A i \in Calls : frames'[i] = IF i = k THEN f ELSE frames[i]
  BY DEF TopBecomes
<1>2. \A i \in Calls : F(i)' = F(i)
  BY <1>0, <1>1 DEF F
<1>3. /\ Visited' = Visited /\ Waiting' = Waiting /\ OnStack' = OnStack /\ Active' = Active
      /\ \A n : Children(n)' = Children(n)
  BY <1>0, <1>2 DEF Visited, Waiting, OnStack, Active, Children
<1>4. \A i \in Calls : i # k => Used(i)' = Used(i)
  BY <1>1, <1>2, <1>3 DEF Used
<1>5. NumberInv'
  BY <1>3 DEF NumberInv
<1>6. StackInv'
  <2>1. ASSUME NEW i \in Calls
        PROVE  /\ frames'[i].todo \subseteq Children(F(i))'
               /\ frames'[i].pending \subseteq Children(F(i))' \cap Visited'
               /\ \A a, b \in frames'[i].pending : a = b
               /\ Used(i)' \subseteq Visited'
               /\ i + 1 \in Calls' => frames'[i].pending = {F(i + 1)'}
    <3>0. Children(F(i))' = Children(F(i))
      BY <1>2, <1>3
    <3>1. CASE i = k
      <4>1. frames'[i] = f /\ i + 1 \notin Calls'
        BY <1>0, <1>1, <3>1
      <4>2. frames[i].todo \subseteq Children(F(i))
        BY DEF StackInv
      <4>3. Used(i)' \subseteq Visited'
        BY <1>0, <1>3, <3>0, <3>1, <4>1 DEF Used
      <4> QED BY <1>0, <1>3, <3>0, <3>1, <4>1, <4>2, <4>3
    <3>2. CASE i # k
      <4>1. frames'[i] = frames[i] /\ i + 1 \in Calls
        BY <1>0, <1>1, <3>2
      <4>2. F(i + 1)' = F(i + 1) /\ Used(i)' = Used(i)
        BY <1>2, <1>4, <3>2, <4>1
      <4> QED BY <1>3, <3>0, <4>1, <4>2 DEF StackInv
    <3> QED BY <3>1, <3>2
  <2>2. ASSUME NEW i \in Calls, NEW j \in Calls
        PROVE  /\ i < j => D'[F(i)'] < D'[F(j)']
               /\ i <= j => Reaches(edges', F(i)', F(j)')
    BY <1>2 DEF StackInv
  <2> QED BY <1>0, <2>1, <2>2 DEF StackInv
<1>7. WaitingInv'
  <2>1. ASSUME NEW w \in Waiting
        PROVE  /\ \E i \in Calls : D'[F(i)'] < D'[w] /\ Reaches(edges', w, F(i)')
               /\ \A i \in Calls : D'[F(i)'] < D'[w] => Reaches(edges', F(i)', w)
    BY <1>2 DEF WaitingInv
  <2>2. \A i, j \in 1 .. Len(SS), c \in Calls : i < j /\ D'[SS[i]] > D'[F(c)'] => D'[SS[j]] > D'[F(c)']
    BY <1>2 DEF WaitingInv
  <2> QED BY <1>0, <1>3, <2>1, <2>2 DEF WaitingInv
<1> QED BY <1>0, <1>2, <1>3, <1>4, <1>5, <1>6, <1>7

LEMMA SkipStep ==
  ASSUME IInv, NEW w \in Visited, frames # << >>, top.pending = {}, w \in top.todo,
         TopBecomes(Waits(top, w)), UNCHANGED <<edges, I, D, rep, subNodes, inSCC, repNodes, SS, T>>
  PROVE  IInv'
<1> USE DEF IInv
<1> DEFINE k == Len(frames)
<1>0. k \in Calls /\ top = frames[k] /\ F(k) = top.node /\ k \in Nat /\ Calls = 1 .. k
  BY TopIsCall DEF Calls, TypeOK
<1>1. /\ Waits(top, w).node = top.node /\ Waits(top, w).todo = top.todo \ {w}
      /\ Waits(top, w).pending = {w}
  BY DEF Waits
<1>2. Waits(top, w) \in Frame
  <2>1. top.node \in Node /\ top.todo \in SUBSET Node /\ w \in Node
    BY <1>0, FrameFields DEF F, Visited
  <2> QED BY <2>1 DEF Waits, Frame
<1>3. /\ top.todo \subseteq Children(top.node)
      /\ Children(top.node) \ (top.todo \cup top.pending) \subseteq Visited
  BY <1>0 DEF StackInv, Used
<1>4. /\ Calls' = Calls /\ Visited' = Visited /\ Waiting' = Waiting
      /\ OnStack' = OnStack /\ Active' = Active
      /\ \A i \in Calls : F(i)' = F(i)
      /\ \A i \in Calls : i # Len(frames) => Used(i)' = Used(i)
      /\ NumberInv' /\ StackInv' /\ WaitingInv'
  BY <1>1, <1>2, <1>3, CallsKept
<1>5. \A i \in Calls : Used(i)' = Used(i)
  <2>1. ASSUME NEW i \in Calls, i = k
        PROVE  Used(i)' = Used(i)
    <3>1. frames'[i] = Waits(top, w) /\ F(i)' = F(i) /\ frames[i] = top
      BY <1>0, <1>4, <2>1 DEF TopBecomes
    <3>2. Children(F(i))' = Children(F(i))
      BY <3>1 DEF Children
    <3> QED BY <1>1, <3>1, <3>2 DEF Used
  <2> QED BY <1>4, <2>1
<1>6. TypeOK'
  <2>1. /\ frames' \in Seq([node : Node, todo : SUBSET Node, pending : SUBSET Node])
        /\ Visited' = Visited
    BY <1>4 DEF TopBecomes, Frame
  <2> QED BY <2>1 DEF TypeOK
<1>7. RootInv'
  BY <1>4 DEF RootInv
<1>8. LowInv'
  <2>1. \A i \in Calls : \A x \in Used(i) : x \in inSCC \/ D[rep[F(i)]] <= D[x]
    BY DEF LowInv
  <2>2. \A i \in Calls : \A x \in Used(i)' : x \in inSCC' \/ D'[rep'[F(i)']] <= D'[x]
    BY <1>4, <1>5, <2>1
  <2>3. \A n \in Waiting : \A x \in Children(n)' : x \in inSCC' \/ (x \in Visited' /\ D'[rep'[n]] <= D'[x])
    BY <1>4 DEF LowInv, Children
  <2>4. ASSUME NEW n \in Waiting, NEW i \in Calls, D[F(i)] < D[n], i + 1 \in Calls => D[n] < D[F(i + 1)]
        PROVE  D[rep[F(i)]] <= D[rep[n]]
    BY <1>0, <2>4 DEF LowInv
  <2>5. ASSUME NEW n \in Waiting, NEW i \in Calls, D'[F(i)'] < D'[n],
               i + 1 \in Calls => D'[n] < D'[F(i + 1)']
        PROVE  D'[rep'[F(i)']] <= D'[rep'[n]]
    <3>1. F(i)' = F(i) /\ (i + 1 \in Calls => F(i + 1)' = F(i + 1))
      BY <1>4
    <3> QED BY <2>4, <2>5, <3>1
  <2> QED BY <1>4, <2>2, <2>3, <2>5 DEF LowInv
<1>9. SubInv' /\ ComponentInv' /\ OrderInv'
  BY <1>4 DEF SubInv, ComponentInv, OrderInv
<1> QED BY <1>4, <1>6, <1>7, <1>8, <1>9

(* What using the result of a child does to the candidate roots.           *)
LEMMA UseChildRoots ==
  ASSUME IInv, NEW w \in Node, UseChild(w), w \notin inSCC, NEW v, v = top.node
  PROVE  /\ v \in Active /\ w \in Active
         /\ \E r \in Active :
              /\ D[r] <= D[rep[v]] /\ D[r] <= D[rep[w]] /\ Same(edges, v, r)
              /\ SetRep(v, r)
<1> USE DEF IInv
<1>0. Len(frames) \in Calls /\ top = frames[Len(frames)] /\ F(Len(frames)) = v /\ w \in top.pending
  BY UseChildFrames, TopIsCall
<1>1. v \in Active /\ v \in Node
  BY <1>0, FrameFields DEF NumberInv, OnStack
<1>2. w \in Children(v) /\ w \in Visited /\ w \in Active
  BY <1>0 DEF StackInv, Active
<1>3. /\ rep[v] \in Active /\ rep[w] \in Active
      /\ D[rep[v]] <= D[v] /\ Same(edges, v, rep[v]) /\ Same(edges, w, rep[w])
  BY <1>1, <1>2 DEF RootInv
<1>4. /\ rep[v] \in Node /\ rep[w] \in Node /\ \A n \in Node : D[n] \in Nat
  BY <1>3 DEF Active, Visited, TypeOK
<1> DEFINE r == IF D[rep[v]] < D[rep[w]] THEN rep[v] ELSE rep[w]
<1>5. SetRep(v, r)
  BY DEF UseChild
<1>6. r \in Active /\ D[r] <= D[rep[v]] /\ D[r] <= D[rep[w]]
  BY <1>3, <1>4
<1>7. Same(edges, v, r)
  <2>1. Reaches(edges, v, r)
    <3>1. Reaches(edges, v, rep[v])
      BY <1>3 DEF Same
    <3>2. Reaches(edges, v, rep[w])
      BY <1>2, <1>3, ChildReached, ReachesTransitive DEF Same
    <3> QED BY <3>1, <3>2
  <2>2. D[r] <= D[v]
    BY <1>1, <1>3, <1>4, <1>6 DEF Active, Visited
  <2> HIDE DEF r
  <2>3. Reaches(edges, r, v)
    BY <1>1, <1>6, <2>2, EarlierReaches
  <2> QED BY <2>1, <2>3 DEF Same
<1> HIDE DEF r
<1> QED BY <1>1, <1>2, <1>5, <1>6, <1>7

LEMMA UseChildStep ==
  ASSUME IInv, NEW w \in Node, UseChild(w)
  PROVE  IInv'
<1> USE DEF IInv
<1> DEFINE k == Len(frames)
           v == top.node
<1>0. /\ k \in Calls /\ top = frames[k] /\ F(k) = v /\ k \in Nat /\ Calls = 1 .. k
      /\ frames # << >> /\ w \in top.pending /\ TopBecomes(Goes(top))
      /\ UNCHANGED <<edges, I, D, inSCC, SS, T>>
  BY UseChildFrames, TopIsCall DEF Calls, TypeOK, UseChild
<1>1. Goes(top).node = v /\ Goes(top).todo = top.todo /\ Goes(top).pending = {}
  BY DEF Goes
<1>2. Goes(top) \in Frame
  <2>1. top.node \in Node /\ top.todo \in SUBSET Node
    BY <1>0, FrameFields DEF F
  <2> QED BY <2>1 DEF Goes, Frame
<1>3. /\ top.todo \subseteq Children(v) /\ top.pending = {w} /\ w \in Visited
      /\ Children(v) \ (top.todo \cup top.pending) \subseteq Visited
  BY <1>0 DEF StackInv, Used
<1>4. /\ Calls' = Calls /\ Visited' = Visited /\ Waiting' = Waiting
      /\ OnStack' = OnStack /\ Active' = Active
      /\ \A i \in Calls : F(i)' = F(i)
      /\ \A i \in Calls : i # Len(frames) => Used(i)' = Used(i)
      /\ NumberInv' /\ StackInv' /\ WaitingInv'
  <2>1. Children(v) \ (Goes(top).todo \cup Goes(top).pending) \subseteq Visited
    BY <1>1, <1>3
  <2> QED BY <1>0, <1>1, <1>2, <2>1, CallsKept
<1>5. ASSUME NEW i \in Calls, i = k
      PROVE  Used(i)' \subseteq Used(i) \cup {w}
  <2>1. frames'[i] = Goes(top) /\ F(i)' = F(i) /\ frames[i] = top
    BY <1>0, <1>4, <1>5 DEF TopBecomes
  <2>2. Children(F(i))' = Children(F(i))
    BY <1>0, <2>1 DEF Children
  <2> QED BY <1>1, <1>3, <2>1, <2>2 DEF Used
<1>6. \A n : Children(n)' = Children(n)
  BY <1>0 DEF Children
<1>7. /\ v \in Active /\ v \in Node /\ v \notin Waiting /\ v \notin inSCC
      /\ \A n \in Active : n \in Node /\ n \notin inSCC /\ D[n] \in Nat
      /\ \A i \in Calls : F(i) \in Active /\ (i # k => F(i) # v)
  <2>1. \A n \in Active : n \in Node /\ n \notin inSCC /\ D[n] \in Nat
    BY DEF Active, Visited, TypeOK
  <2>2. \A i \in Calls : F(i) \in Active
    BY DEF NumberInv, OnStack
  <2>3. \A i \in Calls : i # k => D[F(i)] < D[F(k)]
    BY <1>0 DEF StackInv
  <2>4. v \in OnStack
    BY <1>0 DEF OnStack
  <2> QED BY <1>0, <2>1, <2>2, <2>3, <2>4 DEF NumberInv
<1>8. frames' \in Seq([node : Node, todo : SUBSET Node, pending : SUBSET Node])
  BY <1>0 DEF TopBecomes, Frame
<1>9. CASE w \in inSCC
  <2>1. UNCHANGED <<rep, subNodes, repNodes>>
    BY <1>9 DEF UseChild
  <2>2. TypeOK'
    BY <1>0, <1>4, <1>8, <2>1 DEF TypeOK
  <2>3. RootInv'
    BY <1>0, <1>4, <2>1 DEF RootInv
  <2>4. LowInv'
    <3>1. ASSUME NEW i \in Calls, NEW x \in Used(i)'
          PROVE  x \in inSCC' \/ D'[rep'[F(i)']] <= D'[x]
      <4>1. x \in Used(i) \/ x = w
        BY <1>4, <1>5, <3>1
      <4>2. CASE x \in Used(i)
        BY <1>0, <1>4, <2>1, <4>2 DEF LowInv
      <4> QED BY <1>0, <1>9, <4>1, <4>2
    <3>2. \A n \in Waiting : \A x \in Children(n) : x \in inSCC' \/ (x \in Visited' /\ D'[rep'[n]] <= D'[x])
      BY <1>0, <1>4, <2>1 DEF LowInv
    <3>3. w \notin Waiting
      BY <1>9 DEF NumberInv, Active
    <3>4. ASSUME NEW n \in Waiting, NEW i \in Calls, D[F(i)] < D[n], i + 1 \in Calls => D[n] < D[F(i + 1)]
          PROVE  D[rep[F(i)]] <= D[rep[n]]
      BY <1>0, <1>3, <3>3, <3>4 DEF LowInv
    <3>5. ASSUME NEW n \in Waiting, NEW i \in Calls, D'[F(i)'] < D'[n],
                 i + 1 \in Calls => D'[n] < D'[F(i + 1)']
          PROVE  D'[rep'[F(i)']] <= D'[rep'[n]]
      <4>1. F(i)' = F(i) /\ (i + 1 \in Calls => F(i + 1)' = F(i + 1))
        BY <1>4
      <4> QED BY <1>0, <2>1, <3>4, <3>5, <4>1
    <3> QED BY <1>4, <1>6, <3>1, <3>2, <3>5 DEF LowInv
  <2>5. SubInv' /\ ComponentInv' /\ OrderInv'
    BY <1>0, <1>4, <2>1 DEF SubInv, ComponentInv, OrderInv
  <2> QED BY <1>4, <2>2, <2>3, <2>4, <2>5
<1>10. CASE w \notin inSCC
  <2>1. PICK r \in Active :
          /\ D[r] <= D[rep[v]] /\ D[r] <= D[rep[w]] /\ Same(edges, v, r)
          /\ SetRep(v, r)
    BY <1>10, UseChildRoots
  <2>2. w \in Active
    BY <1>10, UseChildRoots
  <2> HIDE DEF v
  <2>3. /\ rep'[v] = r /\ \A n \in Node : n # v => rep'[n] = rep[n]
        /\ \A n \in Node : subNodes'[n] = IF n = v /\ v # r THEN {}
                                          ELSE IF n = r THEN subNodes[n] \cup {v} ELSE subNodes[n]
        /\ r \in Node /\ r \notin inSCC
    BY <1>7, <2>1 DEF SetRep, TypeOK
  <2>4. \A n \in Active : /\ rep[n] \in Active /\ D[rep[n]] \in Nat
                          /\ D'[rep'[n]] <= D[rep[n]] /\ D'[rep'[n]] \in Nat
    BY <1>0, <1>7, <2>1, <2>3 DEF RootInv
  <2>5. TypeOK'
    <3>1. rep' \in [Node -> Node \cup {0}] /\ subNodes' \in [Node -> SUBSET Node] /\ repNodes' \subseteq Node
      BY <1>7, <2>1, <2>3 DEF SetRep, TypeOK
    <3>2. \A n \in Node : rep'[n] = 0 <=> n \notin Visited
      BY <1>7, <2>3, SCCAssumption DEF TypeOK, Active
    <3> QED BY <1>0, <1>4, <1>8, <3>1, <3>2 DEF TypeOK
  <2>6. RootInv'
    <3>1. ASSUME NEW n \in Active
          PROVE  rep'[n] \in Active /\ D'[rep'[n]] <= D'[n] /\ Same(edges', n, rep'[n])
      <4>1. CASE n = v
        BY <1>0, <1>7, <2>1, <2>3, <2>4, <4>1 DEF RootInv
      <4>2. CASE n # v
        BY <1>0, <1>7, <2>3, <4>2 DEF RootInv
      <4> QED BY <4>1, <4>2
    <3>2. \A n \in Waiting : rep'[n] # n
      BY <1>7, <2>3 DEF RootInv, NumberInv
    <3> QED BY <1>4, <3>1, <3>2 DEF RootInv
  <2>7. LowInv'
    <3>1. ASSUME NEW i \in Calls, NEW x \in Used(i)'
          PROVE  x \in inSCC' \/ D'[rep'[F(i)']] <= D'[x]
      <4>1. CASE x \in Used(i)
        <5>1. x \in inSCC \/ D[rep[F(i)]] <= D[x]
          BY <4>1 DEF LowInv
        <5>2. D[x] \in Nat
          BY <4>1 DEF StackInv, Visited, TypeOK
        <5> QED BY <1>0, <1>4, <1>7, <2>4, <5>1, <5>2
      <4>2. CASE x \notin Used(i)
        <5>1. i = k /\ x = w
          BY <1>4, <1>5, <3>1, <4>2
        <5>2. D[rep[w]] <= D[w] /\ D[rep[w]] \in Nat /\ D[w] \in Nat
          BY <1>7, <2>2, <2>4 DEF RootInv
        <5> QED BY <1>0, <1>4, <1>7, <2>1, <2>3, <5>1, <5>2
      <4> QED BY <4>1, <4>2
    <3>2. ASSUME NEW n \in Waiting, NEW x \in Children(n)
          PROVE  x \in inSCC' \/ (x \in Visited' /\ D'[rep'[n]] <= D'[x])
      <4>1. rep'[n] = rep[n]
        BY <1>7, <2>3 DEF NumberInv
      <4> QED BY <1>0, <1>4, <4>1 DEF LowInv
    <3>3. ASSUME NEW n \in Waiting, NEW i \in Calls, D'[F(i)'] < D'[n],
                 i + 1 \in Calls => D'[n] < D'[F(i + 1)']
          PROVE  D'[rep'[F(i)']] <= D'[rep'[n]]
      <4>1. F(i)' = F(i) /\ (i + 1 \in Calls => F(i + 1)' = F(i + 1))
        BY <1>4
      <4>2. \/ D[rep[F(i)]] <= D[rep[n]]
            \/ i = k /\ \E c \in frames[i].pending : c \in Waiting /\ D[rep[c]] <= D[rep[n]]
        BY <1>0, <3>3, <4>1 DEF LowInv
      <4>3. rep'[n] = rep[n] /\ n \in Active
        BY <1>7, <2>3 DEF NumberInv
      <4>4. CASE D[rep[F(i)]] <= D[rep[n]]
        BY <1>0, <1>7, <2>4, <4>1, <4>3, <4>4
      <4>5. CASE i = k /\ D[rep[w]] <= D[rep[n]]
        BY <1>0, <1>7, <2>1, <2>2, <2>3, <2>4, <4>1, <4>3, <4>5
      <4> QED BY <1>0, <1>3, <4>2, <4>4, <4>5
    <3> QED BY <1>4, <1>6, <3>1, <3>2, <3>3 DEF LowInv
  <2>8. SubInv'
    <3>1. ASSUME NEW n \in Node, NEW m \in subNodes'[n]
          PROVE  Same(edges', m, n)
      <4>1. m \in subNodes[n] \/ (n = r /\ m = v)
        BY <2>3, <3>1
      <4> QED BY <1>0, <2>1, <4>1 DEF SubInv
    <3>2. \A n \in Visited : rep'[n] = n => n \in subNodes'[n]
      BY <2>3 DEF SubInv, Visited
    <3> QED BY <1>4, <3>1, <3>2 DEF SubInv
  <2>9. ComponentInv'
    <3>1. \A n \in inSCC : /\ n \in Node /\ n # v /\ n # r
                           /\ rep'[n] = rep[n] /\ subNodes'[n] = subNodes[n]
      BY <1>7, <2>3 DEF NumberInv, Visited
    <3>2. \A n \in inSCC : rep[n] \in inSCC
      BY DEF ComponentInv
    <3> QED BY <1>0, <3>1, <3>2 DEF ComponentInv
  <2>10. OrderInv'
    <3>1. \A n \in inSCC : rep'[n] = rep[n]
      BY <1>7, <2>3 DEF NumberInv, Visited
    <3>2. \A e \in edges : e[1] \in inSCC => e[2] \in inSCC
      BY DEF ComponentInv
    <3>3. \A i \in 1 .. Len(T) : T[i] \in inSCC /\ rep'[T[i]] = T[i]
      BY <3>1 DEF OrderInv
    <3>4. \A n \in inSCC : \E i \in 1 .. Len(T) : T[i] = rep'[n]
      BY <3>1 DEF OrderInv
    <3>5. \A e \in edges : e[1] \in inSCC =>
            \A i, j \in 1 .. Len(T) : T[i] = rep'[e[1]] /\ T[j] = rep'[e[2]] => j <= i
      BY <3>1, <3>2 DEF OrderInv
    <3>6. \A i, j \in 1 .. Len(T) : T[i] = T[j] => i = j
      BY DEF OrderInv
    <3> QED BY <1>0, <3>3, <3>4, <3>5, <3>6 DEF OrderInv
  <2> QED BY <1>4, <2>5, <2>6, <2>7, <2>8, <2>9, <2>10
<1> QED BY <1>9, <1>10

-----------------------------------------------------------------------------
(* The call on top returns; its node is no longer on the stack.            *)
LEMMA CallReturned ==
  ASSUME IInv, frames # << >>, top.todo = {}, top.pending = {}, NEW v, v = top.node,
         TopReturns, UNCHANGED <<edges, I, D>>
  PROVE  /\ v \in Active /\ v \in OnStack /\ v \in Node /\ v \notin Waiting
         /\ \A i \in Calls : i = Len(frames) =>
              F(i) = v /\ Used(i) = Children(v) /\ frames[i].pending = {} /\ i + 1 \notin Calls
         /\ Len(frames) \in Calls /\ Len(frames) \in Nat /\ Calls \subseteq Nat
         /\ Calls' = Calls \ {Len(frames)} /\ Len(frames') = Len(frames) - 1
         /\ \A i \in Calls' : i < Len(frames) /\ (i + 1 \in Calls' \/ i + 1 = Len(frames))
         /\ \A i \in Calls' : frames'[i] = frames[i] /\ F(i)' = F(i) /\ Used(i)' = Used(i)
         /\ \A i \in Calls' : F(i) \in Active /\ D[F(i)] < D[v] /\ Reaches(edges, F(i), v)
         /\ \A n : Children(n)' = Children(n)
         /\ Visited' = Visited /\ OnStack' = OnStack \ {v}
         /\ StackInv'
<1> USE DEF IInv
<1> DEFINE k == Len(frames)
<1>1. /\ k \in Nat /\ k \in Calls /\ Calls = 1 .. k /\ Calls' = 1 .. (k - 1)
      /\ Len(frames') = k - 1 /\ frames[k] = top
      /\ \A i \in Calls' : frames'[i] = frames[i]
  BY TopIsCall DEF Calls, TypeOK, TopReturns
<1>2. /\ Calls' = Calls \ {k} /\ Calls \subseteq Nat
      /\ \A i \in Calls' : i \in Calls /\ i < k /\ (i + 1 \in Calls' \/ i + 1 = k)
      /\ k + 1 \notin Calls
  BY <1>1
<1>3. F(k) = v /\ Used(k) = Children(v)
  BY <1>1 DEF F, Used
<1>4. \A n : Children(n)' = Children(n)
  BY DEF Children
<1>5. Visited' = Visited
  BY DEF Visited
<1>6. ASSUME NEW i \in Calls'
      PROVE  F(i)' = F(i) /\ Used(i)' = Used(i)
  <2>1. F(i)' = F(i) /\ frames'[i] = frames[i]
    BY <1>1 DEF F
  <2> QED BY <1>4, <2>1 DEF Used
<1>7. \A i \in Calls : F(i) \in Active /\ F(i) \in Node
  BY FrameFields DEF NumberInv, OnStack
<1>8. \A i \in Calls' : D[F(i)] < D[v] /\ Reaches(edges, F(i), v)
  BY <1>1, <1>2, <1>3 DEF StackInv
<1>9. OnStack' = OnStack \ {v}
  <2>1. ASSUME NEW i \in Calls' PROVE F(i) # v
    <3>1. F(i) \in Node /\ D[F(i)] \in Nat /\ D[F(i)] < D[v]
      BY <1>2, <1>7, <1>8 DEF TypeOK
    <3> QED BY <3>1
  <2>2. \A i \in Calls : F(i) = v \/ i \in Calls'
    BY <1>2, <1>3
  <2>3. OnStack' = {F(i) : i \in Calls'}
    BY <1>6 DEF OnStack
  <2> HIDE DEF k
  <2> QED BY <1>2, <2>1, <2>2, <2>3 DEF OnStack
<1>10. StackInv'
  <2>1. ASSUME NEW i \in Calls'
        PROVE  /\ frames'[i].todo \subseteq Children(F(i))'
               /\ frames'[i].pending \subseteq Children(F(i))' \cap Visited'
               /\ \A a, b \in frames'[i].pending : a = b
               /\ Used(i)' \subseteq Visited'
               /\ i + 1 \in Calls' => frames'[i].pending = {F(i + 1)'}
    <3>1. Children(F(i))' = Children(F(i)) /\ i \in Calls /\ frames'[i] = frames[i]
      BY <1>1, <1>2, <1>4, <1>6
    <3>2. i + 1 \in Calls' => F(i + 1)' = F(i + 1) /\ i + 1 \in Calls
      BY <1>2, <1>6
    <3> QED BY <1>5, <1>6, <3>1, <3>2 DEF StackInv
  <2>2. \A i, j \in Calls' : /\ i < j => D'[F(i)'] < D'[F(j)']
                             /\ i <= j => Reaches(edges', F(i)', F(j)')
    BY <1>2, <1>6 DEF StackInv
  <2> QED BY <2>1, <2>2 DEF StackInv
<1>11. v \in Active /\ v \in OnStack /\ v \in Node /\ v \notin Waiting
  <2>1. v \in OnStack
    BY <1>1, <1>3 DEF OnStack
  <2> QED BY <1>1, <1>3, <1>7, <2>1 DEF NumberInv
<1>12. \A i \in Calls : i = k =>
         F(i) = v /\ Used(i) = Children(v) /\ frames[i].pending = {} /\ i + 1 \notin Calls
  BY <1>1, <1>2, <1>3
<1>13. \A i \in Calls' : F(i) \in Active /\ D[F(i)] < D[v] /\ Reaches(edges, F(i), v)
  BY <1>2, <1>7, <1>8
<1> QED BY <1>1, <1>2, <1>4, <1>5, <1>6, <1>9, <1>10, <1>11, <1>12, <1>13

LEMMA SuspendStep ==
  ASSUME IInv, Suspend
  PROVE  IInv'
<1> USE DEF IInv
<1> DEFINE k == Len(frames)
           v == top.node
<1>0. /\ frames # << >> /\ top.todo = {} /\ top.pending = {} /\ rep[v] # v
      /\ SS' = Append(SS, v) /\ TopReturns
      /\ UNCHANGED <<edges, I, D, rep, subNodes, inSCC, repNodes, T>>
  BY ReturnFrames DEF Suspend
<1>1. /\ v \in Active /\ v \in OnStack /\ v \in Node /\ v \notin Waiting
      /\ \A i \in Calls : i = Len(frames) =>
           F(i) = v /\ Used(i) = Children(v) /\ frames[i].pending = {} /\ i + 1 \notin Calls
      /\ Len(frames) \in Calls /\ Len(frames) \in Nat /\ Calls \subseteq Nat
      /\ Calls' = Calls \ {Len(frames)} /\ Len(frames') = Len(frames) - 1
      /\ \A i \in Calls' : i < Len(frames) /\ (i + 1 \in Calls' \/ i + 1 = Len(frames))
      /\ \A i \in Calls' : frames'[i] = frames[i] /\ F(i)' = F(i) /\ Used(i)' = Used(i)
      /\ \A i \in Calls' : F(i) \in Active /\ D[F(i)] < D[v] /\ Reaches(edges, F(i), v)
      /\ \A n : Children(n)' = Children(n)
      /\ Visited' = Visited /\ OnStack' = OnStack \ {v}
      /\ StackInv'
  BY <1>0, CallReturned
<1> HIDE DEF v, k
<1>2. /\ Len(SS) \in Nat /\ Len(SS') = Len(SS) + 1 /\ SS'[Len(SS) + 1] = v
      /\ \A i \in 1 .. Len(SS) : SS'[i] = SS[i]
      /\ SS' \in Seq(Node)
  BY <1>0, <1>1 DEF TypeOK
<1>3. Waiting' = Waiting \cup {v} /\ Active' = Active
  <2>1. Waiting' = Waiting \cup {v}
    BY <1>2 DEF Waiting
  <2> QED BY <1>0, <1>1, <2>1 DEF Active
<1>4. /\ \A n \in Active : n \in Node /\ D[n] \in Nat
      /\ \A n \in Active : rep[n] \in Active /\ D[rep[n]] <= D[n] /\ Same(edges, n, rep[n])
      /\ \A n \in Waiting : n \in Active
      /\ \A m, n \in Active : D[m] = D[n] => m = n
  BY DEF Active, Visited, TypeOK, RootInv, NumberInv
<1>5. \E i \in Calls' : D[F(i)] < D[v] /\ Reaches(edges, v, F(i))
  <2>1. rep[v] \in Active /\ D[rep[v]] < D[v] /\ Reaches(edges, v, rep[v])
    BY <1>0, <1>1, <1>4 DEF Same
  <2>2. CASE rep[v] \in OnStack
    <3>1. PICK i \in Calls : rep[v] = F(i)
      BY <2>2 DEF OnStack
    <3> QED BY <1>1, <1>4, <2>1, <3>1
  <2>3. CASE rep[v] \in Waiting
    <3>1. PICK i \in Calls : D[F(i)] < D[rep[v]] /\ Reaches(edges, rep[v], F(i))
      BY <2>3 DEF WaitingInv
    <3>2. F(i) \in Active
      BY DEF NumberInv, OnStack
    <3>3. D[F(i)] < D[v]
      BY <1>1, <1>4, <2>1, <3>1, <3>2
    <3>4. i \in Calls'
      BY <1>1, <1>4, <3>3
    <3> QED BY <2>1, <3>1, <3>3, <3>4, ReachesTransitive
  <2> QED BY <2>1, <2>2, <2>3 DEF NumberInv
<1>6. TypeOK'
  <2>1. frames' \in Seq([node : Node, todo : SUBSET Node, pending : SUBSET Node])
    BY <1>0 DEF TopReturns, Frame
  <2> QED BY <1>0, <1>1, <1>2, <2>1 DEF TypeOK
<1>7. NumberInv'
  BY <1>0, <1>1, <1>3 DEF NumberInv
<1>8. WaitingInv'
  <2>1. ASSUME NEW w \in Waiting'
        PROVE  \E i \in Calls' : D'[F(i)'] < D'[w] /\ Reaches(edges', w, F(i)')
    <3>1. \E i \in Calls' : D[F(i)] < D[w] /\ Reaches(edges, w, F(i))
      <4>1. CASE w = v
        BY <1>5, <4>1
      <4>2. CASE w \in Waiting
        <5>1. PICK i \in Calls : D[F(i)] < D[w] /\ Reaches(edges, w, F(i))
          BY <4>2 DEF WaitingInv
        <5>2. CASE i = Len(frames)
          <6>1. D[v] < D[w] /\ Reaches(edges, w, v)
            BY <1>1, <5>1, <5>2
          <6>2. PICK j \in Calls' : D[F(j)] < D[v] /\ Reaches(edges, v, F(j))
            BY <1>5
          <6>3. D[F(j)] < D[w]
            BY <1>1, <1>4, <4>2, <6>1, <6>2
          <6> QED BY <6>1, <6>2, <6>3, ReachesTransitive
        <5>3. CASE i # Len(frames)
          BY <1>1, <5>1, <5>3
        <5> QED BY <5>2, <5>3
      <4> QED BY <1>3, <4>1, <4>2
    <3> QED BY <1>0, <1>1, <3>1
  <2>2. ASSUME NEW w \in Waiting', NEW i \in Calls', D'[F(i)'] < D'[w]
        PROVE  Reaches(edges', F(i)', w)
    <3>1. CASE w = v
      BY <1>0, <1>1, <3>1
    <3>2. CASE w \in Waiting
      BY <1>0, <1>1, <2>2, <3>2 DEF WaitingInv
    <3> QED BY <1>3, <3>1, <3>2
  <2>3. ASSUME NEW i \in 1 .. Len(SS'), NEW j \in 1 .. Len(SS'), NEW c \in Calls',
               i < j, D'[SS'[i]] > D'[F(c)']
        PROVE  D'[SS'[j]] > D'[F(c)']
    <3>1. CASE j = Len(SS) + 1
      <4>1. SS'[j] = v /\ D[F(c)] < D[v] /\ F(c) \in Active
        BY <1>1, <1>2, <3>1
      <4> QED BY <1>0, <1>1, <1>4, <4>1
    <3>2. CASE j \in 1 .. Len(SS)
      <4>1. i \in 1 .. Len(SS) /\ SS'[i] = SS[i] /\ SS'[j] = SS[j] /\ c \in Calls /\ F(c)' = F(c)
        BY <1>1, <1>2, <2>3, <3>2
      <4> QED BY <1>0, <2>3, <3>2, <4>1 DEF WaitingInv
    <3> QED BY <1>2, <3>1, <3>2
  <2> QED BY <2>1, <2>2, <2>3 DEF WaitingInv
<1>9. RootInv'
  BY <1>0, <1>3 DEF RootInv
<1>10. LowInv'
  <2>1. \A i \in Calls' : \A x \in Used(i)' : x \in inSCC' \/ D'[rep'[F(i)']] <= D'[x]
    BY <1>0, <1>1 DEF LowInv
  <2>2. ASSUME NEW w \in Waiting', NEW x \in Children(w)
        PROVE  x \in inSCC' \/ (x \in Visited' /\ D'[rep'[w]] <= D'[x])
    <3>1. CASE w = v
      BY <1>0, <1>1, <3>1 DEF LowInv, StackInv
    <3>2. CASE w \in Waiting
      BY <1>0, <1>1, <3>2 DEF LowInv
    <3> QED BY <1>3, <3>1, <3>2
  <2>3. ASSUME NEW w \in Waiting', NEW i \in Calls', D[F(i)] < D[w],
               i + 1 \in Calls' => D[w] < D[F(i + 1)]
        PROVE  \/ D[rep[F(i)]] <= D[rep[w]]
               \/ i = Len(frames') /\ D[rep[v]] <= D[rep[w]] /\ frames'[i].pending = {v}
    <3>0. i \in Calls /\ i # Len(frames) /\ F(i) \in Active
      BY <1>1
    <3>1. CASE i + 1 \in Calls'
      <4>1. w \in Waiting
        <5>1. D[F(i + 1)] < D[v] /\ F(i + 1) \in Active
          BY <1>1, <3>1
        <5> QED BY <1>1, <1>3, <1>4, <2>3, <3>1, <5>1
      <4>2. i + 1 \in Calls
        BY <1>1, <3>1
      <4> QED BY <2>3, <3>0, <3>1, <4>1, <4>2 DEF LowInv
    <3>2. CASE i + 1 = Len(frames)
      <4>1. i = Len(frames') /\ frames'[i].pending = {v} /\ F(i + 1) = v
        BY <1>1, <3>0, <3>2 DEF StackInv
      <4>2. CASE w = v
        BY <1>1, <1>4, <4>1, <4>2
      <4>3. CASE w \in Waiting /\ D[w] < D[v]
        BY <2>3, <3>0, <4>1, <4>3 DEF LowInv
      <4>4. CASE w \in Waiting /\ D[v] < D[w]
        BY <1>1, <4>1, <4>4 DEF LowInv
      <4> QED BY <1>1, <1>3, <1>4, <4>2, <4>3, <4>4
    <3> QED BY <1>1, <3>1, <3>2
  <2>4. ASSUME NEW w \in Waiting', NEW i \in Calls', D'[F(i)'] < D'[w],
               i + 1 \in Calls' => D'[w] < D'[F(i + 1)']
        PROVE  \/ D'[rep'[F(i)']] <= D'[rep'[w]]
               \/ i = Len(frames') /\ \E c \in frames'[i].pending : c \in Waiting' /\ D'[rep'[c]] <= D'[rep'[w]]
    <3>1. F(i)' = F(i) /\ (i + 1 \in Calls' => F(i + 1)' = F(i + 1))
      BY <1>1
    <3> QED BY <1>0, <1>3, <2>3, <2>4, <3>1
  <2> QED BY <1>1, <2>1, <2>2, <2>4 DEF LowInv
<1>11. SubInv' /\ ComponentInv' /\ OrderInv'
  BY <1>0, <1>1 DEF SubInv, ComponentInv, OrderInv
<1> QED BY <1>1, <1>6, <1>7, <1>8, <1>9, <1>10, <1>11
-----------------------------------------------------------------------------
LEMMA LeastNatural ==
  ASSUME NEW S, S \subseteq Nat, S # {}
  PROVE  \E n \in S : \A m \in S : n <= m
<1>1. PICK n \in S : \A m \in S : <<m, n>> \notin OpToRel(<, Nat)
  BY NatLessThanWellFounded, WFMin
<1>2. \A m \in S : ~(m < n)
  BY <1>1 DEF OpToRel
<1> QED BY <1>2

(* What Complete pops are the nodes on SS visited after v, and these are   *)
(* on top.                                                                 *)
LEMMA Popped ==
  ASSUME IInv, NEW k \in Calls, NEW v, v = F(k)
  PROVE  LET p == Len(SS) - Cardinality(Above(v))
         IN  /\ p \in 0 .. Len(SS)
             /\ \A i \in 1 .. Len(SS) : i <= p => D[SS[i]] < D[v]
             /\ \A i \in 1 .. Len(SS) : p < i => D[SS[i]] > D[v]
             /\ Above(v) = (p + 1) .. Len(SS)
<1> USE DEF IInv
<1>1. /\ Len(SS) \in Nat /\ v \in Node
      /\ \A i \in 1 .. Len(SS) : SS[i] \in Waiting /\ SS[i] \in Visited /\ D[SS[i]] \in Nat
      /\ D[v] \in Nat /\ v \in Visited /\ v \notin Waiting
  <2>1. \A i \in 1 .. Len(SS) : SS[i] \in Waiting
    BY DEF Waiting
  <2>2. v \in OnStack
    BY DEF OnStack
  <2> QED BY <2>1, <2>2 DEF NumberInv, Active, Visited, TypeOK
<1>2. \A i \in 1 .. Len(SS) : D[SS[i]] # D[v]
  BY <1>1 DEF NumberInv
<1>3. \A i \in 1 .. Len(SS) : i \in Above(v) <=> D[SS[i]] > D[v]
  <2> TAKE i \in 1 .. Len(SS)
  <2>1. ASSUME D[SS[i]] > D[v], NEW j \in i .. Len(SS)
        PROVE  D[SS[j]] > D[v]
    <3>1. CASE i = j
      BY <2>1, <3>1
    <3>2. CASE i < j
      <4>1. j \in 1 .. Len(SS)
        BY <1>1
      <4> QED BY <2>1, <3>2, <4>1 DEF WaitingInv
    <3> QED BY <1>1, <3>1, <3>2
  <2> QED BY <1>1, <2>1 DEF Above
<1>4. \E p \in 0 .. Len(SS) : Above(v) = (p + 1) .. Len(SS)
  <2>0. Above(v) \subseteq 1 .. Len(SS) /\ Above(v) \subseteq Nat
    BY <1>1 DEF Above
  <2>1. CASE Above(v) = {}
    <3>1. Above(v) = (Len(SS) + 1) .. Len(SS)
      BY <1>1, <2>1
    <3> QED BY <1>1, <3>1
  <2>2. CASE Above(v) # {}
    <3>1. PICK a \in Above(v) : \A i \in Above(v) : a <= i
      BY <2>0, <2>2, LeastNatural
    <3>2. \A j \in a .. Len(SS) : j \in Above(v)
      <4> TAKE j \in a .. Len(SS)
      <4>1. j \in 1 .. Len(SS) /\ D[SS[j]] > D[v]
        BY <1>1, <2>0 DEF Above
      <4> QED BY <1>3, <4>1
    <3>3. Above(v) = a .. Len(SS)
      <4>1. \A i \in Above(v) : i \in a .. Len(SS)
        BY <1>1, <2>0, <3>1
      <4> QED BY <3>2, <4>1
    <3>4. a - 1 \in 0 .. Len(SS) /\ Above(v) = ((a - 1) + 1) .. Len(SS)
      BY <1>1, <2>0, <3>3
    <3> QED BY <3>4
  <2> QED BY <2>1, <2>2
<1>5. PICK p \in 0 .. Len(SS) : Above(v) = (p + 1) .. Len(SS)
  BY <1>4
<1>6. p = Len(SS) - Cardinality(Above(v))
  <2>1. /\ p + 1 \in Int /\ Len(SS) \in Int
    BY <1>1
  <2>2. Cardinality((p + 1) .. Len(SS)) = IF p + 1 > Len(SS) THEN 0 ELSE Len(SS) - (p + 1) + 1
    BY <2>1, FS_Interval
  <2> QED BY <1>1, <1>5, <2>2
<1>7. /\ \A i \in 1 .. Len(SS) : i <= p => D[SS[i]] < D[v]
      /\ \A i \in 1 .. Len(SS) : p < i => D[SS[i]] > D[v]
  BY <1>1, <1>2, <1>3, <1>5
<1> QED BY <1>5, <1>6, <1>7

(* The node on top of the call stack, if it is its own candidate root, and *)
(* the nodes above it on SS are a component.                               *)
LEMMA PoppedIsComponent ==
  ASSUME IInv, frames # << >>, top.todo = {}, top.pending = {}, NEW v, v = top.node,
         rep[v] = v, NEW P, P = {w \in Waiting : D[w] > D[v]}
  PROVE  /\ inSCC \cup {v} \cup P \in ClosedSets(edges)
         /\ \A n \in P : Same(edges, n, v)
         /\ \A m \in Node : Same(edges, m, v) => m = v \/ m \in P
<1> USE DEF IInv
<1> DEFINE k == Len(frames)
<1>1. /\ k \in Calls /\ F(k) = v /\ frames[k] = top /\ k \in Nat /\ Calls = 1 .. k
      /\ k + 1 \notin Calls
  BY TopIsCall DEF Calls, TypeOK
<1>2. /\ v \in OnStack /\ v \in Node /\ v \in Visited /\ v \notin inSCC
      /\ Used(k) = Children(v)
  <2>1. v \in OnStack
    BY <1>1 DEF OnStack
  <2>2. Used(k) = Children(v)
    BY <1>1 DEF Used
  <2> QED BY <2>1, <2>2 DEF NumberInv, Active, Visited
<1>3. /\ \A n \in Node : D[n] \in Nat
      /\ \A n \in P : n \in Waiting /\ n \in Node /\ n \in Visited /\ D[v] < D[n] /\ n \notin inSCC
  BY <1>2 DEF TypeOK, NumberInv, Active, Visited
<1>4. ASSUME NEW x \in Visited, D[v] <= D[x]
      PROVE  x \in inSCC \cup {v} \cup P
  <2>1. CASE x \in inSCC
    BY <2>1
  <2>2. CASE x \in OnStack
    <3>1. PICK i \in Calls : x = F(i)
      BY <2>2 DEF OnStack
    <3>2. i < k => D[x] < D[v]
      BY <1>1, <3>1 DEF StackInv
    <3>3. i = k
      BY <1>1, <1>2, <1>3, <1>4, <3>2 DEF Visited
    <3> QED BY <1>1, <3>1, <3>3
  <2>3. CASE x \in Waiting
    <3>1. x # v
      BY <1>2, <2>3 DEF NumberInv
    <3>2. D[x] # D[v]
      BY <1>2, <3>1 DEF NumberInv
    <3>3. D[x] > D[v]
      BY <1>2, <1>3, <1>4, <3>2 DEF Visited
    <3> QED BY <2>3, <3>3
  <2> QED BY <2>1, <2>2, <2>3 DEF NumberInv, Active
<1>5. ASSUME NEW n, n = v \/ n \in P, NEW x \in Children(n)
      PROVE  x \in inSCC \cup {v} \cup P
  <2>1. CASE n = v
    <3>1. x \in Used(k)
      BY <1>2, <1>5, <2>1
    <3>2. x \in inSCC \/ D[v] <= D[x]
      BY <1>1, <3>1 DEF LowInv
    <3>3. x \in Visited
      BY <1>1, <3>1 DEF StackInv
    <3> QED BY <1>4, <3>2, <3>3
  <2>2. CASE n \in P
    <3>1. x \in inSCC \/ (x \in Visited /\ D[rep[n]] <= D[x])
      BY <1>3, <2>2 DEF LowInv
    <3>2. D[v] <= D[rep[n]]
      BY <1>1, <1>3, <2>2 DEF LowInv
    <3>3. CASE x \in Visited /\ D[rep[n]] <= D[x]
      <4>1. rep[n] \in Node /\ x \in Node
        BY <1>3, <2>2, <3>3 DEF RootInv, NumberInv, Active, Visited
      <4>2. D[v] <= D[x]
        BY <1>2, <1>3, <3>2, <3>3, <4>1
      <4> QED BY <1>4, <3>3, <4>2
    <3> QED BY <3>1, <3>3
  <2> QED BY <1>5, <2>1, <2>2
<1>6. /\ inSCC \cup {v} \cup P \in ClosedSets(edges)
      /\ inSCC \in ClosedSets(edges)
  <2>1. inSCC \cup {v} \cup P \subseteq Node /\ inSCC \subseteq Node
    BY <1>2, <1>3 DEF TypeOK
  <2>2. \A e \in edges : e[1] \in inSCC => e[2] \in inSCC
    BY DEF ComponentInv
  <2>3. ASSUME NEW e \in edges, e[1] = v \/ e[1] \in P
        PROVE  e[2] \in inSCC \cup {v} \cup P
    <3>1. e[2] \in Children(e[1])
      <4>1. e = <<e[1], e[2]>> /\ e[2] \in Node
        BY SCCAssumption DEF TypeOK, Edge
      <4> QED BY <4>1 DEF Children
    <3> QED BY <1>5, <2>3, <3>1
  <2> QED BY <2>1, <2>2, <2>3 DEF ClosedSets
<1>7. ASSUME NEW n \in P PROVE Same(edges, n, v)
  <2>1. Reaches(edges, v, n)
    BY <1>1, <1>3 DEF WaitingInv
  <2>2. PICK i \in Calls : Reaches(edges, n, F(i))
    BY <1>3 DEF WaitingInv
  <2>3. Reaches(edges, F(i), v)
    BY <1>1 DEF StackInv
  <2> QED BY <2>1, <2>2, <2>3, ReachesTransitive DEF Same
<1>8. ASSUME NEW m \in Node, Same(edges, m, v)
      PROVE  m = v \/ m \in P
  <2>1. m \in inSCC \cup {v} \cup P
    BY <1>6, <1>8 DEF Same, Reaches
  <2>2. m \notin inSCC
    BY <1>2, <1>6, <1>8 DEF Same, Reaches
  <2> QED BY <2>1, <2>2
<1> QED BY <1>6, <1>7, <1>8

LEMMA CompleteStep ==
  ASSUME IInv, Complete
  PROVE  IInv'
<1> USE DEF IInv
<1> DEFINE v == top.node
           P == {w \in Waiting : D[w] > D[v]}
           p == Len(SS) - Cardinality(Above(v))
<1>0. /\ frames # << >> /\ top.todo = {} /\ top.pending = {} /\ rep[v] = v
      /\ TopReturns /\ UNCHANGED <<edges, I, D>>
  BY ReturnFrames DEF Complete
<1>1. /\ v \in Active /\ v \in OnStack /\ v \in Node /\ v \notin Waiting
      /\ \A i \in Calls : i = Len(frames) =>
           F(i) = v /\ Used(i) = Children(v) /\ frames[i].pending = {} /\ i + 1 \notin Calls
      /\ Len(frames) \in Calls /\ Len(frames) \in Nat /\ Calls \subseteq Nat
      /\ Calls' = Calls \ {Len(frames)} /\ Len(frames') = Len(frames) - 1
      /\ \A i \in Calls' : i < Len(frames) /\ (i + 1 \in Calls' \/ i + 1 = Len(frames))
      /\ \A i \in Calls' : frames'[i] = frames[i] /\ F(i)' = F(i) /\ Used(i)' = Used(i)
      /\ \A i \in Calls' : F(i) \in Active /\ D[F(i)] < D[v] /\ Reaches(edges, F(i), v)
      /\ \A n : Children(n)' = Children(n)
      /\ Visited' = Visited /\ OnStack' = OnStack \ {v}
      /\ StackInv'
  BY <1>0, CallReturned
<1>2. /\ p \in 0 .. Len(SS)
      /\ \A i \in 1 .. Len(SS) : i <= p => D[SS[i]] < D[v]
      /\ \A i \in 1 .. Len(SS) : p < i => D[SS[i]] > D[v]
      /\ Above(v) = (p + 1) .. Len(SS)
  BY <1>1, Popped
<1>3. /\ inSCC \cup {v} \cup P \in ClosedSets(edges)
      /\ \A n \in P : Same(edges, n, v)
      /\ \A m \in Node : Same(edges, m, v) => m = v \/ m \in P
  BY <1>0, PoppedIsComponent
<1>4. /\ Len(SS) \in Nat /\ p \in Nat
      /\ \A i \in 1 .. Len(SS) : SS[i] \in Waiting
      /\ \A n \in Waiting : n \in Active
      /\ \A n \in Active : n \in Node /\ n \in Visited /\ D[n] \in Nat /\ n \notin inSCC
      /\ \A m, n \in Active : D[m] = D[n] => m = n
  <2>1. \A i \in 1 .. Len(SS) : SS[i] \in Waiting
    BY DEF Waiting
  <2>2. \A n \in Active : n \in Node /\ n \in Visited /\ D[n] \in Nat /\ n \notin inSCC
    BY DEF Active, Visited, TypeOK
  <2>3. Len(SS) \in Nat /\ p \in Nat
    BY <1>2 DEF TypeOK
  <2> QED BY <2>1, <2>2, <2>3 DEF NumberInv
<1>5. {SS[i] : i \in Above(v)} = P
  <2>1. ASSUME NEW i \in Above(v) PROVE SS[i] \in P
    <3>1. i \in 1 .. Len(SS) /\ p < i
      BY <1>2, <1>4, <2>1
    <3> QED BY <1>2, <1>4, <3>1
  <2>2. ASSUME NEW n \in P PROVE \E i \in Above(v) : SS[i] = n
    <3>1. PICK i \in 1 .. Len(SS) : SS[i] = n
      BY DEF Waiting
    <3>2. D[n] > D[v] /\ D[n] \in Nat /\ D[v] \in Nat
      BY <1>1, <1>4
    <3>3. p < i
      BY <1>2, <1>4, <3>1, <3>2
    <3> QED BY <1>2, <1>4, <3>1, <3>3
  <2> QED BY <2>1, <2>2
<1>6. /\ inSCC' = inSCC \cup {v} \cup P
      /\ rep' = [n \in Node |-> IF n \in P THEN v ELSE rep[n]]
      /\ subNodes' = [n \in Node |-> IF n = v THEN subNodes[v] \cup P
                                     ELSE IF n \in P THEN {} ELSE subNodes[n]]
      /\ repNodes' = IF P = {} THEN repNodes ELSE (repNodes \ P) \cup {v}
      /\ SS' = SubSeq(SS, 1, p) /\ T' = Append(T, v)
  BY <1>5 DEF Complete
<1>7. /\ SS' \in Seq(Node) /\ Len(SS') = p
      /\ \A i \in 1 .. p : SS'[i] = SS[i]
  <2> HIDE DEF p
  <2> QED BY <1>2, <1>4, <1>6 DEF TypeOK
<1>8. /\ T' \in Seq(Node) /\ Len(T') = Len(T) + 1 /\ T'[Len(T) + 1] = v /\ Len(T) \in Nat
      /\ \A i \in 1 .. Len(T) : T'[i] = T[i]
  BY <1>1, <1>6 DEF TypeOK
<1>9. /\ \A n \in P : n \in Waiting /\ n \in Active /\ D[v] < D[n] /\ n # v
      /\ \A n \in Waiting : n \notin P => D[n] < D[v]
  BY <1>1, <1>4
<1>10. Waiting' = Waiting \ P
  <2>1. Waiting' = {SS'[i] : i \in 1 .. p}
    BY <1>7 DEF Waiting
  <2>2. ASSUME NEW i \in 1 .. p PROVE SS'[i] \in Waiting \ P
    <3>1. i \in 1 .. Len(SS) /\ i <= p /\ SS'[i] = SS[i]
      BY <1>2, <1>4, <1>7
    <3>2. SS[i] \in Waiting /\ D[SS[i]] < D[v] /\ D[SS[i]] \in Nat /\ D[v] \in Nat
      BY <1>1, <1>2, <1>4, <3>1
    <3> QED BY <3>1, <3>2
  <2>3. ASSUME NEW n \in Waiting \ P PROVE \E i \in 1 .. p : SS'[i] = n
    <3>1. PICK i \in 1 .. Len(SS) : SS[i] = n
      BY DEF Waiting
    <3>2. ~(p < i)
      BY <1>2, <3>1
    <3>3. i \in 1 .. p
      BY <1>2, <1>4, <3>1, <3>2
    <3> QED BY <1>7, <3>1, <3>3
  <2> QED BY <2>1, <2>2, <2>3
<1> HIDE DEF v, P, p
<1>11. Active' = Active \ ({v} \cup P)
  BY <1>1, <1>6 DEF Active
<1>12. /\ \A n \in Node : n \notin P => rep'[n] = rep[n]
       /\ \A n \in P : rep'[n] = v
       /\ rep'[v] = v
       /\ subNodes'[v] = subNodes[v] \cup P
       /\ \A n \in P : subNodes'[n] = {}
       /\ \A n \in Node : n # v /\ n \notin P => subNodes'[n] = subNodes[n]
       /\ P \subseteq Node
  BY <1>0, <1>1, <1>4, <1>6, <1>9
<1>13. TypeOK'
  <2>1. frames' \in Seq([node : Node, todo : SUBSET Node, pending : SUBSET Node])
    BY <1>0 DEF TopReturns, Frame
  <2>2. rep' \in [Node -> Node \cup {0}] /\ subNodes' \in [Node -> SUBSET Node]
    BY <1>1, <1>6, <1>12 DEF TypeOK
  <2>3. inSCC' \subseteq Node /\ repNodes' \subseteq Node
    BY <1>1, <1>6, <1>12 DEF TypeOK
  <2>4. ASSUME NEW n \in Node PROVE rep'[n] = 0 <=> n \notin Visited
    <3>1. CASE n \in P
      BY <1>1, <1>4, <1>9, <1>12, <3>1, SCCAssumption
    <3>2. CASE n \notin P
      BY <1>12, <3>2 DEF TypeOK
    <3> QED BY <3>1, <3>2
  <2> QED BY <1>0, <1>1, <1>7, <1>8, <2>1, <2>2, <2>3, <2>4 DEF TypeOK
<1>14. NumberInv'
  <2>1. OnStack' \cap Waiting' = {} /\ Active' = OnStack' \cup Waiting'
    BY <1>1, <1>9, <1>10, <1>11 DEF NumberInv
  <2>2. inSCC' \subseteq Visited'
    BY <1>1, <1>4, <1>6, <1>9 DEF NumberInv
  <2> QED BY <1>0, <1>1, <2>1, <2>2 DEF NumberInv
<1>15. WaitingInv'
  <2>1. ASSUME NEW w \in Waiting'
        PROVE  /\ \E i \in Calls' : D'[F(i)'] < D'[w] /\ Reaches(edges', w, F(i)')
               /\ \A i \in Calls' : D'[F(i)'] < D'[w] => Reaches(edges', F(i)', w)
    <3>1. w \in Waiting /\ D[w] < D[v] /\ D[w] \in Nat /\ D[v] \in Nat
      BY <1>1, <1>4, <1>9, <1>10
    <3>2. PICK i \in Calls : D[F(i)] < D[w] /\ Reaches(edges, w, F(i))
      BY <3>1 DEF WaitingInv
    <3>3. i \in Calls'
      BY <1>1, <3>1, <3>2
    <3>4. \A j \in Calls' : D[F(j)] < D[w] => Reaches(edges, F(j), w)
      BY <1>1, <3>1 DEF WaitingInv
    <3> QED BY <1>0, <1>1, <3>2, <3>3, <3>4
  <2>2. ASSUME NEW i \in 1 .. Len(SS'), NEW j \in 1 .. Len(SS'), NEW c \in Calls',
               i < j, D'[SS'[i]] > D'[F(c)']
        PROVE  D'[SS'[j]] > D'[F(c)']
    <3>1. /\ i \in 1 .. Len(SS) /\ j \in 1 .. Len(SS) /\ c \in Calls
          /\ SS'[i] = SS[i] /\ SS'[j] = SS[j] /\ F(c)' = F(c)
      BY <1>1, <1>2, <1>4, <1>7
    <3> QED BY <1>0, <2>2, <3>1 DEF WaitingInv
  <2> QED BY <2>1, <2>2 DEF WaitingInv
<1>16. /\ \A n \in Active' : n \in Active /\ n \in Node /\ n \notin P /\ D[n] < D[v]
       /\ \A i \in Calls' : F(i) \in Active' /\ rep'[F(i)] = rep[F(i)]
       /\ \A n \in Waiting' : n \in Waiting /\ n \in Active' /\ rep'[n] = rep[n]
  <2>1. ASSUME NEW n \in Active' PROVE D[n] < D[v]
    <3>1. CASE n \in OnStack'
      BY <1>1, <3>1 DEF OnStack
    <3>2. CASE n \in Waiting'
      BY <1>9, <1>10, <3>2
    <3> QED BY <1>14, <3>1, <3>2 DEF NumberInv
  <2>2. \A n \in Active' : n \in Active /\ n \in Node /\ n \notin P
    BY <1>4, <1>11
  <2>3. \A i \in Calls' : F(i) \in Active'
    <3> TAKE i \in Calls'
    <3>1. F(i) \in OnStack'
      BY <1>1 DEF OnStack
    <3> QED BY <1>14, <3>1 DEF NumberInv
  <2>4. \A n \in Waiting' : n \in Waiting /\ n \in Active'
    BY <1>10, <1>14 DEF NumberInv
  <2> QED BY <1>12, <2>1, <2>2, <2>3, <2>4
<1>17. RootInv'
  <2>1. ASSUME NEW n \in Active'
        PROVE  rep'[n] \in Active' /\ D'[rep'[n]] <= D'[n] /\ Same(edges', n, rep'[n])
    <3>1. rep'[n] = rep[n] /\ D[n] < D[v] /\ n \in Active
      BY <1>12, <1>16
    <3>2. rep[n] \in Active /\ D[rep[n]] <= D[n] /\ Same(edges, n, rep[n])
      BY <3>1 DEF RootInv
    <3>3. D[rep[n]] < D[v] /\ ~(D[v] < D[rep[n]]) /\ rep[n] # v
      BY <1>1, <1>4, <3>1, <3>2
    <3>4. rep[n] \in Active'
      BY <1>9, <1>11, <3>2, <3>3
    <3> QED BY <1>0, <3>1, <3>2, <3>4
  <2>2. \A w \in Waiting' : rep'[w] # w
    BY <1>16 DEF RootInv
  <2> QED BY <2>1, <2>2 DEF RootInv
<1>18. LowInv'
  <2>1. ASSUME NEW i \in Calls', NEW x \in Used(i)'
        PROVE  x \in inSCC' \/ D'[rep'[F(i)']] <= D'[x]
    <3>1. i \in Calls /\ x \in Used(i) /\ F(i)' = F(i) /\ rep'[F(i)] = rep[F(i)]
      BY <1>1, <1>16
    <3>2. x \in inSCC \/ D[rep[F(i)]] <= D[x]
      BY <3>1 DEF LowInv
    <3> QED BY <1>0, <1>6, <3>1, <3>2
  <2>2. ASSUME NEW w \in Waiting', NEW x \in Children(w)
        PROVE  x \in inSCC' \/ (x \in Visited' /\ D'[rep'[w]] <= D'[x])
    <3>1. w \in Waiting /\ rep'[w] = rep[w]
      BY <1>16
    <3> QED BY <1>0, <1>1, <1>6, <3>1 DEF LowInv
  <2>3. ASSUME NEW w \in Waiting', NEW i \in Calls', D[F(i)] < D[w],
               i + 1 \in Calls' => D[w] < D[F(i + 1)]
        PROVE  D[rep[F(i)]] <= D[rep[w]]
    <3>1. w \in Waiting /\ D[w] < D[v] /\ i \in Calls /\ i # Len(frames)
      BY <1>1, <1>16
    <3>2. i + 1 \in Calls => D[w] < D[F(i + 1)]
      BY <1>1, <2>3, <3>1
    <3> QED BY <2>3, <3>1, <3>2 DEF LowInv
  <2>4. ASSUME NEW w \in Waiting', NEW i \in Calls', D'[F(i)'] < D'[w],
               i + 1 \in Calls' => D'[w] < D'[F(i + 1)']
        PROVE  D'[rep'[F(i)']] <= D'[rep'[w]]
    <3>1. F(i)' = F(i) /\ (i + 1 \in Calls' => F(i + 1)' = F(i + 1))
      BY <1>1
    <3>2. rep'[F(i)] = rep[F(i)] /\ rep'[w] = rep[w]
      BY <1>16
    <3> QED BY <1>0, <2>3, <2>4, <3>1, <3>2
  <2> QED BY <1>1, <2>1, <2>2, <2>4 DEF LowInv
<1>19. SubInv'
  <2>1. ASSUME NEW n \in Node, NEW m \in subNodes'[n]
        PROVE  Same(edges', m, n)
    <3>1. m \in subNodes[n] \/ (n = v /\ m \in P)
      BY <1>12, <2>1
    <3> QED BY <1>0, <1>3, <3>1 DEF SubInv
  <2>2. ASSUME NEW n \in Visited, rep'[n] = n
        PROVE  n \in subNodes'[n]
    <3>1. n \in Node /\ n \notin P
      BY <1>9, <1>12, <2>2 DEF Visited
    <3>2. n \in subNodes[n]
      BY <1>12, <2>2, <3>1 DEF SubInv
    <3> QED BY <1>12, <3>1, <3>2
  <2> QED BY <1>1, <2>1, <2>2 DEF SubInv
<1>20. /\ \A n \in inSCC : /\ n \in Node /\ n # v /\ n \notin P /\ rep[n] \in inSCC
                           /\ rep'[n] = rep[n] /\ subNodes'[n] = subNodes[n]
       /\ \A n \in inSCC' : n \in inSCC \/ n = v \/ n \in P
       /\ \A n \in P : n \in inSCC'
       /\ v \in inSCC' /\ v \notin inSCC
  <2>1. \A n \in inSCC : n \in Node /\ n # v /\ n \notin P /\ rep[n] \in inSCC
    BY <1>1, <1>4, <1>9 DEF TypeOK, ComponentInv
  <2> QED BY <1>1, <1>4, <1>6, <1>12, <2>1
<1>21. v \in subNodes[v]
  BY <1>0, <1>1, <1>4 DEF SubInv, v
<1>22. ComponentInv'
  <2>1. \A e \in edges : e[1] \in inSCC' => e[2] \in inSCC'
    BY <1>3, <1>6 DEF ClosedSets
  <2>2. ASSUME NEW n \in inSCC
        PROVE  /\ rep'[n] \in inSCC' /\ Same(edges, n, rep'[n])
               /\ \A m \in Node : Same(edges, m, n) => m \in inSCC' /\ rep'[m] = rep'[n] /\ m \in subNodes'[rep'[n]]
               /\ n # rep'[n] => subNodes'[n] = {}
    <3>1. /\ rep[n] \in inSCC /\ Same(edges, n, rep[n])
          /\ n # rep[n] => subNodes[n] = {}
      BY DEF ComponentInv
    <3>2. rep'[n] = rep[n] /\ subNodes'[n] = subNodes[n] /\ subNodes'[rep[n]] = subNodes[rep[n]]
      BY <1>20, <3>1
    <3>3. ASSUME NEW m \in Node, Same(edges, m, n)
          PROVE  m \in inSCC' /\ rep'[m] = rep[n] /\ m \in subNodes[rep[n]]
      <4>1. m \in inSCC /\ rep[m] = rep[n] /\ m \in subNodes[rep[n]]
        BY <3>3 DEF ComponentInv
      <4> QED BY <1>6, <1>20, <4>1
    <3>4. rep[n] \in inSCC' /\ \A m \in Node : Same(edges, m, n) =>
            m \in inSCC' /\ rep'[m] = rep[n] /\ m \in subNodes[rep[n]]
      BY <1>6, <3>1, <3>3
    <3> QED BY <3>1, <3>2, <3>4, Zenon
  <2>3. ASSUME NEW n, n = v \/ n \in P
        PROVE  /\ rep'[n] = v /\ Same(edges, n, v)
               /\ \A m \in Node : Same(edges, m, n) => m \in inSCC' /\ rep'[m] = v /\ m \in subNodes'[v]
               /\ n # v => subNodes'[n] = {}
    <3>1. rep'[n] = v /\ Same(edges, n, v) /\ (n # v => subNodes'[n] = {})
      BY <1>3, <1>12, <2>3, ReachesItself
    <3>2. ASSUME NEW m \in Node, Same(edges, m, n)
          PROVE  m \in inSCC' /\ rep'[m] = v /\ m \in subNodes'[v]
      <4>1. Same(edges, m, v)
        BY <3>1, <3>2, SameTransitive
      <4>2. m = v \/ m \in P
        BY <1>3, <4>1
      <4> QED BY <1>12, <1>20, <1>21, <4>2
    <3> QED BY <3>1, <3>2
  <2>4. ASSUME NEW n \in inSCC'
        PROVE  /\ rep'[n] \in inSCC' /\ Same(edges, n, rep'[n])
               /\ \A m \in Node : Same(edges, m, n) => m \in inSCC' /\ rep'[m] = rep'[n] /\ m \in subNodes'[rep'[n]]
               /\ n # rep'[n] => subNodes'[n] = {}
    <3>1. CASE n \in inSCC
      BY <2>2, <3>1
    <3>2. CASE n = v \/ n \in P
      BY <1>20, <2>3, <3>2
    <3> QED BY <1>20, <3>1, <3>2
  <2> QED BY <1>0, <2>1, <2>4 DEF ComponentInv
<1>23. OrderInv'
  <2>1. ASSUME NEW i \in 1 .. Len(T') PROVE i \in 1 .. Len(T) \/ i = Len(T) + 1
    BY <1>8
  <2>2. \A i \in 1 .. Len(T) : T'[i] = T[i] /\ T[i] \in inSCC /\ rep[T[i]] = T[i] /\ i \in 1 .. Len(T')
    BY <1>8 DEF OrderInv
  <2>3. \A i \in 1 .. Len(T') : T'[i] \in inSCC' /\ rep'[T'[i]] = T'[i]
    BY <1>6, <1>8, <1>12, <1>20, <2>1, <2>2
  <2>4. ASSUME NEW i \in 1 .. Len(T'), NEW j \in 1 .. Len(T'), T'[i] = T'[j]
        PROVE  i = j
    <3>1. T'[i] = v => i = Len(T) + 1
      BY <1>20, <2>1, <2>2
    <3>2. T'[j] = v => j = Len(T) + 1
      BY <1>20, <2>1, <2>2
    <3>3. CASE T'[i] = v
      BY <2>4, <3>1, <3>2, <3>3
    <3>4. CASE T'[i] # v
      <4>1. i \in 1 .. Len(T) /\ j \in 1 .. Len(T) /\ T[i] = T[j]
        BY <1>8, <2>1, <2>2, <2>4, <3>4
      <4> QED BY <4>1 DEF OrderInv
    <3> QED BY <3>3, <3>4
  <2>5. Len(T) + 1 \in 1 .. Len(T')
    BY <1>8
  <2>6. ASSUME NEW n \in inSCC' PROVE \E i \in 1 .. Len(T') : T'[i] = rep'[n]
    <3>1. CASE n \in inSCC
      <4>1. PICK i \in 1 .. Len(T) : T[i] = rep[n]
        BY <3>1 DEF OrderInv
      <4> QED BY <1>20, <2>2, <3>1, <4>1
    <3>2. CASE n = v \/ n \in P
      BY <1>8, <1>12, <2>5, <3>2
    <3> QED BY <1>20, <3>1, <3>2
  <2>7. ASSUME NEW e \in edges, e[1] \in inSCC', NEW i \in 1 .. Len(T'), NEW j \in 1 .. Len(T'),
               T'[i] = rep'[e[1]], T'[j] = rep'[e[2]]
        PROVE  j <= i
    <3>1. CASE e[1] \in inSCC
      <4>1. e[2] \in inSCC
        BY <3>1 DEF ComponentInv
      <4>2. T'[i] = rep[e[1]] /\ T'[j] = rep[e[2]] /\ T'[i] # v /\ T'[j] # v
        BY <1>20, <2>7, <3>1, <4>1
      <4>3. i \in 1 .. Len(T) /\ j \in 1 .. Len(T) /\ T[i] = rep[e[1]] /\ T[j] = rep[e[2]]
        BY <1>8, <2>1, <2>2, <4>2
      <4> QED BY <3>1, <4>3 DEF OrderInv
    <3>2. CASE e[1] = v \/ e[1] \in P
      <4>1. T'[i] = v
        BY <1>12, <2>7, <3>2
      <4>2. i = Len(T) + 1
        BY <1>20, <2>1, <2>2, <4>1
      <4> QED BY <1>8, <4>2
    <3> QED BY <1>20, <2>7, <3>1, <3>2
  <2> QED BY <1>0, <2>3, <2>4, <2>6, <2>7 DEF OrderInv
<1> QED BY <1>1, <1>13, <1>14, <1>15, <1>17, <1>18, <1>19, <1>22, <1>23

-----------------------------------------------------------------------------
LEMMA NextInv == IInv /\ [Next]_vars => IInv'
<1> SUFFICES ASSUME IInv, [Next]_vars PROVE IInv'
  OBVIOUS
<1>1. ASSUME NEW n \in Node, Start(n) PROVE IInv'
  <2>0. TypeOK
    BY DEF IInv
  <2>1. /\ frames = << >> /\ n \notin Visited /\ CallMade(n)
        /\ I' = I + 1 /\ D' = [D EXCEPT ![n] = I + 1] /\ rep' = [rep EXCEPT ![n] = n]
        /\ subNodes' = [subNodes EXCEPT ![n] = @ \cup {n}]
        /\ UNCHANGED <<edges, inSCC, repNodes, SS, T>>
    BY <1>1, <2>0, StartFrames
  <2>2. \A i \in Calls : i = Len(frames) => frames[i].pending = {} /\ n \in frames[i].todo
    BY <2>1 DEF Calls
  <2> QED BY <2>1, <2>2, VisitStep
<1>2. ASSUME NEW n \in Node, NextChild(n) PROVE IInv'
  <2>0. TypeOK
    BY DEF IInv
  <2>1. /\ frames # << >> /\ top.pending = {} /\ n \in top.todo
        /\ n \in Visited => TopBecomes(Waits(top, n)) /\ UNCHANGED <<edges, I, D, rep, subNodes, inSCC, repNodes, SS, T>>
        /\ n \notin Visited =>
             /\ CallMade(n)
             /\ I' = I + 1 /\ D' = [D EXCEPT ![n] = I + 1] /\ rep' = [rep EXCEPT ![n] = n]
             /\ subNodes' = [subNodes EXCEPT ![n] = @ \cup {n}]
             /\ UNCHANGED <<edges, inSCC, repNodes, SS, T>>
    BY <1>2, <2>0, NextChildFrames
  <2>2. \A i \in Calls : i = Len(frames) => frames[i].pending = {} /\ n \in frames[i].todo
    BY <2>1 DEF top
  <2>3. CASE n \in Visited
    BY <2>1, <2>3, SkipStep
  <2>4. CASE n \notin Visited
    BY <2>1, <2>2, <2>4, VisitStep
  <2> QED BY <2>3, <2>4
<1>3. ASSUME NEW n \in Node, UseChild(n) PROVE IInv'
  BY <1>3, UseChildStep
<1>4. CASE Complete
  BY <1>4, CompleteStep
<1>5. CASE Suspend
  BY <1>5, SuspendStep
<1>6. CASE UNCHANGED vars
  <2> USE <1>6 DEF vars
  <2>0. Visited' = Visited /\ Active' = Active /\ OnStack' = OnStack /\ Waiting' = Waiting
    BY DEF Visited, Active, OnStack, Waiting, Calls, F
  <2>1. TypeOK' /\ NumberInv'
    BY <2>0 DEF IInv, TypeOK, NumberInv
  <2>5. StackInv'
    BY DEF IInv, StackInv, Visited, Calls, Used, F, Children
  <2>2. WaitingInv' /\ RootInv'
    BY DEF IInv, WaitingInv, RootInv, Visited, Active, Waiting, Calls, F
  <2>3. LowInv'
    BY DEF IInv, LowInv, Visited, Waiting, Calls, Used, F, Children
  <2>4. SubInv' /\ ComponentInv' /\ OrderInv'
    BY DEF IInv, SubInv, ComponentInv, OrderInv, Visited
  <2> QED BY <2>1, <2>2, <2>3, <2>4, <2>5 DEF IInv
<1> QED BY <1>1, <1>2, <1>3, <1>4, <1>5, <1>6 DEF Next, Returned

THEOREM Inductive == Spec => []IInv
BY InitInv, NextInv, PTL DEF Spec

(* The variables keep their types.                                         *)
THEOREM TypeCorrect == Spec => []TypeOK
<1>1. IInv => TypeOK
  BY DEF IInv
<1> QED BY <1>1, Inductive, PTL

-----------------------------------------------------------------------------
LEMMA SameIsComponent ==
  ASSUME TypeOK, NEW m \in Node, NEW n \in Node
  PROVE  m \in Components(edges)[n] <=> Same(edges, m, n)
BY DEF Components, Same, Reaches

LEMMA ExactComponents ==
  ASSUME IInv, NEW n \in inSCC
  PROVE  /\ n \in Node /\ rep[n] \in Node /\ rep[n] \in inSCC /\ Same(edges, n, rep[n])
         /\ subNodes[rep[n]] = Components(edges)[n]
         /\ rep[n] \in Components(edges)[n] /\ n \in Components(edges)[n]
<1> USE DEF IInv
<1>1. n \in Node /\ rep[n] \in Node /\ rep[n] \in inSCC /\ Same(edges, n, rep[n])
  BY DEF ComponentInv, TypeOK
<1>2. subNodes[rep[n]] \subseteq Node /\ Components(edges)[n] \subseteq Node
  BY <1>1 DEF TypeOK, Components
<1>3. ASSUME NEW m \in Node
      PROVE  m \in subNodes[rep[n]] <=> m \in Components(edges)[n]
  <2>1. m \in subNodes[rep[n]] => Same(edges, m, n)
    <3>1. m \in subNodes[rep[n]] => Same(edges, m, rep[n])
      BY <1>1 DEF SubInv
    <3> QED BY <1>1, <3>1, SameTransitive DEF Same
  <2>2. Same(edges, m, n) => m \in subNodes[rep[n]]
    BY DEF ComponentInv
  <2> QED BY <1>1, <2>1, <2>2, SameIsComponent
<1>4. rep[n] \in Components(edges)[n] /\ n \in Components(edges)[n]
  BY <1>1, SameIsComponent, ReachesItself DEF Same
<1>5. subNodes[rep[n]] = Components(edges)[n]
  BY <1>2, <1>3
<1> QED BY <1>1, <1>4, <1>5

(* Each component is right as soon as it is complete.                      *)
THEOREM Completeness == Spec => []CompleteIsComponent
<1>1. IInv => CompleteIsComponent
  <2> SUFFICES ASSUME IInv PROVE CompleteIsComponent
    OBVIOUS
  <2>1. \A n \in inSCC : n # rep[n] => subNodes[n] = {}
    BY DEF IInv, ComponentInv
  <2> QED BY <2>1, ExactComponents DEF CompleteIsComponent
<1> QED BY <1>1, Inductive, PTL

(* The roots are stacked so that edges lead down.                          *)
THEOREM Order == Spec => []RootsAreTopological
<1>1. IInv => RootsAreTopological
  <2> SUFFICES ASSUME IInv PROVE RootsAreTopological
    OBVIOUS
  <2> USE DEF IInv
  <2> DEFINE pos(n) == CHOOSE i \in 1 .. Len(T) : T[i] = rep[n]
  <2>1. \A n \in inSCC : pos(n) \in 1 .. Len(T) /\ T[pos(n)] = rep[n]
    BY DEF OrderInv
  <2> HIDE DEF pos
  <2>2. ASSUME NEW e \in edges, e[1] \in inSCC
        PROVE  e[2] \in inSCC /\ pos(e[2]) <= pos(e[1])
    <3>1. e[2] \in inSCC
      BY <2>2 DEF ComponentInv
    <3> QED BY <2>1, <2>2, <3>1 DEF OrderInv
  <2> QED BY <2>2 DEF RootsAreTopological, pos
<1> QED BY <1>1, Inductive, PTL

(* At the end every node is in a complete component.                       *)
LEMMA DoneIsComplete ==
  ASSUME IInv, Done
  PROVE  inSCC = Node
<1> USE DEF IInv
<1>1. Calls = {} /\ Visited = Node
  BY DEF Done, Calls
<1>2. Waiting = {} /\ OnStack = {}
  BY <1>1 DEF WaitingInv, OnStack
<1>3. Active = {}
  BY <1>2 DEF NumberInv
<1> QED BY <1>1, <1>3 DEF Active, TypeOK

(* The search gives each node one chosen member of its component.          *)
THEOREM RootMap == Spec => []DoneIsRootMap
<1>1. IInv => DoneIsRootMap
  <2> SUFFICES ASSUME IInv, Done PROVE rep \in RootMaps(edges)
    BY DEF DoneIsRootMap
  <2> DEFINE scc    == Components(edges)
             cyclic == {C \in {scc[n] : n \in Node} : \E m, n \in C : m # n}
             root   == [C \in cyclic |-> rep[CHOOSE n \in Node : scc[n] = C]]
  <2>0. rep \in [Node -> Node \cup {0}]
    BY DEF IInv, TypeOK
  <2>1. \A n \in Node : /\ rep[n] \in Node /\ Same(edges, n, rep[n])
                        /\ rep[n] \in scc[n] /\ n \in scc[n]
    BY DoneIsComplete, ExactComponents
  <2>2. ASSUME NEW m \in Node, NEW n \in Node, scc[m] = scc[n]
        PROVE  rep[m] = rep[n]
    <3>1. Same(edges, m, n)
      BY <2>1, <2>2, SameIsComponent DEF IInv
    <3> QED BY <3>1, DoneIsComplete DEF IInv, ComponentInv
  <2> HIDE DEF scc
  <2>3. ASSUME NEW C \in cyclic
        PROVE  root[C] \in C /\ root[C] \in UNION cyclic
    <3>1. PICK n \in Node : scc[n] = C
      OBVIOUS
    <3> DEFINE c == CHOOSE m \in Node : scc[m] = C
    <3>2. c \in Node /\ scc[c] = C
      BY <3>1
    <3>3. root[C] = rep[c]
      OBVIOUS
    <3> HIDE DEF c, root
    <3> QED BY <2>1, <3>2, <3>3
  <2>4. root \in [cyclic -> UNION cyclic] /\ \A C \in cyclic : root[C] \in C
    BY <2>3
  <2>5. ASSUME NEW n \in Node
        PROVE  rep[n] = IF scc[n] \in cyclic THEN root[scc[n]] ELSE n
    <3>1. CASE scc[n] \in cyclic
      <4> DEFINE c == CHOOSE m \in Node : scc[m] = scc[n]
      <4>1. c \in Node /\ scc[c] = scc[n]
        OBVIOUS
      <4>2. root[scc[n]] = rep[c]
        BY <3>1
      <4> HIDE DEF c, root
      <4> QED BY <2>2, <3>1, <4>1, <4>2
    <3>2. CASE scc[n] \notin cyclic
      BY <2>1, <3>2
    <3> QED BY <3>1, <3>2
  <2> HIDE DEF cyclic, root
  <2>6. rep = [n \in Node |-> IF scc[n] \in cyclic THEN root[scc[n]] ELSE n]
    BY <2>0, <2>5
  <2> QED BY <2>4, <2>6 DEF RootMaps, scc, cyclic
<1> QED BY <1>1, Inductive, PTL

(* A node whose component has another member is on a cycle.                *)
LEMMA CycleThrough ==
  ASSUME TypeOK, NEW m \in Node, NEW n \in Node, Reaches(edges, n, m), Reaches(edges, m, n), m # n
  PROVE  OnCycle(n)
<1> DEFINE Off == {x \in Node : \E c \in Children(n) : Reaches(edges, c, x)}
<1>1. SUFFICES ASSUME \A c \in Children(n) : ~Reaches(edges, c, n)
               PROVE  FALSE
  BY DEF OnCycle, Reaches
<1>2. Off \cup {n} \in ClosedSets(edges)
  <2>1. ASSUME NEW e \in edges, e[1] \in Off \cup {n}
        PROVE  e[2] \in Off
    <3>1. e = <<e[1], e[2]>> /\ e[1] \in Node /\ e[2] \in Node
      BY SCCAssumption DEF TypeOK, Edge
    <3>2. e[2] \in Children(e[1]) /\ Reaches(edges, e[1], e[2])
      <4>1. e[2] \in Children(e[1])
        BY <3>1 DEF Children
      <4> QED BY <4>1, ChildReached
    <3>3. CASE e[1] = n
      BY <3>1, <3>2, <3>3, ReachesItself
    <3>4. CASE e[1] \in Off
      BY <3>1, <3>2, <3>4, ReachesTransitive
    <3> QED BY <2>1, <3>3, <3>4
  <2> QED BY <2>1 DEF ClosedSets
<1>3. m \in Off
  BY <1>2 DEF Reaches
<1>4. PICK c \in Children(n) : Reaches(edges, c, m)
  BY <1>3
<1> QED BY <1>1, <1>4, ReachesTransitive

(* The query holds of the nodes on a cycle.                                *)
THEOREM Cycles == Spec => []CycleQueriesAreExact
<1>1. IInv => CycleQueriesAreExact
  <2> SUFFICES ASSUME IInv, Done, NEW n \in Node PROVE isInCycle(n) <=> OnCycle(n)
    BY DEF CycleQueriesAreExact
  <2>0. TypeOK
    BY DEF IInv
  <2>1. /\ rep[n] \in Node /\ Same(edges, n, rep[n])
        /\ \A m \in subNodes[rep[n]] : m \in Node /\ Same(edges, m, n)
        /\ n \in subNodes[rep[n]]
        /\ \A m \in Node : Same(edges, m, n) => m \in subNodes[rep[n]]
    <3>1. n \in inSCC
      BY DoneIsComplete
    <3>2. subNodes[rep[n]] \subseteq Node
      BY <3>1, ExactComponents DEF IInv, TypeOK
    <3> QED BY <2>0, <3>1, <3>2, ExactComponents, SameIsComponent
  <2>2. ASSUME isInCycle(n) PROVE OnCycle(n)
    <3>1. CASE \E m, k \in subNodes[rep[n]] : m # k
      <4>1. PICK m \in subNodes[rep[n]] : m # n
        BY <3>1
      <4> QED BY <2>0, <2>1, <4>1, CycleThrough DEF Same
    <3>2. CASE rep[n] = n /\ <<rep[n], rep[n]>> \in edges
      <4>1. n \in Children(n)
        BY <3>2 DEF Children
      <4> QED BY <4>1 DEF OnCycle
    <3>3. CASE rep[n] # n
      BY <2>0, <2>1, <3>3, CycleThrough DEF Same
    <3> QED BY <2>2, <3>1, <3>2, <3>3 DEF isInCycle
  <2>3. ASSUME OnCycle(n) PROVE isInCycle(n)
    <3>1. PICK m \in Children(n) : Reaches(edges, m, n)
      BY <2>3 DEF OnCycle, Reaches
    <3>2. m \in Node /\ Reaches(edges, n, m) /\ <<n, m>> \in edges
      BY ChildReached
    <3>3. m \in subNodes[rep[n]]
      BY <2>1, <3>1, <3>2 DEF Same
    <3>4. CASE m # n
      BY <2>1, <3>3, <3>4 DEF isInCycle
    <3>5. CASE m = n /\ rep[n] # n
      <4>1. rep[n] \in subNodes[rep[n]]
        BY <2>1 DEF Same
      <4> QED BY <2>1, <3>5, <4>1 DEF isInCycle
    <3>6. CASE m = n /\ rep[n] = n
      BY <3>2, <3>6 DEF isInCycle
    <3> QED BY <3>4, <3>5, <3>6
  <2> QED BY <2>2, <2>3
<1> QED BY <1>1, Inductive, PTL

=============================================================================
