---------------------------- MODULE SCCDetection ----------------------------
(***************************************************************************)
(* Nuutila's algorithm for strongly connected components, class            *)
(* SCCDetection of Util/SCC.h.  The constraint solvers use it to merge     *)
(* copy cycles and to order a pass over the graph, memory SSA to walk the  *)
(* call graph callees first, and every pointer analysis to tell recursive  *)
(* functions.                                                              *)
(*                                                                         *)
(* visit(v) is recursive: frames is its call stack.  A frame has the       *)
(* children of v still to come and the one whose call has been made but    *)
(* whose result has not been used yet.                                     *)
(***************************************************************************)
EXTENDS Naturals, FiniteSets, Sequences, StronglyConnected

CONSTANT Graphs   \* the edge sets that may be searched

ASSUME SCCAssumption == Node \subseteq Nat \ {0} /\ Graphs \subseteq SUBSET Edge

VARIABLES
  edges,      \* the graph searched
  frames,     \* calls of visit in progress, innermost last
  I,          \* _I: number of nodes visited
  D,          \* _D: visiting numbers, 0 before the visit
  rep,        \* _rep, 0 for UINT_MAX
  subNodes,   \* _subNodes
  inSCC,      \* nodes whose _inSCC is set
  repNodes,   \* repNodes
  SS,         \* _SS: finished nodes of components not complete yet
  T           \* _T: roots of complete components, the last on top

vars == <<edges, frames, I, D, rep, subNodes, inSCC, repNodes, SS, T>>

Visited == {n \in Node : D[n] # 0}
top     == frames[Len(frames)]

TypeOK ==
  /\ edges \in Graphs
  /\ frames \in Seq([node : Node, todo : SUBSET Node, pending : SUBSET Node])
  /\ I \in Nat
  /\ D \in [Node -> Nat]
  /\ rep \in [Node -> Node \cup {0}]
  /\ subNodes \in [Node -> SUBSET Node]
  /\ inSCC \subseteq Node
  /\ repNodes \subseteq Node
  /\ SS \in Seq(Node) /\ T \in Seq(Node)
  /\ \A n \in Node : rep[n] = 0 <=> n \notin Visited

(* find() starts with clear().                                             *)
Init ==
  /\ edges \in Graphs
  /\ frames = << >>
  /\ I = 0
  /\ D = [n \in Node |-> 0]
  /\ rep = [n \in Node |-> 0]
  /\ subNodes = [n \in Node |-> {}]
  /\ inSCC = {}
  /\ repNodes = {}
  /\ SS = << >> /\ T = << >>

-----------------------------------------------------------------------------
Children(v) == {w \in Node : <<v, w>> \in edges}

(* The first lines of visit(v), called from the frames below.              *)
Visit(v, below) ==
  /\ I' = I + 1
  /\ D' = [D EXCEPT ![v] = I + 1]
  /\ rep' = [rep EXCEPT ![v] = v]
  /\ subNodes' = [subNodes EXCEPT ![v] = @ \cup {v}]
  /\ frames' = Append(below, [node |-> v, todo |-> Children(v), pending |-> {}])
  /\ UNCHANGED <<edges, inSCC, repNodes, SS, T>>

(* find: the next node in the order of the graph's map that is unvisited.  *)
(* (The test for a representative set before has no effect: clear() has    *)
(* emptied _NodeSCCAuxInfo.)                                               *)
Start(v) ==
  /\ frames = << >>
  /\ v \notin Visited
  /\ \A w \in Node \ Visited : v <= w
  /\ Visit(v, << >>)

(* Faulty: the iterator is not advanced past a visited child.              *)
NextChildStuck(w) ==
  /\ frames # << >>
  /\ top.pending = {} /\ w \in top.todo
  /\ LET moved == [frames EXCEPT ![Len(frames)].todo = @ \ ({w} \ Visited),
                                 ![Len(frames)].pending = {w}]
     IN  IF w \notin Visited
         THEN Visit(w, moved)
         ELSE /\ frames' = moved
              /\ UNCHANGED <<edges, I, D, rep, subNodes, inSCC, repNodes, SS, T>>

(* The loop over the children of v goes on to w and visits it if needed.   *)
(* Edges are ordered by kind first, so the children come in any order.     *)
NextChild(w) ==
  /\ frames # << >>
  /\ top.pending = {} /\ w \in top.todo
  /\ LET moved == [frames EXCEPT ![Len(frames)].todo = @ \ {w},
                                 ![Len(frames)].pending = {w}]
     IN  IF w \notin Visited
         THEN Visit(w, moved)
         ELSE /\ frames' = moved
              /\ UNCHANGED <<edges, I, D, rep, subNodes, inSCC, repNodes, SS, T>>

(* rep(n, r) for n = v                                                     *)
SetRep(v, r) ==
  /\ rep' = [rep EXCEPT ![v] = r]
  /\ subNodes' = [n \in Node |-> IF n = v /\ v # r THEN {}
                                 ELSE IF n = r THEN subNodes[n] \cup {v}
                                 ELSE subNodes[n]]
  /\ repNodes' = IF v = r THEN repNodes ELSE (repNodes \ {v}) \cup {r}

(* Faulty: components that are complete are considered again.              *)
UseChildAgain(w) ==
  /\ frames # << >>
  /\ w \in top.pending
  /\ frames' = [frames EXCEPT ![Len(frames)].pending = {}]
  /\ LET v == top.node
     IN  SetRep(v, IF D[rep[v]] < D[rep[w]] THEN rep[v] ELSE rep[w])
  /\ UNCHANGED <<edges, I, D, inSCC, SS, T>>

(* Back from the visit of child w, if there was one: v takes over w's      *)
(* candidate root if that was visited before its own.                      *)
UseChild(w) ==
  /\ frames # << >>
  /\ w \in top.pending
  /\ frames' = [frames EXCEPT ![Len(frames)].pending = {}]
  /\ LET v == top.node
     IN  IF w \in inSCC
         THEN UNCHANGED <<rep, subNodes, repNodes>>
         ELSE SetRep(v, IF D[rep[v]] < D[rep[w]] THEN rep[v] ELSE rep[w])
  /\ UNCHANGED <<edges, I, D, inSCC, SS, T>>

(* Faulty: everything on the stack joins the component.                    *)
AboveAll(v) == 1 .. Len(SS)

(* The positions of SS above the last node visited no later than v.        *)
Above(v) == {i \in 1 .. Len(SS) : \A j \in i .. Len(SS) : D[SS[j]] > D[v]}

(* Faulty: a member of the component keeps the nodes it was a root for.    *)
CompleteUncleared ==
  /\ frames # << >> /\ top.todo = {} /\ top.pending = {} /\ rep[top.node] = top.node
  /\ LET v      == top.node
         popped == {SS[i] : i \in Above(v)}
     IN  /\ inSCC' = inSCC \cup {v} \cup popped
         /\ rep' = [n \in Node |-> IF n \in popped THEN v ELSE rep[n]]
         /\ subNodes' = [subNodes EXCEPT ![v] = @ \cup popped]
         /\ repNodes' = IF popped = {} THEN repNodes ELSE (repNodes \ popped) \cup {v}
         /\ SS' = SubSeq(SS, 1, Len(SS) - Cardinality(Above(v)))
         /\ T' = Append(T, v)
  /\ frames' = SubSeq(frames, 1, Len(frames) - 1)
  /\ UNCHANGED <<edges, I, D>>

(* The end of visit(v) if v is still its own root: the nodes on SS visited *)
(* after it are its component.                                             *)
Complete ==
  /\ frames # << >> /\ top.todo = {} /\ top.pending = {} /\ rep[top.node] = top.node
  /\ LET v      == top.node
         popped == {SS[i] : i \in Above(v)}
     IN  /\ inSCC' = inSCC \cup {v} \cup popped
         /\ rep' = [n \in Node |-> IF n \in popped THEN v ELSE rep[n]]
         /\ subNodes' = [n \in Node |-> IF n = v THEN subNodes[v] \cup popped
                                        ELSE IF n \in popped THEN {} ELSE subNodes[n]]
         /\ repNodes' = IF popped = {} THEN repNodes ELSE (repNodes \ popped) \cup {v}
         /\ SS' = SubSeq(SS, 1, Len(SS) - Cardinality(Above(v)))
         /\ T' = Append(T, v)
  /\ frames' = SubSeq(frames, 1, Len(frames) - 1)
  /\ UNCHANGED <<edges, I, D>>

(* Faulty: the node that was reached last ends up below its component.     *)
SuspendBelow ==
  /\ frames # << >> /\ top.todo = {} /\ top.pending = {} /\ rep[top.node] # top.node
  /\ SS' = <<top.node>> \o SS
  /\ frames' = SubSeq(frames, 1, Len(frames) - 1)
  /\ UNCHANGED <<edges, I, D, rep, subNodes, inSCC, repNodes, T>>

(* The end of visit(v) otherwise: v waits for its root.                    *)
Suspend ==
  /\ frames # << >> /\ top.todo = {} /\ top.pending = {} /\ rep[top.node] # top.node
  /\ SS' = Append(SS, top.node)
  /\ frames' = SubSeq(frames, 1, Len(frames) - 1)
  /\ UNCHANGED <<edges, I, D, rep, subNodes, inSCC, repNodes, T>>

Done == frames = << >> /\ Visited = Node

(* Faulty: a function that calls itself is not on a cycle.                 *)
isInCycleMulti(n) == \E m, k \in subNodes[rep[n]] : m # k

(* Whether n is on a cycle, as the users ask after the search.             *)
isInCycle(n) ==
  \/ \E m, k \in subNodes[rep[n]] : m # k
  \/ <<rep[n], rep[n]>> \in edges

Returned == Done /\ UNCHANGED vars

Next ==
  \/ \E n \in Node : Start(n) \/ NextChild(n) \/ UseChild(n)
  \/ Complete
  \/ Suspend
  \/ Returned

(* One thread searches and nothing blocks it.                              *)
Spec == Init /\ [][Next]_vars /\ WF_vars(Next)

-----------------------------------------------------------------------------
(* The detector answers what the solvers were told to expect: rep sends    *)
(* every node to one chosen member of its component.                       *)
DoneIsRootMap == Done => rep \in RootMaps(edges)

(* Each component is right as soon as it is complete, and the list of its  *)
(* members under the root is exact, though candidate roots collected and   *)
(* lost members all along the search.                                      *)
CompleteIsComponent ==
  LET scc == Components(edges)
  IN  \A n \in inSCC : /\ rep[n] \in scc[n]
                       /\ subNodes[rep[n]] = scc[n]
                       /\ n # rep[n] => subNodes[n] = {}

(* Taking nodes from the top of T, every edge between components leads     *)
(* downwards: this is the order a solver's pass relies on.                 *)
RootsAreTopological ==
  LET pos(n) == CHOOSE i \in 1 .. Len(T) : T[i] = rep[n]
  IN  \A e \in edges : e[1] \in inSCC =>
        e[2] \in inSCC /\ pos(e[2]) <= pos(e[1])

(* The query isInCycle, which decides whether a function is recursive,     *)
(* holds of the nodes on a cycle of the graph, self loops included.        *)
OnCycle(n) ==
  \E m \in Children(n) : \A S \in ClosedSets(edges) : m \in S => n \in S

CycleQueriesAreExact == Done => \A n \in Node : isInCycle(n) <=> OnCycle(n)

(* The search ends.                                                        *)
Termination == <>Done

=============================================================================
