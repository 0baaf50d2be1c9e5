------------------------------ MODULE SVFGOPT ------------------------------
(***************************************************************************)
(* The reduction of the value-flow graph before it is analysed, class      *)
(* SVFGOPT, for the nodes and edges of address-taken variables.            *)
(*                                                                         *)
(* handleInterValueFlow first connects the definition of every actual-in   *)
(* and formal-out directly with the other side of the call, and then       *)
(* removes the actual-in, actual-out and formal-in nodes nobody needs.     *)
(* Nodes at indirect call sites and of address-taken functions, and        *)
(* definitions of actual-in and formal-out nodes, are needed: edges are    *)
(* added at them when an indirect call is resolved.                        *)
(* handleIntraValueFlow then removes MSSAPHI nodes with a worklist.        *)
(*                                                                         *)
(* An edge stands for one object of its label: <<src, dst, context, obj>>, *)
(* where the context is Intra or the call or return of a call site; the    *)
(* code gives an edge at most one.                                         *)
(***************************************************************************)
EXTENDS FiniteSets, Naturals

CONSTANTS
  Node,
  Obj,
  Context,   \* calls and returns of call sites
  Intra,     \* no context: an edge within a function
  Programs

ASSUME IntraAssumption == Intra \notin Context

(* A call or return leads from an actual-in or formal-out to a formal-in   *)
(* or actual-out.  Nothing else leads to these, but for the edges from the *)
(* stores of global initializers to the formal-in nodes of the program's   *)
(* entry (connectFromGlobalToProgEntry).  An actual-in or formal-out uses  *)
(* one version of its region and has the definition of it.                 *)
ASSUME GraphAssumption ==
  \A p \in Programs :
    /\ DOMAIN p.kind \subseteq Node
    /\ p.edges \subseteq (DOMAIN p.kind) \X (DOMAIN p.kind) \X (Context \cup {Intra}) \X Obj
    /\ p.keepSelfCycle \in {"all", "context", "none"}
    /\ \A e \in p.edges :
         /\ e[3] # Intra <=> p.kind[e[1]] \in {"ain", "fout"}
         /\ e[3] # Intra => p.kind[e[2]] \in {"aout", "fin"}
         /\ e[3] = Intra => p.kind[e[2]] # "aout"
         /\ e[3] = Intra /\ p.kind[e[2]] = "fin" => p.kind[e[1]] = "store"
    /\ \A q \in p.later :
         /\ q \in (DOMAIN p.kind) \X p.needed \X Context
         /\ p.kind[q[1]] \in {"ain", "fout"}
         /\ q[2] \in DOMAIN p.kind /\ p.kind[q[2]] \in {"aout", "fin"}
         /\ p.label[q[1]] # {}
         /\ \E d \in DOMAIN p.kind :
              {e \in p.edges : e[2] = q[1]} = {<<d, q[1], Intra, o>> : o \in p.label[q[1]]}

ASSUME NodeAssumption == IsFiniteSet(Node)

VARIABLES
  prog,      \* kind, edges, label (of memory nodes), needed (actual-in and
             \* actual-out at indirect call sites, formal-in and formal-out
             \* of address-taken functions), later (the connections resolving
             \* indirect calls may add), keepSelfCycle, keepActualOutFormalIn
  nodes,
  edges,
  defs,      \* actualInToDefMap and formalOutToDefMap, as pairs
  todo,      \* candidates or nodesToBeDeleted still to be visited
  worklist,  \* FIFO order is abstracted
  phase      \* "retarget", "remove", "intra" or "done"

vars == <<prog, nodes, edges, defs, todo, worklist, phase>>

Of(kinds) == {n \in DOMAIN prog.kind : prog.kind[n] \in kinds}

TypeOK ==
  /\ prog \in Programs
  /\ nodes \subseteq DOMAIN prog.kind
  /\ edges \subseteq nodes \X nodes \X (Context \cup {Intra}) \X Obj
  /\ defs \subseteq Of({"ain", "fout"}) \X Node
  /\ todo \subseteq nodes
  /\ worklist \subseteq nodes
  /\ phase \in {"retarget", "remove", "intra", "done"}

(* SVFG::buildSVFG has been called.                                        *)
Init ==
  /\ prog \in Programs
  /\ nodes = DOMAIN prog.kind
  /\ edges = prog.edges
  /\ defs = {}
  /\ todo = Of({"ain", "fout"})
  /\ worklist = {}
  /\ phase = "retarget"

-----------------------------------------------------------------------------
InEdges(E, n)  == {e \in E : e[2] = n}
OutEdges(E, n) == {e \in E : e[1] = n}

(* removeAllEdges                                                          *)
Around(E, n) == InEdges(E, n) \cup OutEdges(E, n)

IsInter(e) == e[3] # Intra

isConnectingTwoCallSites(E, n) ==
  (\E e \in InEdges(E, n) : IsInter(e)) /\ (\E e \in OutEdges(E, n) : IsInter(e))

isDefOfAInFOut(n) == \E d \in defs : d[2] = n

(* Connect the sources of n's edges with their destinations, for the       *)
(* objects on both; Ctx says which of the two contexts the new edge gets.  *)
Joined(E, n, Ctx(_, _)) ==
  {<<p[1][1], p[2][2], Ctx(p[1][3], p[2][3]), p[1][4]>> :
     p \in {q \in InEdges(E, n) \X OutEdges(E, n) : q[1][4] = q[2][4]}}

Second(c, d) == d
First(c, d)  == c

Either(c, d) == IF c = Intra THEN d ELSE c

-----------------------------------------------------------------------------
(* retargetEdgesOfAInFOut: record the definition of an actual-in or        *)
(* formal-out and connect it with the formal-in or actual-out nodes.       *)
RetargetAInFOut(n) ==
  /\ phase = "retarget"
  /\ n \in todo
  /\ todo' = todo \ {n}
  /\ defs' = defs \cup {<<n, e[1]>> : e \in InEdges(edges, n)}
  /\ edges' = (edges \ Around(edges, n)) \cup Joined(edges, n, Second)
  /\ UNCHANGED <<prog, nodes, worklist, phase>>

(* Then the nodes to be deleted are visited; formal-out nodes stay.        *)
StartRemoving ==
  /\ phase = "retarget" /\ todo = {}
  /\ todo' = Of(IF prog.keepActualOutFormalIn THEN {"ain"} ELSE {"ain", "aout", "fin"})
  /\ phase' = "remove"
  /\ UNCHANGED <<prog, nodes, edges, defs, worklist>>

(* Faulty: nodes that the resolution of calls needs are removed.           *)
canBeRemovedAlways(n) ==
  /\ ~ isConnectingTwoCallSites(edges, n)
  /\ prog.kind[n] \in {"aout", "fin"} => ~ isDefOfAInFOut(n)

(* Faulty: a formal-in or actual-out goes although it is the definition of *)
(* an actual-in or formal-out, and calls or returns leave it.              *)
canBeRemovedDefining(n) ==
  /\ ~ isConnectingTwoCallSites(edges, n)
  /\ n \notin prog.needed

canBeRemoved(n) ==
  /\ ~ isConnectingTwoCallSites(edges, n)
  /\ n \notin prog.needed
  /\ prog.kind[n] \in {"aout", "fin"} => ~ isDefOfAInFOut(n)

(* One node: retargetEdgesOfAOutFIn if it is an actual-out or formal-in,   *)
(* removeAllEdges, removeSVFGNode.                                         *)
RemoveNode(n) ==
  /\ phase = "remove"
  /\ n \in todo
  /\ todo' = todo \ {n}
  /\ IF canBeRemoved(n)
     THEN /\ nodes' = nodes \ {n}
          /\ edges' = (edges \ Around(edges, n))
                        \cup (IF prog.kind[n] = "ain" THEN {} ELSE Joined(edges, n, First))
     ELSE UNCHANGED <<nodes, edges>>
  /\ UNCHANGED <<prog, defs, worklist, phase>>

-----------------------------------------------------------------------------
(* Faulty: a definition of an actual-in or formal-out is put on it.        *)
RemovableConnecting(E, n) == prog.kind[n] = "phi" /\ ~ isConnectingTwoCallSites(E, n)

(* addIntoWorklist puts only these nodes on the worklist.                  *)
Removable(E, n) ==
  prog.kind[n] = "phi" /\ ~ isConnectingTwoCallSites(E, n) /\ ~ isDefOfAInFOut(n)

(* initialWorkList                                                         *)
StartIntra ==
  /\ phase = "remove" /\ todo = {}
  /\ worklist' = {n \in nodes : Removable(edges, n)}
  /\ phase' = "intra"
  /\ UNCHANGED <<prog, nodes, edges, defs, todo>>

SelfEdges(n) == {e \in edges : e[1] = n /\ e[2] = n}

(* checkSelfCycleEdges: the self cycles the user wants to keep.            *)
KeptSelfEdges(n) ==
  CASE prog.keepSelfCycle = "all"     -> SelfEdges(n)
    [] prog.keepSelfCycle = "context" -> {e \in SelfEdges(n) : IsInter(e)}
    [] prog.keepSelfCycle = "none"    -> {}

(* Faulty: the node is read but not taken off.                             *)
Peeked(n) == worklist

Popped(n) == worklist \ {n}

(* A node with a kept self cycle stays; only the other self cycles go.     *)
SkipPHI(n) ==
  /\ phase = "intra"
  /\ n \in worklist
  /\ KeptSelfEdges(n) # {}
  /\ edges' = edges \ (SelfEdges(n) \ KeptSelfEdges(n))
  /\ worklist' = Popped(n)
  /\ UNCHANGED <<prog, nodes, defs, todo, phase>>

(* addNewSVFGEdge, of the edges s with context c and d with context e,     *)
(* added nothing to the graph.                                             *)
AddsNothing(E, n, s, d) ==
  \A o \in Obj : <<s[1], n, s[2], o>> \in E /\ <<n, d[1], d[2], o>> \in E =>
    <<s[1], d[1], Either(s[2], d[2]), o>> \in E

(* bypassMSSAPHINode pushes an end of an edge when no edge was added, and  *)
(* a node with incoming edges only, or outgoing edges only, the other end  *)
(* of each.  What may be pushed is decided on the graph before.            *)
PushedByRemoval(E, n) ==
  LET sources == {<<e[1], e[3]>> : e \in InEdges(E, n)}
      dests   == {<<e[2], e[3]>> : e \in OutEdges(E, n)}
  IN  {m \in nodes :
         /\ Removable(E, m)
         /\ IF sources # {} /\ dests # {}
            THEN \/ \E s \in sources, d \in dests : d[1] = m /\ AddsNothing(E, n, s, d)
                 \/ \E s \in sources : s[1] = m /\ \A d \in dests : AddsNothing(E, n, s, d)
            ELSE \E s \in sources \cup dests : s[1] = m}

(* Any other node on the worklist is bypassed and removed.                 *)
RemovePHI(n) ==
  LET E == edges \ SelfEdges(n)
  IN  /\ phase = "intra"
      /\ n \in worklist
      /\ KeptSelfEdges(n) = {}
      /\ edges' = (E \ Around(E, n)) \cup Joined(E, n, Either)
      /\ nodes' = nodes \ {n}
      /\ worklist' = Popped(n) \cup PushedByRemoval(E, n)
      /\ UNCHANGED <<prog, defs, todo, phase>>

EndIntra ==
  /\ phase = "intra" /\ worklist = {}
  /\ phase' = "done"
  /\ UNCHANGED <<prog, nodes, edges, defs, todo, worklist>>

(* The reduced graph is kept.                                              *)
Terminated == phase = "done" /\ UNCHANGED vars

Next ==
  \/ \E n \in nodes : RetargetAInFOut(n) \/ RemoveNode(n) \/ SkipPHI(n) \/ RemovePHI(n)
  \/ StartRemoving
  \/ StartIntra
  \/ EndIntra
  \/ Terminated

(* One thread reduces the graph and nothing blocks it.                     *)
Spec == Init /\ [][Next]_vars /\ WF_vars(Next)

-----------------------------------------------------------------------------
(* Value flow: what a store writes to o reaches n along edges of E that    *)
(* carry o and have no context but those of C, through no other store.     *)
Reach(E, o, C, store) ==
  LET Usable == {e \in E : /\ e[4] = o
                           /\ e[3] \in C \cup {Intra}
                           /\ e[1] = store \/ prog.kind[e[1]] # "store"}
      Step(R) == R \cup {e[2] : e \in {d \in Usable : d[1] \in R}}
      R[i \in 0..Cardinality(Node)] == IF i = 0 THEN {store} ELSE Step(R[i - 1])
  IN  R[Cardinality(Node)]

SameFlow(E, F) ==
  \A store \in Of({"store"}), o \in Obj, C \in SUBSET Context :
    Reach(E, o, C, store) \cap Of({"store", "load"}) = Reach(F, o, C, store) \cap Of({"store", "load"})

(* Every store reaches the same loads and stores as in the graph before    *)
(* the reduction, for every object and through the same calls and returns, *)
(* after each step of it.                                                  *)
FlowIsPreserved == SameFlow(edges, prog.edges)

(* A node is checked when it is put on the worklist and removed later:     *)
(* what happened in between has not made it the definition of a formal-out *)
(* or actual-in or given it calls or returns on both sides, which no edge  *)
(* can stand for (the assertion in addNewSVFGEdge).                        *)
StillRemovable ==
  \A n \in worklist : ~ isDefOfAInFOut(n) /\ ~ isConnectingTwoCallSites(edges, n)

(* The connections of a call resolved later: connectCallerAndCallee adds   *)
(* them at the formal-in and actual-out nodes and at the recorded          *)
(* definitions of the actual-in and formal-out nodes.                      *)
Connections(source) ==
  {<<source[p[1][1]], p[1][2], p[1][3], p[2]>> :
     p \in {q \in prog.later \X Obj : q[2] \in prog.label[q[1][1]] \cap prog.label[q[1][2]]}}

Itself == [n \in DOMAIN prog.kind |-> n]
DefOf  == [n \in {d[1] : d \in defs} |-> (CHOOSE d \in defs : d[1] = n)[2]]

(* Whatever indirect calls are resolved later, the nodes they are          *)
(* connected at are still there, and values flow as if the calls had been  *)
(* in the graph before it was reduced.                                     *)
LaterCallsAreConnected ==
  phase = "done" =>
    /\ \A p \in prog.later : {DefOf[p[1]], p[2]} \subseteq nodes
    /\ SameFlow(edges \cup Connections(DefOf), prog.edges \cup Connections(Itself))

(* The reduction ends although removing a node may put others back on the  *)
(* worklist.                                                               *)
Termination == <>(phase = "done")

=============================================================================
