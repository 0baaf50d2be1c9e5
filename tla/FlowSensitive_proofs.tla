------------------------ MODULE FlowSensitive_proofs ------------------------
(***************************************************************************)
(* Proofs about the flow-sensitive analysis, for every value-flow graph:   *)
(* its state is well formed, what has not been passed on is marked, and    *)
(* the result solves the value-flow equations.                             *)
(***************************************************************************)
EXTENDS FlowSensitive, FiniteSetTheorems, WellFoundedInduction, TLAPS

-----------------------------------------------------------------------------
(* The variables a node uses are among those direct edges are built from.  *)
OperandsInv == \A n \in Node : stmt[n].uses \subseteq operands[n]

FreshInv == phase # "connect" => fresh = {}

(* A node that does not wait to be processed holds.                        *)
NodesInv == phase # "connect" => \A n \in Node \ Pending : NodeHolds(n)

GraphInv == TypeOK /\ OperandsInv /\ FreshInv

LEMMA StatementFields ==
  ASSUME TypeOK, NEW n \in Node
  PROVE  StatementOK(stmt[n])
BY GraphAssumption DEF TypeOK, stmt

LEMMA EdgeFields ==
  ASSUME TypeOK, NEW e \in edges
  PROVE  /\ e = <<e[1], e[2], e[3]>>
         /\ e[1] \in Node /\ e[2] \in Node /\ e[3] \subseteq Obj
         /\ stmt[e[1]].kind \in {"store", "pass"}
BY DEF TypeOK, Edges, stmt

LEMMA LabelType ==
  ASSUME TypeOK, NEW E \in SUBSET edges, NEW n, NEW m
  PROVE  Label(E, n, m) \subseteq Obj
BY EdgeFields DEF Label

(* An edge carries its objects.                                            *)
LEMMA LabelHas ==
  ASSUME NEW E, NEW e \in E, NEW o \in e[3]
  PROVE  o \in Label(E, e[1], e[2])
BY DEF Label

LEMMA FlowType ==
  ASSUME TypeOK, NEW n \in Node
  PROVE  Flow(n) \in [Obj -> SUBSET Obj]
BY DEF TypeOK, Flow

-----------------------------------------------------------------------------
(* What sending does: IN of the other ends grows by what flow says of the  *)
(* news, and nothing else changes.                                         *)
LEMMA SentGrows ==
  ASSUME TypeOK, NEW E \in SUBSET edges, NEW n \in Node,
         NEW flow \in [Obj -> SUBSET Obj], NEW news,
         dfIn' = Sent(E, n, flow, news)
  PROVE  /\ dfIn' \in [Node -> [Obj -> SUBSET Obj]]
         /\ \A m \in Node : \A o \in Obj :
              /\ dfIn[m][o] \subseteq dfIn'[m][o]
              /\ o \in Label(E, n, m) /\ o \in news => flow[o] \subseteq dfIn'[m][o]
<1>1. \A m \in Node : Label(E, n, m) \subseteq Obj
  BY LabelType
<1>2. dfIn \in [Node -> [Obj -> SUBSET Obj]]
  BY DEF TypeOK
<1>3. \A m \in Node : \A o \in Obj :
        dfIn'[m][o] = IF o \in Label(E, n, m) \cap news THEN dfIn[m][o] \cup flow[o] ELSE dfIn[m][o]
  BY DEF Sent
<1>4. \A m \in Node : dfIn'[m] \in [Obj -> SUBSET Obj]
  <2> SUFFICES ASSUME NEW m \in Node PROVE dfIn'[m] \in [Obj -> SUBSET Obj]
    OBVIOUS
  <2>1. dfIn'[m] = [o \in Obj |-> IF o \in Label(E, n, m) \cap news
                                  THEN dfIn[m][o] \cup flow[o] ELSE dfIn[m][o]]
    BY DEF Sent
  <2> QED BY <2>1, <1>2
<1>5. dfIn' \in [Node -> [Obj -> SUBSET Obj]]
  BY <1>4 DEF Sent
<1> QED BY <1>3, <1>5

(* Sending its own IN does not change a node's IN.                         *)
LEMMA SentToSelf ==
  ASSUME TypeOK, NEW E \in SUBSET edges, NEW n \in Node, NEW news,
         dfIn' = Sent(E, n, dfIn[n], news)
  PROVE  \A o \in Obj : dfIn'[n][o] = dfIn[n][o]
BY LabelType DEF Sent, TypeOK

LEMMA ChangedMarked ==
  ASSUME NEW m \in Node, NEW o \in Obj, dfIn'[m][o] # dfIn[m][o], NEW E, NEW n
  PROVE  o \in Changed(m) /\ m \in Reached(E, n)
BY DEF Changed, Reached

-----------------------------------------------------------------------------
LEMMA InitInv == Init => GraphInv /\ MissingIsMarked /\ NodesInv
<1> SUFFICES ASSUME Init PROVE GraphInv /\ MissingIsMarked /\ NodesInv
  OBVIOUS
<1>1. prog \in Programs /\ edges = prog.edges
  BY DEF Init
<1>2. edges \subseteq Edges(prog)
  BY <1>1, GraphAssumption
<1>3. \A n \in Node : prog.stmt[n].uses \subseteq Var
  BY <1>1, GraphAssumption DEF StatementOK
<1>4. TypeOK
  BY <1>1, <1>2, <1>3 DEF Init, TypeOK
<1>5. OperandsInv /\ FreshInv /\ NodesInv
  BY DEF Init, OperandsInv, FreshInv, NodesInv, stmt
<1>6. \A e \in edges : \A o \in e[3] : Flow(e[1])[o] \subseteq dfIn[e[2]][o]
  BY <1>4, EdgeFields DEF Init, Flow
<1>7. MissingIsMarked
  BY <1>6 DEF Init, MissingIsMarked, Of
<1> QED BY <1>4, <1>5, <1>7 DEF GraphInv

-----------------------------------------------------------------------------
(* Types.                                                                  *)
LEMMA DirectSuccsType == \A n : DirectSuccs(n) \subseteq Node
BY DEF DirectSuccs

LEMMA ReachedType == \A E, n : Reached(E, n) \subseteq Node
BY DEF Reached

LEMMA TakeType ==
  ASSUME TypeOK, NEW n \in Node, NEW pushed \in SUBSET Node, Take(n, pushed)
  PROVE  stack' \subseteq Node /\ worklist' \subseteq Node
BY DEF Take, TypeOK

LEMMA DefineKeeps ==
  ASSUME GraphInv, NEW n \in Node, NEW S \in SUBSET Obj, Define(n, S),
         UNCHANGED <<dfIn, dfOut>>, inNew' \in [Node -> SUBSET Obj]
  PROVE  GraphInv'
<1>1. Take(n, IF \E v \in stmt[n].defs : ~ (S \subseteq pts[v]) THEN DirectSuccs(n) ELSE {})
  BY DEF Define
<1>2. stack' \subseteq Node /\ worklist' \subseteq Node
  BY <1>1, TakeType, DirectSuccsType DEF GraphInv
<1>3. pts' \in [Var -> SUBSET Obj]
  BY DEF Define, GraphInv, TypeOK
<1>4. UNCHANGED <<graph, phase>>
  BY <1>1 DEF Take
<1> QED BY <1>2, <1>3, <1>4 DEF GraphInv, TypeOK, OperandsInv, FreshInv, graph, stmt, Edges

LEMMA TopLevelType ==
  ASSUME TypeOK, NEW n \in Node, stmt[n].kind \in {"addr", "copy", "gep"}
  PROVE  TopLevelResult(n) \in SUBSET Obj
<1>1. StatementOK(stmt[n])
  BY StatementFields
<1>2. Sources(n) \subseteq Obj
  BY DEF Sources, TypeOK
<1>3. CASE stmt[n].kind = "addr"
  BY <1>1, <1>3 DEF TopLevelResult, StatementOK
<1>4. CASE stmt[n].kind = "copy"
  BY <1>2, <1>4 DEF TopLevelResult
<1>5. CASE stmt[n].kind = "gep"
  BY <1>1, <1>2, <1>5 DEF TopLevelResult, StatementOK
<1> QED BY <1>3, <1>4, <1>5

LEMMA LoadType ==
  ASSUME TypeOK, NEW n \in Node
  PROVE  UNION {dfIn[n][o] : o \in Loaded(n)} \in SUBSET Obj
<1>1. Loaded(n) \subseteq Obj
  BY DEF Loaded, TypeOK
<1> QED BY <1>1 DEF TypeOK

LEMMA StoreType ==
  ASSUME TypeOK, NEW n \in Node, stmt[n].kind = "store"
  PROVE  StoreOut(n) \in [Obj -> SUBSET Obj]
<1>1. stmt[n].val \in Var
  BY StatementFields DEF StatementOK
<1> QED BY <1>1 DEF StoreOut, TypeOK

LEMMA StoreKeeps ==
  ASSUME GraphInv, NEW n \in Node, ProcessStore(n)
  PROVE  GraphInv'
<1> USE DEF GraphInv
<1>1. Take(n, Reached(edges, n))
  BY DEF ProcessStore
<1>2. stack' \subseteq Node /\ worklist' \subseteq Node
  BY <1>1, TakeType, ReachedType
<1>3. UNCHANGED <<graph, phase, pts>>
  BY <1>1 DEF Take, ProcessStore
<1>4. dfIn' \in [Node -> [Obj -> SUBSET Obj]] /\ dfOut' \in [Node -> [Obj -> SUBSET Obj]]
      /\ inNew' \in [Node -> SUBSET Obj]
  <2>1. CASE StoreHasTarget(n)
    <3> DEFINE out  == StoreOut(n)
               news == {o \in Obj : out[o] # dfOut[n][o]}
    <3>1. /\ dfOut' = [dfOut EXCEPT ![n] = out]
          /\ dfIn' = Sent(edges, n, out, news)
          /\ inNew' = [m \in Node |-> Changed(m) \cup (IF m = n THEN inNew[n] \ ClearedAtStore(n)
                                                                 ELSE inNew[m])]
      BY <2>1 DEF ProcessStore
    <3>2. out \in [Obj -> SUBSET Obj]
      BY StoreType DEF ProcessStore
    <3> HIDE DEF out, news
    <3>3. dfIn' \in [Node -> [Obj -> SUBSET Obj]]
      BY <3>1, <3>2, SentGrows
    <3>4. dfOut' \in [Node -> [Obj -> SUBSET Obj]]
      BY <3>1, <3>2 DEF TypeOK
    <3>5. inNew' \in [Node -> SUBSET Obj]
      BY <3>1 DEF Changed, TypeOK
    <3> QED BY <3>3, <3>4, <3>5
  <2>2. CASE ~StoreHasTarget(n)
    BY <2>2 DEF ProcessStore, TypeOK
  <2> QED BY <2>1, <2>2
<1> QED BY <1>2, <1>3, <1>4 DEF TypeOK, OperandsInv, FreshInv, graph, stmt, Edges

LEMMA PassKeeps ==
  ASSUME GraphInv, NEW n \in Node, ProcessPass(n)
  PROVE  GraphInv'
<1> USE DEF GraphInv
<1>1. Take(n, Reached(edges, n))
  BY DEF ProcessPass
<1>2. stack' \subseteq Node /\ worklist' \subseteq Node
  BY <1>1, TakeType, ReachedType
<1>3. UNCHANGED <<graph, phase, pts, dfOut>>
  BY <1>1 DEF Take, ProcessPass
<1>4. dfIn[n] \in [Obj -> SUBSET Obj]
  BY DEF TypeOK
<1>5. dfIn' \in [Node -> [Obj -> SUBSET Obj]]
  BY <1>4, SentGrows DEF ProcessPass
<1>6. inNew' \in [Node -> SUBSET Obj]
  BY DEF ProcessPass, Changed, TypeOK
<1> QED BY <1>2, <1>3, <1>5, <1>6 DEF TypeOK, OperandsInv, FreshInv, graph, stmt, Edges

LEMMA ProcessNodeKeeps ==
  ASSUME GraphInv, NEW n \in Node, ProcessNode(n)
  PROVE  GraphInv'
<1>1. CASE ProcessTopLevel(n)
  <2>1. TopLevelResult(n) \in SUBSET Obj
    BY <1>1, TopLevelType DEF ProcessTopLevel, GraphInv
  <2>2. inNew' \in [Node -> SUBSET Obj]
    BY <1>1 DEF ProcessTopLevel, GraphInv, TypeOK
  <2> QED BY <1>1, <2>1, <2>2, DefineKeeps DEF ProcessTopLevel
<1>2. CASE ProcessLoad(n)
  <2>1. UNION {dfIn[n][o] : o \in Loaded(n)} \in SUBSET Obj
    BY LoadType DEF GraphInv
  <2>2. inNew' \in [Node -> SUBSET Obj]
    BY <1>2 DEF ProcessLoad, GraphInv, TypeOK
  <2> QED BY <1>2, <2>1, <2>2, DefineKeeps DEF ProcessLoad
<1>3. CASE ProcessStore(n)
  BY <1>3, StoreKeeps
<1>4. CASE ProcessPass(n)
  BY <1>4, PassKeeps
<1> QED BY <1>1, <1>2, <1>3, <1>4 DEF ProcessNode

LEMMA UpdateCallGraphKeeps ==
  ASSUME GraphInv, UpdateCallGraph
  PROVE  GraphInv'
<1> USE DEF GraphInv
<1>1. prog \in Programs /\ prog' = prog
  BY DEF TypeOK, UpdateCallGraph
<1> DEFINE added == (UNION {prog.callee[f].edges : f \in NewCallees}) \ edges
<1>2. NewCallees \subseteq DOMAIN prog.callee
  BY DEF NewCallees
<1>3. added \subseteq Edges(prog)
  BY <1>1, <1>2, GraphAssumption
<1>4. edges' = edges \cup added /\ fresh' = added
  BY DEF UpdateCallGraph, Connected
<1>5. edges' \subseteq Edges(prog)' /\ fresh' \subseteq edges'
  BY <1>1, <1>3, <1>4 DEF TypeOK, Edges
<1>6. operands' \in [Node -> SUBSET Var] /\ OperandsInv'
  BY <1>1 DEF UpdateCallGraph, TypeOK, OperandsInv, stmt
<1>7. FreshInv'
  <2>1. CASE NewCallees = {}
    BY <2>1, <1>4 DEF FreshInv
  <2>2. CASE NewCallees # {}
    BY <2>2 DEF UpdateCallGraph, FreshInv
  <2> QED BY <2>1, <2>2
<1>8. resolved' \subseteq DOMAIN prog.callee /\ worklist' \subseteq Node
      /\ phase' \in {"connect", "solve", "done"}
  BY <1>2 DEF UpdateCallGraph, TypeOK
<1>9. UNCHANGED <<pts, dfIn, dfOut, inNew, stack, recursive>>
  BY DEF UpdateCallGraph
<1> QED BY <1>1, <1>5, <1>6, <1>7, <1>8, <1>9 DEF TypeOK

LEMMA UpdateConnectedNodeKeeps ==
  ASSUME GraphInv, NEW e \in edges, UpdateConnectedNode(e)
  PROVE  GraphInv'
<1> USE DEF GraphInv
<1>1. e[1] \in Node
  BY EdgeFields
<1>2. Flow(e[1]) \in [Obj -> SUBSET Obj]
  BY <1>1, FlowType
<1>3. dfIn' \in [Node -> [Obj -> SUBSET Obj]]
  BY <1>1, <1>2, SentGrows DEF UpdateConnectedNode
<1>4. inNew' \in [Node -> SUBSET Obj]
  BY DEF UpdateConnectedNode, Changed, TypeOK
<1>5. worklist' \subseteq Node
  BY ReachedType DEF UpdateConnectedNode, TypeOK
<1>6. UNCHANGED <<prog, operands, edges, pts, dfOut, stack, resolved, recursive, phase>>
      /\ phase = "connect" /\ fresh' \subseteq fresh
  BY DEF UpdateConnectedNode
<1> QED BY <1>3, <1>4, <1>5, <1>6 DEF TypeOK, OperandsInv, FreshInv, stmt, Edges

LEMMA FindSCCKeeps ==
  ASSUME GraphInv, FindSCC
  PROVE  GraphInv'
<1>1. recursive' \subseteq Obj
  BY GraphAssumption DEF FindSCC, GraphInv, TypeOK
<1> QED BY <1>1 DEF FindSCC, GraphInv, TypeOK, OperandsInv, FreshInv, stmt, Edges

LEMMA NextKeepsGraph == GraphInv /\ [Next]_vars => GraphInv'
<1> SUFFICES ASSUME GraphInv, [Next]_vars PROVE GraphInv'
  OBVIOUS
<1>1. CASE FindSCC
  BY <1>1, FindSCCKeeps
<1>2. ASSUME NEW n \in Node, ProcessNode(n) PROVE GraphInv'
  BY <1>2, ProcessNodeKeeps
<1>3. CASE UpdateCallGraph
  BY <1>3, UpdateCallGraphKeeps
<1>4. ASSUME NEW e \in edges, UpdateConnectedNode(e) PROVE GraphInv'
  BY <1>4, UpdateConnectedNodeKeeps
<1>5. CASE UNCHANGED vars
  BY <1>5 DEF vars, graph, GraphInv, TypeOK, OperandsInv, FreshInv, stmt, Edges
<1> QED BY <1>1, <1>2, <1>3, <1>4, <1>5 DEF Next, Terminated

(* The state is well typed for every set of value-flow graphs: sets of     *)
(* nodes, variables and objects, and only memory nodes and stores have     *)
(* indirect edges, also after calls are connected.                         *)
THEOREM TypeCorrect == Spec => []TypeOK
<1>1. Init => GraphInv
  BY InitInv
<1>2. GraphInv /\ [Next]_vars => GraphInv'
  BY NextKeepsGraph
<1>3. GraphInv => TypeOK
  BY DEF GraphInv
<1> QED BY <1>1, <1>2, <1>3, PTL DEF Spec

-----------------------------------------------------------------------------
(* What has not been passed on is marked: the parts of MissingIsMarked.    *)
EdgeOK(e) ==
  \A o \in e[3] :
    \/ Flow(e[1])[o] \subseteq dfIn[e[2]][o]
    \/ stmt[e[1]].kind = "pass" /\ o \in inNew[e[1]] /\ e[1] \in Pending

LoadOK(n) == \A v \in stmt[n].defs : \A o \in Obj : dfIn[n][o] \subseteq pts[v] \/ o \in inNew[n]

StoreOK(n) == \A o \in Obj : dfIn[n][o] \subseteq dfOut[n][o] \/ o \in inNew[n]

LEMMA MissingParts ==
  MissingIsMarked <=>
    /\ \A e \in edges \ fresh : EdgeOK(e)
    /\ \A n \in Of("load") : LoadOK(n)
    /\ \A n \in Of("store") : StoreOK(n)
BY DEF MissingIsMarked, EdgeOK, LoadOK, StoreOK

LEMMA MissingPartsPrimed ==
  ASSUME UNCHANGED prog,
         \A e \in edges' \ fresh' : EdgeOK(e)',
         \A n \in Of("load") : LoadOK(n)',
         \A n \in Of("store") : StoreOK(n)'
  PROVE  MissingIsMarked'
<1>1. Of("load")' = Of("load") /\ Of("store")' = Of("store")
  BY DEF Of, stmt
<1> QED BY <1>1 DEF MissingIsMarked, EdgeOK, LoadOK, StoreOK

(* A step in which IN grows, marked, and nothing else that matters to a    *)
(* node changes.                                                           *)
Marked(m) ==
  \A o \in Obj : /\ dfIn[m][o] \subseteq dfIn'[m][o]
                 /\ dfIn'[m][o] = dfIn[m][o] \/ (o \in inNew'[m] /\ m \in worklist')

(* An edge that is already there stays right if IN grows marked, its       *)
(* source keeps its mark and its place in the queue, and a store at the    *)
(* source keeps its OUT.                                                   *)
LEMMA EdgeStays ==
  ASSUME TypeOK, NEW e \in edges, EdgeOK(e), UNCHANGED prog,
         Marked(e[1]), Marked(e[2]),
         inNew[e[1]] \subseteq inNew'[e[1]] \/ stmt[e[1]].kind # "pass",
         e[1] \in Pending => e[1] \in Pending',
         dfOut'[e[1]] = dfOut[e[1]] \/ stmt[e[1]].kind # "store"
  PROVE  EdgeOK(e)'
<1>1. e[1] \in Node /\ e[2] \in Node /\ e[3] \subseteq Obj /\ stmt[e[1]].kind \in {"store", "pass"}
  BY EdgeFields
<1> SUFFICES ASSUME NEW o \in e[3]
             PROVE  \/ Flow(e[1])'[o] \subseteq dfIn'[e[2]][o]
                    \/ stmt'[e[1]].kind = "pass" /\ o \in inNew'[e[1]] /\ e[1] \in Pending'
  BY DEF EdgeOK
<1>2. o \in Obj /\ stmt' = stmt
  BY <1>1 DEF stmt
<1>3. dfIn[e[2]][o] \subseteq dfIn'[e[2]][o]
  BY <1>2 DEF Marked
<1>4. CASE stmt[e[1]].kind = "store"
  <2>1. Flow(e[1])[o] \subseteq dfIn[e[2]][o]
    BY <1>4 DEF EdgeOK
  <2>2. Flow(e[1])' = dfOut[e[1]] /\ Flow(e[1]) = dfOut[e[1]]
    BY <1>2, <1>4 DEF Flow
  <2> QED BY <2>1, <2>2, <1>3
<1>5. CASE stmt[e[1]].kind = "pass"
  <2>1. Flow(e[1])' = dfIn'[e[1]] /\ Flow(e[1]) = dfIn[e[1]]
    BY <1>2, <1>5 DEF Flow
  <2>2. CASE dfIn'[e[1]][o] # dfIn[e[1]][o]
    BY <1>2, <1>5, <2>2 DEF Marked, Pending
  <2>3. CASE dfIn'[e[1]][o] = dfIn[e[1]][o]
    <3>1. CASE Flow(e[1])[o] \subseteq dfIn[e[2]][o]
      BY <2>1, <2>3, <3>1, <1>3
    <3>2. CASE o \in inNew[e[1]] /\ e[1] \in Pending
      BY <3>2, <1>2, <1>5
    <3> QED BY <3>1, <3>2 DEF EdgeOK
  <2> QED BY <2>2, <2>3
<1> QED BY <1>1, <1>4, <1>5

(* Likewise a load whose variable does not shrink, and a store.            *)
LEMMA LoadStays ==
  ASSUME NEW n \in Node, LoadOK(n), UNCHANGED prog, Marked(n),
         inNew[n] \subseteq inNew'[n],
         \A v \in stmt[n].defs : pts[v] \subseteq pts'[v]
  PROVE  LoadOK(n)'
BY DEF LoadOK, Marked, stmt

LEMMA StoreStays ==
  ASSUME NEW n \in Node, StoreOK(n), UNCHANGED prog, Marked(n),
         inNew[n] \subseteq inNew'[n], dfOut'[n] = dfOut[n]
  PROVE  StoreOK(n)'
BY DEF StoreOK, Marked

-----------------------------------------------------------------------------
(* Taking a node leaves the others where they are.                         *)
LEMMA TakeKeepsPending ==
  ASSUME NEW n \in Node, NEW pushed, Take(n, pushed)
  PROVE  /\ \A m \in Pending : m # n => m \in Pending'
         /\ pushed \subseteq Pending' /\ n \in Pending
         /\ pushed \subseteq worklist'
         /\ UNCHANGED <<graph, phase>> /\ phase = "solve"
BY DEF Take, Pending

(* Sending marks what changed.                                             *)
LEMMA SentMarked ==
  ASSUME TypeOK, NEW E \in SUBSET edges, NEW n \in Node,
         NEW flow \in [Obj -> SUBSET Obj], NEW news, dfIn' = Sent(E, n, flow, news),
         \A m \in Node : Changed(m) \subseteq inNew'[m],
         Reached(E, n) \subseteq worklist'
  PROVE  \A m \in Node : Marked(m)
<1> SUFFICES ASSUME NEW m \in Node, NEW o \in Obj
             PROVE  /\ dfIn[m][o] \subseteq dfIn'[m][o]
                    /\ dfIn'[m][o] = dfIn[m][o] \/ (o \in inNew'[m] /\ m \in worklist')
  BY DEF Marked
<1>1. dfIn[m][o] \subseteq dfIn'[m][o]
  BY SentGrows
<1>2. ASSUME dfIn'[m][o] # dfIn[m][o] PROVE o \in inNew'[m] /\ m \in worklist'
  BY <1>2, ChangedMarked
<1> QED BY <1>1, <1>2

LEMMA UnchangedMarked ==
  ASSUME UNCHANGED dfIn
  PROVE  \A m \in Node : Marked(m)
BY DEF Marked

(* The variables only grow.                                                *)
LEMMA DefineGrows ==
  ASSUME TypeOK, NEW n \in Node, NEW S, Define(n, S)
  PROVE  /\ \A v \in Var : pts[v] \subseteq pts'[v]
         /\ \A v \in stmt[n].defs : S \subseteq pts'[v]
<1>1. stmt[n].defs \subseteq Var
  BY StatementFields DEF StatementOK
<1> QED BY <1>1 DEF Define

LEMMA TopLevelMarks ==
  ASSUME GraphInv, MissingIsMarked, NEW n \in Node, ProcessTopLevel(n)
  PROVE  MissingIsMarked'
<1> USE DEF GraphInv
<1>1. Define(n, TopLevelResult(n)) /\ UNCHANGED <<dfIn, dfOut, inNew>>
      /\ stmt[n].kind \in {"addr", "copy", "gep"}
  BY DEF ProcessTopLevel
<1>2. PICK pushed : Take(n, pushed)
  BY <1>1 DEF Define
<1>3. UNCHANGED <<prog, edges, fresh>> /\ stmt' = stmt
  BY <1>2, TakeKeepsPending DEF graph, stmt
<1>4. \A m \in Node : Marked(m)
  BY <1>1, UnchangedMarked
<1>5. ASSUME NEW e \in edges \ fresh PROVE EdgeOK(e)'
  <2>1. EdgeOK(e) /\ e[1] \in Node /\ e[2] \in Node /\ e[1] # n
    BY MissingParts, EdgeFields, <1>1
  <2>2. e[1] \in Pending => e[1] \in Pending'
    BY <1>2, <2>1, TakeKeepsPending
  <2> QED BY <1>1, <1>3, <1>4, <2>1, <2>2, EdgeStays
<1>6. ASSUME NEW m \in Of("load") PROVE LoadOK(m)'
  <2>1. m \in Node /\ LoadOK(m) /\ stmt[m].defs \subseteq Var
    BY MissingParts, StatementFields DEF Of, StatementOK
  <2> QED BY <1>1, <1>3, <1>4, <2>1, DefineGrows, LoadStays
<1>7. ASSUME NEW m \in Of("store") PROVE StoreOK(m)'
  <2>1. m \in Node /\ StoreOK(m)
    BY MissingParts DEF Of
  <2> QED BY <1>1, <1>3, <1>4, <2>1, StoreStays
<1> QED BY <1>3, <1>5, <1>6, <1>7, MissingPartsPrimed

LEMMA LoadMarks ==
  ASSUME GraphInv, MissingIsMarked, NEW n \in Node, ProcessLoad(n)
  PROVE  MissingIsMarked'
<1> USE DEF GraphInv
<1> DEFINE S == UNION {dfIn[n][o] : o \in Loaded(n)}
<1>1. Define(n, S) /\ UNCHANGED <<dfIn, dfOut>> /\ stmt[n].kind = "load"
      /\ inNew' = [inNew EXCEPT ![n] = @ \ Loaded(n)]
  BY DEF ProcessLoad
<1> HIDE DEF S
<1>2. PICK pushed : Take(n, pushed)
  BY <1>1 DEF Define
<1>3. UNCHANGED <<prog, edges, fresh>> /\ stmt' = stmt
  BY <1>2, TakeKeepsPending DEF graph, stmt
<1>4. \A m \in Node : Marked(m)
  BY <1>1, UnchangedMarked
<1>5. \A m \in Node : m # n => inNew'[m] = inNew[m]
  BY <1>1 DEF TypeOK
<1>6. ASSUME NEW e \in edges \ fresh PROVE EdgeOK(e)'
  <2>1. EdgeOK(e) /\ e[1] \in Node /\ e[2] \in Node /\ e[1] # n
    BY MissingParts, EdgeFields, <1>1
  <2>2. e[1] \in Pending => e[1] \in Pending'
    BY <1>2, <2>1, TakeKeepsPending
  <2> QED BY <1>1, <1>3, <1>4, <1>5, <2>1, <2>2, EdgeStays
<1>7. ASSUME NEW m \in Of("load") PROVE LoadOK(m)'
  <2>1. m \in Node /\ LoadOK(m) /\ stmt[m].defs \subseteq Var
    BY MissingParts, StatementFields DEF Of, StatementOK
  <2>2. CASE m # n
    BY <1>1, <1>3, <1>4, <1>5, <2>1, <2>2, DefineGrows, LoadStays
  <2>3. CASE m = n
    <3> SUFFICES ASSUME NEW v \in stmt[n].defs, NEW o \in Obj
                 PROVE  dfIn[n][o] \subseteq pts'[v] \/ o \in inNew'[n]
      BY <1>1, <1>3, <2>3 DEF LoadOK
    <3>1. pts[v] \subseteq pts'[v] /\ S \subseteq pts'[v]
      BY <1>1, <2>1, <2>3, DefineGrows
    <3>2. CASE o \in Loaded(n)
      <4>1. dfIn[n][o] \subseteq S
        BY <3>2 DEF S
      <4> QED BY <3>1, <4>1
    <3>3. CASE o \notin Loaded(n)
      <4>1. o \in inNew[n] => o \in inNew'[n]
        BY <1>1, <3>3 DEF TypeOK
      <4> QED BY <2>1, <2>3, <3>1, <4>1 DEF LoadOK
    <3> QED BY <3>2, <3>3
  <2> QED BY <2>2, <2>3
<1>8. ASSUME NEW m \in Of("store") PROVE StoreOK(m)'
  <2>1. m \in Node /\ StoreOK(m) /\ m # n
    BY <1>1, MissingParts DEF Of
  <2> QED BY <1>1, <1>3, <1>4, <1>5, <2>1, StoreStays
<1> QED BY <1>3, <1>6, <1>7, <1>8, MissingPartsPrimed

LEMMA StoreMarks ==
  ASSUME GraphInv, MissingIsMarked, NEW n \in Node, ProcessStore(n)
  PROVE  MissingIsMarked'
<1> USE DEF GraphInv
<1>1. Take(n, Reached(edges, n)) /\ stmt[n].kind = "store" /\ UNCHANGED pts
  BY DEF ProcessStore
<1>2. UNCHANGED <<prog, edges, fresh>> /\ stmt' = stmt
  BY <1>1, TakeKeepsPending DEF graph, stmt
<1>3. \A m \in Pending : m # n => m \in Pending'
  BY <1>1, TakeKeepsPending
<1>4. \A m \in Node : stmt[m].defs \subseteq Var
  BY StatementFields DEF StatementOK
<1>5. CASE ~StoreHasTarget(n)
  <2>1. UNCHANGED <<dfIn, dfOut, inNew>>
    BY <1>5 DEF ProcessStore
  <2>2. \A m \in Node : Marked(m)
    BY <2>1, UnchangedMarked
  <2>3. ASSUME NEW e \in edges \ fresh PROVE EdgeOK(e)'
    <3>1. EdgeOK(e) /\ e[1] \in Node /\ e[2] \in Node
      BY MissingParts, EdgeFields
    <3>2. CASE e[1] # n
      BY <1>1, <1>2, <1>3, <2>1, <2>2, <3>1, <3>2, EdgeStays
    <3>3. CASE e[1] = n
      BY <1>1, <1>2, <2>1, <3>1, <3>3 DEF EdgeOK, Flow
    <3> QED BY <3>2, <3>3
  <2>4. ASSUME NEW m \in Of("load") PROVE LoadOK(m)'
    BY <1>1, <1>2, <2>1, <2>2, MissingParts, LoadStays DEF Of
  <2>5. ASSUME NEW m \in Of("store") PROVE StoreOK(m)'
    BY <1>2, <2>1, <2>2, MissingParts, StoreStays DEF Of
  <2> QED BY <1>2, <2>3, <2>4, <2>5, MissingPartsPrimed
<1>6. CASE StoreHasTarget(n)
  <2> DEFINE out  == StoreOut(n)
             news == {o \in Obj : out[o] # dfOut[n][o]}
  <2>1. /\ dfOut' = [dfOut EXCEPT ![n] = out]
        /\ dfIn' = Sent(edges, n, out, news)
        /\ inNew' = [m \in Node |-> Changed(m) \cup (IF m = n THEN inNew[n] \ ClearedAtStore(n)
                                                               ELSE inNew[m])]
    BY <1>6 DEF ProcessStore
  <2>2. out \in [Obj -> SUBSET Obj]
    BY <1>1, StoreType
  <2>3. /\ \A o \in Obj : dfOut[n][o] \subseteq out[o]
        /\ \A o \in MergedIn(n) : o \in Obj => dfIn[n][o] \subseteq out[o]
    BY DEF StoreOut
  <2>4. \A o \in Obj : o \notin news => out[o] = dfOut[n][o]
    OBVIOUS
  <2> HIDE DEF out, news
  <2>5. \A m \in Node : Changed(m) \subseteq inNew'[m]
    BY <2>1
  <2>6. Reached(edges, n) \subseteq worklist'
    BY <1>1, TakeKeepsPending
  <2>7. \A m \in Node : Marked(m)
    BY <2>1, <2>2, <2>5, <2>6, SentMarked
  <2>8. \A m \in Node : m # n => inNew[m] \subseteq inNew'[m] /\ dfOut'[m] = dfOut[m]
    BY <2>1 DEF TypeOK
  <2>9. dfOut'[n] = out
    BY <2>1 DEF TypeOK
  <2>10. ASSUME NEW e \in edges \ fresh PROVE EdgeOK(e)'
    <3>1. EdgeOK(e) /\ e[1] \in Node /\ e[2] \in Node /\ e[3] \subseteq Obj
      BY MissingParts, EdgeFields
    <3>2. CASE e[1] # n
      BY <1>2, <1>3, <2>7, <2>8, <3>1, <3>2, EdgeStays
    <3>3. CASE e[1] = n
      <4> SUFFICES ASSUME NEW o \in e[3] PROVE out[o] \subseteq dfIn'[e[2]][o]
        BY <1>1, <1>2, <2>9, <3>3 DEF EdgeOK, Flow
      <4>1. o \in Obj /\ o \in Label(edges, n, e[2])
        BY <3>1, <3>3, LabelHas
      <4>2. CASE o \in news
        BY <2>1, <2>2, <3>1, <4>1, <4>2, SentGrows
      <4>3. CASE o \notin news
        <5>1. out[o] = dfOut[n][o]
          BY <2>4, <4>1, <4>3
        <5>2. dfOut[n][o] \subseteq dfIn[e[2]][o]
          BY <1>1, <3>1, <3>3 DEF EdgeOK, Flow
        <5>3. dfIn[e[2]][o] \subseteq dfIn'[e[2]][o]
          BY <2>7, <3>1, <4>1 DEF Marked
        <5> QED BY <5>1, <5>2, <5>3
      <4> QED BY <4>2, <4>3
    <3> QED BY <3>2, <3>3
  <2>11. ASSUME NEW m \in Of("load") PROVE LoadOK(m)'
    <3>1. m \in Node /\ LoadOK(m) /\ m # n
      BY <1>1, MissingParts DEF Of
    <3> QED BY <1>1, <1>2, <2>7, <2>8, <3>1, LoadStays
  <2>12. ASSUME NEW m \in Of("store") PROVE StoreOK(m)'
    <3>1. m \in Node /\ StoreOK(m)
      BY MissingParts DEF Of
    <3>2. CASE m # n
      BY <1>2, <2>7, <2>8, <3>1, <3>2, StoreStays
    <3>3. CASE m = n
      <4> SUFFICES ASSUME NEW o \in Obj PROVE dfIn'[n][o] \subseteq out[o] \/ o \in inNew'[n]
        BY <2>9, <3>3 DEF StoreOK
      <4>1. CASE dfIn'[n][o] # dfIn[n][o]
        BY <2>7, <4>1 DEF Marked
      <4>2. CASE dfIn'[n][o] = dfIn[n][o] /\ o \in inNew[n]
        <5>1. CASE o \in MergedIn(n)
          BY <2>3, <4>2, <5>1
        <5>2. CASE o \notin MergedIn(n)
          BY <2>1, <4>2, <5>2 DEF ClearedAtStore
        <5> QED BY <5>1, <5>2
      <4>3. CASE dfIn'[n][o] = dfIn[n][o] /\ o \notin inNew[n]
        BY <2>3, <3>1, <3>3, <4>3 DEF StoreOK
      <4> QED BY <4>1, <4>2, <4>3
    <3> QED BY <3>2, <3>3
  <2> QED BY <1>2, <2>10, <2>11, <2>12, MissingPartsPrimed
<1> QED BY <1>5, <1>6

LEMMA PassMarks ==
  ASSUME GraphInv, MissingIsMarked, NEW n \in Node, ProcessPass(n)
  PROVE  MissingIsMarked'
<1> USE DEF GraphInv
<1>1. /\ Take(n, Reached(edges, n)) /\ stmt[n].kind = "pass" /\ UNCHANGED <<pts, dfOut>>
      /\ dfIn' = Sent(edges, n, dfIn[n], inNew[n])
      /\ inNew' = [m \in Node |-> inNew[m] \cup Changed(m)]
  BY DEF ProcessPass
<1>2. UNCHANGED <<prog, edges, fresh>> /\ stmt' = stmt
  BY <1>1, TakeKeepsPending DEF graph, stmt
<1>3. \A m \in Pending : m # n => m \in Pending'
  BY <1>1, TakeKeepsPending
<1>4. dfIn[n] \in [Obj -> SUBSET Obj]
  BY DEF TypeOK
<1>5. \A m \in Node : Changed(m) \subseteq inNew'[m] /\ inNew[m] \subseteq inNew'[m]
  BY <1>1
<1>6. Reached(edges, n) \subseteq worklist'
  BY <1>1, TakeKeepsPending
<1>7. \A m \in Node : Marked(m)
  BY <1>1, <1>4, <1>5, <1>6, SentMarked
<1>8. ASSUME NEW e \in edges \ fresh PROVE EdgeOK(e)'
  <2>1. EdgeOK(e) /\ e[1] \in Node /\ e[2] \in Node /\ e[3] \subseteq Obj
    BY MissingParts, EdgeFields
  <2>2. CASE e[1] # n
    BY <1>1, <1>2, <1>3, <1>5, <1>7, <2>1, <2>2, EdgeStays
  <2>3. CASE e[1] = n
    <3> SUFFICES ASSUME NEW o \in e[3] PROVE dfIn'[n][o] \subseteq dfIn'[e[2]][o]
      BY <1>1, <1>2, <2>3 DEF EdgeOK, Flow
    <3>1. o \in Obj /\ o \in Label(edges, n, e[2])
      BY <2>1, <2>3, LabelHas
    <3>2. dfIn'[n][o] = dfIn[n][o]
      BY <1>1, <3>1, SentToSelf
    <3>3. CASE o \in inNew[n]
      <4>1. edges \in SUBSET edges
        OBVIOUS
      <4> DEFINE flow == dfIn[n]
                 news == inNew[n]
      <4>2. flow \in [Obj -> SUBSET Obj] /\ dfIn' = Sent(edges, n, flow, news) /\ o \in news
        BY <1>1, <1>4, <3>3
      <4> HIDE DEF flow, news
      <4>3. flow[o] \subseteq dfIn'[e[2]][o]
        BY <2>1, <3>1, <4>1, <4>2, SentGrows
      <4> QED BY <3>2, <4>3 DEF flow
    <3>4. CASE o \notin inNew[n]
      <4>1. dfIn[n][o] \subseteq dfIn[e[2]][o]
        BY <1>1, <2>1, <2>3, <3>4 DEF EdgeOK, Flow
      <4>2. dfIn[e[2]][o] \subseteq dfIn'[e[2]][o]
        BY <1>7, <2>1, <3>1 DEF Marked
      <4> QED BY <3>2, <4>1, <4>2
    <3> QED BY <3>3, <3>4
  <2> QED BY <2>2, <2>3
<1>9. ASSUME NEW m \in Of("load") PROVE LoadOK(m)'
  BY <1>1, <1>2, <1>5, <1>7, MissingParts, LoadStays DEF Of
<1>10. ASSUME NEW m \in Of("store") PROVE StoreOK(m)'
  BY <1>1, <1>2, <1>5, <1>7, MissingParts, StoreStays DEF Of
<1> QED BY <1>2, <1>8, <1>9, <1>10, MissingPartsPrimed

LEMMA ConnectMarks ==
  ASSUME GraphInv, MissingIsMarked, NEW e \in edges, UpdateConnectedNode(e)
  PROVE  MissingIsMarked'
<1> USE DEF GraphInv
<1>1. /\ UNCHANGED <<prog, operands, edges, pts, dfOut, stack, phase>>
      /\ fresh' = fresh \ {e}
      /\ dfIn' = Sent({e}, e[1], Flow(e[1]), Obj)
      /\ inNew' = [m \in Node |-> inNew[m] \cup Changed(m)]
      /\ worklist' = worklist \cup Reached({e}, e[1])
  BY DEF UpdateConnectedNode, SentOnConnect
<1>2. e[1] \in Node /\ e[2] \in Node /\ e[3] \subseteq Obj /\ stmt[e[1]].kind \in {"store", "pass"}
  BY EdgeFields
<1>3. stmt' = stmt
  BY <1>1 DEF stmt
<1>4. Flow(e[1]) \in [Obj -> SUBSET Obj]
  BY <1>2, FlowType
<1>5. \A m \in Node : Changed(m) \subseteq inNew'[m] /\ inNew[m] \subseteq inNew'[m]
  BY <1>1
<1>6. \A m \in Node : Marked(m)
  BY <1>1, <1>2, <1>4, <1>5, SentMarked
<1>7. \A m \in Pending : m \in Pending'
  BY <1>1 DEF Pending
<1>8. ASSUME NEW d \in edges' \ fresh' PROVE EdgeOK(d)'
  <2>1. d[1] \in Node /\ d[2] \in Node
    BY <1>1, EdgeFields
  <2>2. CASE d # e
    <3>1. EdgeOK(d)
      BY <1>1, <2>2, MissingParts
    <3> QED BY <1>1, <1>5, <1>6, <1>7, <2>1, <3>1, EdgeStays
  <2>3. CASE d = e
    <3> SUFFICES ASSUME NEW o \in e[3] PROVE Flow(e[1])'[o] \subseteq dfIn'[e[2]][o]
      BY <2>3 DEF EdgeOK
    <3>1. o \in Obj /\ o \in Label({e}, e[1], e[2])
      BY <1>2, LabelHas
    <3>2. Flow(e[1])[o] \subseteq dfIn'[e[2]][o]
      <4>1. {e} \in SUBSET edges
        OBVIOUS
      <4> DEFINE flow == Flow(e[1])
      <4>2. flow \in [Obj -> SUBSET Obj] /\ dfIn' = Sent({e}, e[1], flow, Obj)
        BY <1>1, <1>4
      <4> HIDE DEF flow
      <4>3. flow[o] \subseteq dfIn'[e[2]][o]
        BY <1>2, <3>1, <4>1, <4>2, SentGrows
      <4> QED BY <4>3 DEF flow
    <3>3. Flow(e[1])'[o] = Flow(e[1])[o]
      <4>1. CASE stmt[e[1]].kind = "store"
        BY <1>1, <1>3, <4>1 DEF Flow
      <4>2. CASE stmt[e[1]].kind = "pass"
        <5>1. Flow(e[1]) = dfIn[e[1]] /\ Flow(e[1])' = dfIn'[e[1]]
          BY <1>3, <4>2 DEF Flow
        <5> QED BY <1>1, <1>2, <3>1, <5>1, SentToSelf
      <4> QED BY <1>2, <4>1, <4>2
    <3> QED BY <3>2, <3>3
  <2> QED BY <2>2, <2>3
<1>9. ASSUME NEW m \in Of("load") PROVE LoadOK(m)'
  BY <1>1, <1>5, <1>6, MissingParts, LoadStays DEF Of
<1>10. ASSUME NEW m \in Of("store") PROVE StoreOK(m)'
  BY <1>1, <1>5, <1>6, MissingParts, StoreStays DEF Of
<1> QED BY <1>1, <1>8, <1>9, <1>10, MissingPartsPrimed

LEMMA UpdateCallGraphMarks ==
  ASSUME GraphInv, MissingIsMarked, UpdateCallGraph
  PROVE  MissingIsMarked'
<1>1. UNCHANGED <<prog, pts, dfIn, dfOut, inNew>> /\ stmt' = stmt
  BY DEF UpdateCallGraph, stmt
<1>2. Pending = {} /\ fresh = {}
  BY DEF UpdateCallGraph, Pending, GraphInv, FreshInv
<1> DEFINE added == (UNION {prog.callee[f].edges : f \in NewCallees}) \ edges
<1>3. edges' \ fresh' = edges
  <2>1. edges' = edges \cup added /\ fresh' = added
    BY DEF UpdateCallGraph, Connected
  <2>2. \A e \in edges : e \notin added
    OBVIOUS
  <2> HIDE DEF added
  <2> QED BY <2>1, <2>2
<1>4. ASSUME NEW e \in edges' \ fresh' PROVE EdgeOK(e)'
  <2>1. EdgeOK(e)
    BY <1>2, <1>3, MissingParts
  <2>2. \A o \in e[3] : Flow(e[1])[o] \subseteq dfIn[e[2]][o]
    BY <1>2, <2>1 DEF EdgeOK
  <2>3. Flow(e[1])' = Flow(e[1])
    BY <1>1 DEF Flow
  <2> QED BY <1>1, <2>2, <2>3 DEF EdgeOK
<1>5. (\A n \in Of("load") : LoadOK(n)') /\ (\A n \in Of("store") : StoreOK(n)')
  BY <1>1, MissingParts DEF LoadOK, StoreOK
<1> QED BY <1>1, <1>4, <1>5, MissingPartsPrimed

LEMMA FindSCCMarks ==
  ASSUME GraphInv, MissingIsMarked, FindSCC
  PROVE  MissingIsMarked'
<1>1. UNCHANGED <<prog, edges, fresh, pts, dfIn, dfOut, inNew>> /\ stmt' = stmt /\ Pending' = Node \cup worklist
  BY DEF FindSCC, stmt, Pending
<1>2. ASSUME NEW e \in edges' \ fresh' PROVE EdgeOK(e)'
  <2>1. EdgeOK(e) /\ e[1] \in Node
    BY <1>1, MissingParts, EdgeFields DEF GraphInv
  <2> QED BY <1>1, <2>1 DEF EdgeOK, Flow
<1>3. (\A n \in Of("load") : LoadOK(n)') /\ (\A n \in Of("store") : StoreOK(n)')
  BY <1>1, MissingParts DEF LoadOK, StoreOK
<1> QED BY <1>1, <1>2, <1>3, MissingPartsPrimed

LEMMA NextMarks == GraphInv /\ MissingIsMarked /\ [Next]_vars => MissingIsMarked'
<1> SUFFICES ASSUME GraphInv, MissingIsMarked, [Next]_vars PROVE MissingIsMarked'
  OBVIOUS
<1>1. CASE FindSCC
  BY <1>1, FindSCCMarks
<1>2. ASSUME NEW n \in Node, ProcessNode(n) PROVE MissingIsMarked'
  BY <1>2, TopLevelMarks, LoadMarks, StoreMarks, PassMarks DEF ProcessNode
<1>3. CASE UpdateCallGraph
  BY <1>3, UpdateCallGraphMarks
<1>4. ASSUME NEW e \in edges, UpdateConnectedNode(e) PROVE MissingIsMarked'
  BY <1>4, ConnectMarks
<1>5. CASE UNCHANGED vars
  BY <1>5 DEF vars, graph, MissingIsMarked, Flow, stmt, Of, Pending
<1> QED BY <1>1, <1>2, <1>3, <1>4, <1>5 DEF Next, Terminated

(* Whatever order nodes are processed in and calls are resolved, no fact   *)
(* an indirect edge has not carried yet and no fact a load or store has    *)
(* not taken loses its mark; strong updates that turn out weak included.   *)
THEOREM Marks == Spec => []MissingIsMarked
<1>1. Init => GraphInv /\ MissingIsMarked
  BY InitInv
<1>2. GraphInv /\ MissingIsMarked /\ [Next]_vars => GraphInv' /\ MissingIsMarked'
  BY NextKeepsGraph, NextMarks
<1> QED BY <1>1, <1>2, PTL DEF Spec

-----------------------------------------------------------------------------
(* Nodes that do not wait hold.                                            *)
LEMMA UsesPushed ==
  ASSUME GraphInv, NEW n \in Node, NEW S \in SUBSET Obj, Define(n, S),
         NEW m \in Node, NEW v \in operands[m], pts'[v] # pts[v]
  PROVE  m \in Pending'
<1>1. v \in Var
  BY DEF GraphInv, TypeOK
<1>2. v \in stmt[n].defs /\ ~ (S \subseteq pts[v])
  BY <1>1 DEF Define, GraphInv, TypeOK
<1>3. m \in DirectSuccs(n)
  BY <1>2 DEF DirectSuccs
<1>4. Take(n, DirectSuccs(n))
  BY <1>2 DEF Define
<1> QED BY <1>3, <1>4, TakeKeepsPending

(* A node still holds if nothing it reads has changed and what it writes   *)
(* has not shrunk.                                                         *)
LEMMA NodeStays ==
  ASSUME GraphInv, NEW m \in Node, NodeHolds(m), UNCHANGED <<prog, operands, recursive>>,
         \A v \in operands[m] : pts'[v] = pts[v],
         \A v \in stmt[m].defs : pts[v] \subseteq pts'[v],
         dfIn'[m] = dfIn[m],
         \A o \in Obj : dfOut[m][o] \subseteq dfOut'[m][o]
  PROVE  NodeHolds(m)'
<1> USE DEF GraphInv
<1>1. stmt' = stmt /\ StatementOK(stmt[m]) /\ stmt[m].uses \subseteq operands[m]
  BY StatementFields DEF stmt, OperandsInv
<1>2. CASE stmt[m].kind \in {"addr", "copy", "gep"}
  <2>1. Sources(m)' = Sources(m)
    BY DEF Sources
  <2>2. TopLevelResult(m)' = TopLevelResult(m)
    BY <1>1, <1>2, <2>1 DEF TopLevelResult
  <2> QED BY <1>1, <1>2, <2>2 DEF NodeHolds
<1>3. CASE stmt[m].kind = "load"
  <2>1. pts'[stmt[m].ptr] = pts[stmt[m].ptr]
    BY <1>1, <1>3 DEF StatementOK
  <2> QED BY <1>1, <1>3, <2>1 DEF NodeHolds
<1>4. CASE stmt[m].kind = "store"
  <2>1. pts'[stmt[m].ptr] = pts[stmt[m].ptr] /\ pts'[stmt[m].val] = pts[stmt[m].val]
        /\ stmt[m].ptr \in Var
    BY <1>1, <1>4 DEF StatementOK
  <2>2. Killed(m)' = Killed(m) /\ StoreHasTarget(m)' = StoreHasTarget(m)
    BY <1>1, <2>1 DEF Killed, IsStrongUpdate, StoreHasTarget
  <2>3. pts[stmt[m].ptr] \subseteq Obj
    BY <2>1 DEF TypeOK
  <2> QED BY <1>1, <1>4, <2>1, <2>2, <2>3 DEF NodeHolds
<1>5. CASE stmt[m].kind = "pass"
  BY <1>1, <1>5 DEF NodeHolds
<1> QED BY <1>1, <1>2, <1>3, <1>4, <1>5 DEF StatementOK

(* A variable is defined: every node but the one processed.                *)
LEMMA DefineNodes ==
  ASSUME GraphInv, NodesInv, NEW n \in Node, NEW S \in SUBSET Obj, Define(n, S),
         UNCHANGED <<dfIn, dfOut>>,
         NEW m \in Node, m # n, m \notin Pending'
  PROVE  NodeHolds(m)'
<1> USE DEF GraphInv
<1>1. PICK pushed : Take(n, pushed)
  BY DEF Define
<1>2. phase = "solve" /\ UNCHANGED <<prog, operands, recursive>> /\ m \notin Pending
  BY <1>1, TakeKeepsPending DEF graph
<1>3. NodeHolds(m)
  BY <1>2 DEF NodesInv
<1>4. \A v \in operands[m] : pts'[v] = pts[v]
  BY UsesPushed
<1>5. \A v \in stmt[m].defs : pts[v] \subseteq pts'[v]
  BY DefineGrows, StatementFields DEF StatementOK
<1> QED BY <1>2, <1>3, <1>4, <1>5, NodeStays

LEMMA TopLevelNodes ==
  ASSUME GraphInv, NodesInv, NEW n \in Node, ProcessTopLevel(n)
  PROVE  NodesInv'
<1> USE DEF GraphInv
<1>1. Define(n, TopLevelResult(n)) /\ UNCHANGED <<dfIn, dfOut, inNew>>
      /\ stmt[n].kind \in {"addr", "copy", "gep"}
  BY DEF ProcessTopLevel
<1>2. TopLevelResult(n) \in SUBSET Obj
  BY <1>1, TopLevelType
<1>3. PICK pushed : Take(n, pushed)
  BY <1>1 DEF Define
<1>4. UNCHANGED <<prog, operands>> /\ stmt' = stmt
  BY <1>3, TakeKeepsPending DEF graph, stmt
<1>5. ASSUME NEW m \in Node, m \notin Pending' PROVE NodeHolds(m)'
  <2>1. CASE m # n
    BY <1>1, <1>2, <1>5, <2>1, DefineNodes
  <2>2. CASE m = n
    <3>1. \A v \in operands[n] : pts'[v] = pts[v]
      BY <1>1, <1>2, <1>5, <2>2, UsesPushed
    <3>2. Sources(n)' = Sources(n)
      BY <1>4, <3>1 DEF Sources
    <3>3. TopLevelResult(n)' = TopLevelResult(n)
      BY <1>1, <1>4, <3>2 DEF TopLevelResult
    <3>4. \A v \in stmt[n].defs : TopLevelResult(n) \subseteq pts'[v]
      BY <1>1, DefineGrows
    <3> QED BY <1>1, <1>4, <2>2, <3>3, <3>4 DEF NodeHolds
  <2> QED BY <2>1, <2>2
<1> QED BY <1>5 DEF NodesInv

LEMMA LoadNodes ==
  ASSUME GraphInv, MissingIsMarked, NodesInv, NEW n \in Node, ProcessLoad(n)
  PROVE  NodesInv'
<1> USE DEF GraphInv
<1> DEFINE S == UNION {dfIn[n][o] : o \in Loaded(n)}
<1>1. Define(n, S) /\ UNCHANGED <<dfIn, dfOut>> /\ stmt[n].kind = "load"
  BY DEF ProcessLoad
<1>2. S \in SUBSET Obj
  BY LoadType
<1>3. \A o \in Loaded(n) : dfIn[n][o] \subseteq S
  OBVIOUS
<1> HIDE DEF S
<1>4. PICK pushed : Take(n, pushed)
  BY <1>1 DEF Define
<1>5. UNCHANGED <<prog, operands>> /\ stmt' = stmt
  BY <1>4, TakeKeepsPending DEF graph, stmt
<1>6. ASSUME NEW m \in Node, m \notin Pending' PROVE NodeHolds(m)'
  <2>1. CASE m # n
    BY <1>1, <1>2, <1>6, <2>1, DefineNodes
  <2>2. CASE m = n
    <3>1. StatementOK(stmt[n]) /\ stmt[n].uses \subseteq operands[n]
      BY StatementFields DEF OperandsInv
    <3>2. stmt[n].ptr \in operands[n] /\ stmt[n].ptr \in Var /\ stmt[n].defs \subseteq Var
      BY <1>1, <3>1 DEF StatementOK
    <3>3. pts'[stmt[n].ptr] = pts[stmt[n].ptr]
      BY <1>1, <1>2, <1>6, <2>2, <3>2, UsesPushed
    <3>4. \A v \in stmt[n].defs : S \subseteq pts'[v] /\ pts[v] \subseteq pts'[v]
      BY <1>1, <3>2, DefineGrows
    <3>5. LoadOK(n)
      BY <1>1, MissingParts DEF Of
    <3> SUFFICES ASSUME NEW v \in stmt[n].defs, NEW o \in pts[stmt[n].ptr] \ Opaque
                 PROVE  dfIn[n][o] \subseteq pts'[v]
      BY <1>1, <1>5, <2>2, <3>3 DEF NodeHolds
    <3>6. o \in Obj
      BY <3>2 DEF TypeOK
    <3>7. CASE o \in inNew[n]
      <4>1. o \in Loaded(n)
        BY <3>7 DEF Loaded
      <4> QED BY <1>3, <3>4, <4>1
    <3>8. CASE o \notin inNew[n]
      BY <3>4, <3>5, <3>6, <3>8 DEF LoadOK
    <3> QED BY <3>7, <3>8
  <2> QED BY <2>1, <2>2
<1> QED BY <1>6 DEF NodesInv

(* Points-to sets of variables stay: a node whose IN changed is pushed.    *)
LEMMA MemoryNodes ==
  ASSUME GraphInv, NodesInv, NEW n \in Node, NEW m \in Node, m # n, m \notin Pending',
         Take(n, Reached(edges, n)), UNCHANGED pts, dfIn' \in [Node -> [Obj -> SUBSET Obj]],
         dfOut'[m] = dfOut[m]
  PROVE  NodeHolds(m)'
<1> USE DEF GraphInv
<1>1. phase = "solve" /\ UNCHANGED <<prog, operands, recursive>> /\ m \notin Pending
      /\ m \notin Reached(edges, n)
  BY TakeKeepsPending DEF graph
<1>2. NodeHolds(m)
  BY <1>1 DEF NodesInv
<1>3. dfIn'[m] = dfIn[m]
  <2>1. \A o \in Obj : dfIn'[m][o] = dfIn[m][o]
    BY <1>1 DEF Reached, Changed
  <2> QED BY <2>1 DEF TypeOK
<1> QED BY <1>1, <1>2, <1>3, NodeStays

LEMMA StoreNodes ==
  ASSUME GraphInv, MissingIsMarked, NodesInv, NEW n \in Node, ProcessStore(n)
  PROVE  NodesInv'
<1> USE DEF GraphInv
<1>1. Take(n, Reached(edges, n)) /\ stmt[n].kind = "store" /\ UNCHANGED pts
  BY DEF ProcessStore
<1>2. UNCHANGED <<prog, operands, recursive>> /\ stmt' = stmt
  BY <1>1, TakeKeepsPending DEF graph, stmt
<1>3. GraphInv'
  BY StoreKeeps
<1>4. Killed(n)' = Killed(n) /\ StoreHasTarget(n)' = StoreHasTarget(n)
  BY <1>1, <1>2 DEF Killed, IsStrongUpdate, StoreHasTarget
<1>5. ASSUME NEW m \in Node, m \notin Pending' PROVE NodeHolds(m)'
  <2>1. CASE m # n
    <3>1. dfOut'[m] = dfOut[m]
      BY <2>1 DEF ProcessStore, TypeOK
    <3>2. dfIn' \in [Node -> [Obj -> SUBSET Obj]]
      BY <1>3 DEF TypeOK
    <3> QED BY <1>1, <1>5, <2>1, <3>1, <3>2, MemoryNodes
  <2>2. CASE m = n /\ ~StoreHasTarget(n)
    BY <1>1, <1>2, <1>4, <2>2 DEF NodeHolds
  <2>3. CASE m = n /\ StoreHasTarget(n)
    <3>1. dfOut'[n] = StoreOut(n)
      BY <2>3 DEF ProcessStore, TypeOK
    <3>2. \A o \in Obj : dfIn'[n][o] = dfIn[n][o]
      <4>1. n \notin Reached(edges, n)
        BY <1>1, <1>5, <2>3, TakeKeepsPending
      <4> QED BY <4>1 DEF Reached, Changed
    <3>3. stmt[n].ptr \in Var /\ pts[stmt[n].ptr] \subseteq Obj
      BY <1>1, StatementFields DEF StatementOK, TypeOK
    <3>4. \A o \in pts[stmt[n].ptr] \ Opaque : pts[stmt[n].val] \subseteq StoreOut(n)[o]
      BY <3>3 DEF StoreOut
    <3>5. \A o \in Obj \ Killed(n) : dfIn[n][o] \subseteq StoreOut(n)[o]
      <4> SUFFICES ASSUME NEW o \in Obj \ Killed(n) PROVE dfIn[n][o] \subseteq StoreOut(n)[o]
        OBVIOUS
      <4>1. StoreOK(n)
        BY <1>1, MissingParts DEF Of
      <4>2. CASE o \in inNew[n]
        BY <4>2 DEF StoreOut, MergedIn
      <4>3. CASE dfIn[n][o] \subseteq dfOut[n][o]
        BY <4>3 DEF StoreOut
      <4> QED BY <4>1, <4>2, <4>3 DEF StoreOK
    <3> QED BY <1>1, <1>2, <1>4, <2>3, <3>1, <3>2, <3>4, <3>5 DEF NodeHolds
  <2> QED BY <2>1, <2>2, <2>3
<1> QED BY <1>5 DEF NodesInv

LEMMA PassNodes ==
  ASSUME GraphInv, NodesInv, NEW n \in Node, ProcessPass(n)
  PROVE  NodesInv'
<1>1. Take(n, Reached(edges, n)) /\ stmt[n].kind = "pass" /\ UNCHANGED <<pts, dfOut>>
  BY DEF ProcessPass
<1>2. stmt' = stmt
  BY <1>1, TakeKeepsPending DEF graph, stmt
<1>3. dfIn' \in [Node -> [Obj -> SUBSET Obj]]
  BY PassKeeps DEF GraphInv, TypeOK
<1>4. ASSUME NEW m \in Node, m \notin Pending' PROVE NodeHolds(m)'
  <2>1. CASE m # n
    BY <1>1, <1>3, <1>4, <2>1, MemoryNodes
  <2>2. CASE m = n
    BY <1>1, <1>2, <2>2 DEF NodeHolds
  <2> QED BY <2>1, <2>2
<1> QED BY <1>4 DEF NodesInv

(* The end: nothing waits and no call is new.                              *)
ResultInv ==
  phase = "done" => Pending = {} /\ pts[prog.fptr] \cap DOMAIN prog.callee \subseteq resolved

LEMMA UpdateCallGraphNodes ==
  ASSUME GraphInv, NodesInv, UpdateCallGraph
  PROVE  NodesInv' /\ ResultInv'
<1>1. CASE NewCallees # {}
  BY <1>1 DEF UpdateCallGraph, NodesInv, ResultInv
<1>2. CASE NewCallees = {}
  <2>1. /\ UNCHANGED <<prog, pts, dfIn, dfOut, recursive, stack>>
        /\ phase = "solve" /\ Pending = {} /\ stack = {}
        /\ resolved' = resolved
    BY <1>2 DEF UpdateCallGraph, Pending
  <2>2. operands' = operands /\ worklist' = {}
    <3>1. operands' = [n \in Node |-> operands[n] \cup {}] /\ worklist' = {}
      BY <1>2 DEF UpdateCallGraph
    <3> QED BY <3>1 DEF GraphInv, TypeOK
  <2>3. \A n \in Node : NodeHolds(n)'
    <3>1. \A n \in Node : NodeHolds(n)
      BY <2>1 DEF NodesInv
    <3>2. \A n \in Node : NodeHolds(n)' = NodeHolds(n)
      BY <2>1, <2>2 DEF NodeHolds, TopLevelResult, Sources, stmt, StoreHasTarget, Killed, IsStrongUpdate
    <3> QED BY <3>1, <3>2
  <2>4. pts[prog.fptr] \cap DOMAIN prog.callee \subseteq resolved
    BY <1>2 DEF NewCallees
  <2>5. Pending' = {}
    BY <2>1, <2>2 DEF Pending
  <2> QED BY <2>1, <2>3, <2>4, <2>5 DEF NodesInv, ResultInv
<1> QED BY <1>1, <1>2

IInv == GraphInv /\ MissingIsMarked /\ NodesInv /\ ResultInv

LEMMA NextKeepsIInv == IInv /\ [Next]_vars => IInv'
<1> SUFFICES ASSUME IInv, [Next]_vars PROVE IInv'
  OBVIOUS
<1> USE DEF IInv
<1>1. GraphInv' /\ MissingIsMarked'
  BY NextKeepsGraph, NextMarks
<1>2. CASE FindSCC
  <2>1. Pending' = Node \cup Pending' /\ phase' = "solve"
    BY <1>2 DEF FindSCC, Pending
  <2> QED BY <1>1, <2>1 DEF NodesInv, ResultInv
<1>3. ASSUME NEW n \in Node, ProcessNode(n) PROVE IInv'
  <2>1. NodesInv'
    BY <1>3, TopLevelNodes, LoadNodes, StoreNodes, PassNodes DEF ProcessNode
  <2>2. phase' = "solve"
    BY <1>3, TakeKeepsPending
       DEF ProcessNode, ProcessTopLevel, ProcessLoad, ProcessStore, ProcessPass, Define
  <2> QED BY <1>1, <2>1, <2>2 DEF ResultInv
<1>4. CASE UpdateCallGraph
  BY <1>1, <1>4, UpdateCallGraphNodes
<1>5. ASSUME NEW e \in edges, UpdateConnectedNode(e) PROVE IInv'
  BY <1>1, <1>5 DEF UpdateConnectedNode, NodesInv, ResultInv
<1>6. CASE UNCHANGED vars
  <2>1. NodesInv' /\ ResultInv'
    BY <1>6 DEF vars, graph, NodesInv, ResultInv, Pending, NodeHolds, TopLevelResult, Sources, stmt,
                StoreHasTarget, Killed, IsStrongUpdate
  <2> QED BY <1>1, <2>1
<1> QED BY <1>2, <1>3, <1>4, <1>5, <1>6 DEF Next, Terminated

LEMMA ResultSolves ==
  ASSUME IInv
  PROVE  DoneIsSolution
<1> SUFFICES ASSUME phase = "done"
             PROVE  /\ \A n \in Node : NodeHolds(n)
                    /\ \A e \in edges : EdgeHolds(e)
                    /\ pts[prog.fptr] \cap DOMAIN prog.callee \subseteq resolved
  BY DEF DoneIsSolution
<1>1. Pending = {} /\ fresh = {} /\ pts[prog.fptr] \cap DOMAIN prog.callee \subseteq resolved
  BY DEF IInv, ResultInv, GraphInv, FreshInv
<1>2. \A n \in Node : NodeHolds(n)
  BY <1>1 DEF IInv, NodesInv
<1>3. \A e \in edges : EdgeHolds(e)
  BY <1>1, MissingParts DEF IInv, EdgeOK, EdgeHolds
<1> QED BY <1>1, <1>2, <1>3

(* When the analysis ends its result solves the value-flow equations of    *)
(* the graph with every resolved call connected, for every graph, every    *)
(* order of the nodes and every set of callees found on the way.           *)
THEOREM Solution == Spec => []DoneIsSolution
<1>1. Init => IInv
  BY InitInv DEF IInv, ResultInv, Init
<1>2. IInv /\ [Next]_vars => IInv'
  BY NextKeepsIInv
<1>3. IInv => DoneIsSolution
  BY ResultSolves
<1> QED BY <1>1, <1>2, <1>3, PTL DEF Spec

-----------------------------------------------------------------------------
(* Precision: what is found stays below every solution of the equations,   *)
(* a solution being held to its own strong updates.                        *)
States == [pts : [Var -> SUBSET Obj], in : [Node -> [Obj -> SUBSET Obj]]]

AtMost(S, R) ==
  /\ \A v \in Var : S.pts[v] \subseteq R.pts[v]
  /\ \A n \in Node : \A o \in Obj : S.in[n][o] \subseteq R.in[n][o]

KilledBy(S, n) ==
  IF \E o \in Single \ recursive : S.pts[stmt[n].ptr] = {o} THEN S.pts[stmt[n].ptr] ELSE {}

OutBy(S, n, o) ==
  IF stmt[n].kind # "store" THEN S.in[n][o]
  ELSE IF S.pts[stmt[n].ptr] = {} THEN {}
  ELSE (IF o \in S.pts[stmt[n].ptr] \ Opaque THEN S.pts[stmt[n].val] ELSE {})
         \cup (IF o \in KilledBy(S, n) THEN {} ELSE S.in[n][o])

Solves(S) ==
  /\ S \in States
  /\ \A n \in Node : \A v \in stmt[n].defs : Value(S, n) \subseteq S.pts[v]
  /\ \A e \in edges : \A o \in e[3] : OutBy(S, e[1], o) \subseteq S.in[e[2]][o]

Below(S) ==
  /\ \A v \in Var : pts[v] \subseteq S.pts[v]
  /\ \A n \in Node : \A o \in Obj : dfIn[n][o] \subseteq S.in[n][o]
  /\ \A n \in Of("store") : \A o \in Obj : dfOut[n][o] \subseteq OutBy(S, n, o)

PreciseInv == \A S : Solves(S) => Below(S)

(* Locals count as those of recursive functions only once they are.        *)
RecursiveInv == recursive \subseteq UNION {prog.callee[f].locals : f \in resolved}

LEMMA GraphGrows ==
  ASSUME GraphInv, RecursiveInv, [Next]_vars
  PROVE  /\ prog' = prog /\ stmt' = stmt /\ edges \subseteq edges' /\ recursive \subseteq recursive'
         /\ \A n \in Node : operands[n] \subseteq operands'[n]
         /\ RecursiveInv'
<1>1. CASE FindSCC
  BY <1>1 DEF FindSCC, RecursiveInv, stmt
<1>2. ASSUME NEW n \in Node, ProcessNode(n)
      PROVE  UNCHANGED graph
  BY <1>2 DEF ProcessNode, ProcessTopLevel, ProcessLoad, ProcessStore, ProcessPass, Define, Take
<1>3. CASE UpdateCallGraph
  <2>1. /\ prog' = prog /\ recursive' = recursive /\ resolved \subseteq resolved'
        /\ edges \subseteq edges'
    BY <1>3 DEF UpdateCallGraph, Connected
  <2>2. \A n \in Node : operands[n] \subseteq operands'[n]
    BY <1>3 DEF UpdateCallGraph
  <2> QED BY <2>1, <2>2 DEF RecursiveInv, stmt
<1>4. ASSUME NEW e \in edges, UpdateConnectedNode(e)
      PROVE  UNCHANGED <<prog, operands, edges, resolved, recursive>>
  BY <1>4 DEF UpdateConnectedNode
<1>5. CASE UNCHANGED <<prog, operands, edges, resolved, recursive>>
  BY <1>5 DEF RecursiveInv, stmt
<1> QED BY <1>1, <1>2, <1>3, <1>4, <1>5 DEF Next, Terminated, vars, graph

(* A solution of the graph that has grown solved the graph before.         *)
LEMMA SolvesBefore ==
  ASSUME GraphInv, RecursiveInv, [Next]_vars, NEW S, Solves(S)'
  PROVE  /\ Solves(S)
         /\ \A n \in Node : \A o \in Obj : OutBy(S, n, o) \subseteq OutBy(S, n, o)'
<1> USE DEF GraphInv
<1>1. /\ prog' = prog /\ stmt' = stmt /\ edges \subseteq edges' /\ recursive \subseteq recursive'
      /\ \A n \in Node : operands[n] \subseteq operands'[n]
  BY GraphGrows
<1>2. S \in States
  BY DEF Solves
<1>3. ASSUME NEW n \in Node, NEW o \in Obj
      PROVE  OutBy(S, n, o) \subseteq OutBy(S, n, o)'
  <2>1. KilledBy(S, n)' \subseteq KilledBy(S, n)
    BY <1>1 DEF KilledBy
  <2> QED BY <1>1, <2>1 DEF OutBy
<1>4. ASSUME NEW n \in Node
      PROVE  Value(S, n) \subseteq Value(S, n)'
  <2> DEFINE used == UNION {S.pts[v] : v \in operands[n]}
  <2>1. used \subseteq used'
    BY <1>1
  <2> HIDE DEF used
  <2>2. Value(S, n) = CASE stmt[n].kind = "addr" -> {stmt[n].obj}
                        [] stmt[n].kind = "copy" -> used
                        [] stmt[n].kind = "gep"  -> {stmt[n].at[o] : o \in used}
                        [] stmt[n].kind = "load" -> UNION {S.in[n][o] : o \in S.pts[stmt[n].ptr] \ Opaque}
                        [] OTHER -> {}
    BY DEF Value, used
  <2>3. Value(S, n)' = CASE stmt[n].kind = "addr" -> {stmt[n].obj}
                         [] stmt[n].kind = "copy" -> used'
                         [] stmt[n].kind = "gep"  -> {stmt[n].at[o] : o \in used'}
                         [] stmt[n].kind = "load" -> UNION {S.in[n][o] : o \in S.pts[stmt[n].ptr] \ Opaque}
                         [] OTHER -> {}
    BY <1>1 DEF Value, used
  <2> QED BY <2>1, <2>2, <2>3
<1>5. \A n \in Node : \A v \in stmt[n].defs : Value(S, n) \subseteq S.pts[v]
  BY <1>1, <1>4 DEF Solves
<1>6. \A e \in edges : \A o \in e[3] : OutBy(S, e[1], o) \subseteq S.in[e[2]][o]
  <2> SUFFICES ASSUME NEW e \in edges, NEW o \in e[3]
               PROVE  OutBy(S, e[1], o) \subseteq S.in[e[2]][o]
    OBVIOUS
  <2>1. e[1] \in Node /\ o \in Obj
    BY EdgeFields
  <2>2. OutBy(S, e[1], o)' \subseteq S.in[e[2]][o]
    BY <1>1 DEF Solves
  <2> QED BY <1>3, <2>1, <2>2
<1> QED BY <1>2, <1>3, <1>5, <1>6 DEF Solves

(* What a node puts out is below what it puts out in the solution.         *)
LEMMA FlowBelow ==
  ASSUME GraphInv, NEW S, Solves(S), Below(S), NEW n \in Node, stmt[n].kind \in {"store", "pass"}, NEW o \in Obj
  PROVE  Flow(n)[o] \subseteq OutBy(S, n, o)
BY DEF Flow, OutBy, Below, Of

LEMMA StoreOutBelow ==
  ASSUME GraphInv, NEW S, Solves(S), Below(S), NEW n \in Node, stmt[n].kind = "store",
         StoreHasTarget(n), NEW o \in Obj
  PROVE  StoreOut(n)[o] \subseteq OutBy(S, n, o)
<1>1. /\ stmt[n].ptr \in Var /\ stmt[n].val \in Var
  BY StatementFields DEF StatementOK, GraphInv
<1>2. /\ pts[stmt[n].ptr] # {} /\ pts[stmt[n].ptr] \subseteq S.pts[stmt[n].ptr]
      /\ pts[stmt[n].val] \subseteq S.pts[stmt[n].val]
      /\ dfIn[n][o] \subseteq S.in[n][o] /\ dfOut[n][o] \subseteq OutBy(S, n, o)
  BY <1>1 DEF Below, StoreHasTarget, Of
<1>3. KilledBy(S, n) \subseteq Killed(n)
  BY <1>2 DEF KilledBy, Killed, IsStrongUpdate
<1>4. o \in MergedIn(n) => o \notin KilledBy(S, n)
  BY <1>3 DEF MergedIn
<1>5. StoreOut(n)[o] = dfOut[n][o]
                       \cup (IF o \in pts[stmt[n].ptr] \ Opaque THEN pts[stmt[n].val] ELSE {})
                       \cup (IF o \in MergedIn(n) THEN dfIn[n][o] ELSE {})
  BY DEF StoreOut
<1>6. (IF o \in pts[stmt[n].ptr] \ Opaque THEN pts[stmt[n].val] ELSE {}) \subseteq OutBy(S, n, o)
  BY <1>2 DEF OutBy
<1>7. (IF o \in MergedIn(n) THEN dfIn[n][o] ELSE {}) \subseteq OutBy(S, n, o)
  BY <1>2, <1>4 DEF OutBy
<1> QED BY <1>2, <1>5, <1>6, <1>7

(* What is sent along edges of the graph arrives below the solution.       *)
LEMMA SentBelow ==
  ASSUME GraphInv, NEW S, Solves(S), Below(S), NEW E \in SUBSET edges, NEW n \in Node,
         NEW flow, NEW news, \A o \in Obj : flow[o] \subseteq OutBy(S, n, o),
         dfIn' = Sent(E, n, flow, news)
  PROVE  \A m \in Node : \A o \in Obj : dfIn'[m][o] \subseteq S.in[m][o]
<1> SUFFICES ASSUME NEW m \in Node, NEW o \in Obj PROVE dfIn'[m][o] \subseteq S.in[m][o]
  OBVIOUS
<1>1. dfIn'[m][o] = IF o \in Label(E, n, m) \cap news THEN dfIn[m][o] \cup flow[o] ELSE dfIn[m][o]
  BY DEF Sent
<1>2. dfIn[m][o] \subseteq S.in[m][o]
  BY DEF Below
<1>3. ASSUME o \in Label(E, n, m) PROVE flow[o] \subseteq S.in[m][o]
  <2>1. PICK e \in E : e[1] = n /\ e[2] = m /\ o \in e[3]
    BY <1>3 DEF Label
  <2> QED BY <2>1 DEF Solves
<1> QED BY <1>1, <1>2, <1>3

LEMMA ValueBelow ==
  ASSUME GraphInv, NEW S, Solves(S), Below(S), NEW n \in Node
  PROVE  /\ stmt[n].kind \in {"addr", "copy", "gep"} => TopLevelResult(n) \subseteq Value(S, n)
         /\ stmt[n].kind = "load" => UNION {dfIn[n][o] : o \in Loaded(n)} \subseteq Value(S, n)
<1> DEFINE used == UNION {S.pts[v] : v \in operands[n]}
<1>1. Sources(n) \subseteq used
  BY DEF Sources, Below, GraphInv, TypeOK
<1>2. Value(S, n) = CASE stmt[n].kind = "addr" -> {stmt[n].obj}
                      [] stmt[n].kind = "copy" -> used
                      [] stmt[n].kind = "gep"  -> {stmt[n].at[o] : o \in used}
                      [] stmt[n].kind = "load" -> UNION {S.in[n][o] : o \in S.pts[stmt[n].ptr] \ Opaque}
                      [] OTHER -> {}
  BY DEF Value
<1> HIDE DEF used
<1>3. CASE stmt[n].kind = "addr"
  BY <1>2, <1>3 DEF TopLevelResult
<1>4. CASE stmt[n].kind = "copy"
  BY <1>1, <1>2, <1>4 DEF TopLevelResult
<1>5. CASE stmt[n].kind = "gep"
  BY <1>1, <1>2, <1>5 DEF TopLevelResult
<1>6. CASE stmt[n].kind = "load"
  <2>1. stmt[n].ptr \in Var
    BY <1>6, StatementFields DEF StatementOK, GraphInv
  <2>2. \A o \in Loaded(n) : /\ o \in Obj /\ o \in S.pts[stmt[n].ptr] \ Opaque
                             /\ dfIn[n][o] \subseteq S.in[n][o]
    BY <2>1 DEF Loaded, Below, GraphInv, TypeOK
  <2> QED BY <1>2, <1>6, <2>2
<1> QED BY <1>3, <1>4, <1>5, <1>6

LEMMA DefineBelow ==
  ASSUME GraphInv, NEW S, Solves(S), Below(S), NEW n \in Node, NEW A, A \subseteq Value(S, n),
         Define(n, A)
  PROVE  \A v \in Var : pts'[v] \subseteq S.pts[v]
<1>1. \A v \in Var : pts'[v] = IF v \in stmt[n].defs THEN pts[v] \cup A ELSE pts[v]
  BY DEF Define
<1>2. \A v \in stmt[n].defs : A \subseteq S.pts[v]
  BY DEF Solves
<1> QED BY <1>1, <1>2 DEF Below

(* A step does not lead above a solution.                                  *)
LEMMA StepBelow ==
  ASSUME GraphInv, NEW S, Solves(S), Below(S), [Next]_vars
  PROVE  /\ \A v \in Var : pts'[v] \subseteq S.pts[v]
         /\ \A n \in Node : \A o \in Obj : dfIn'[n][o] \subseteq S.in[n][o]
         /\ \A n \in Of("store") : \A o \in Obj : dfOut'[n][o] \subseteq OutBy(S, n, o)
<1>1. CASE UNCHANGED <<pts, dfIn, dfOut>>
  BY <1>1 DEF Below
<1>2. ASSUME NEW n \in Node, ProcessTopLevel(n) \/ ProcessLoad(n)
      PROVE  UNCHANGED <<dfIn, dfOut>> /\ \A v \in Var : pts'[v] \subseteq S.pts[v]
  <2>1. CASE ProcessTopLevel(n)
    BY <2>1, ValueBelow, DefineBelow DEF ProcessTopLevel
  <2>2. CASE ProcessLoad(n)
    BY <2>2, ValueBelow, DefineBelow DEF ProcessLoad
  <2> QED BY <1>2, <2>1, <2>2
<1>3. ASSUME NEW n \in Node, ProcessStore(n)
      PROVE  /\ UNCHANGED pts
             /\ \A m \in Node : \A o \in Obj : dfIn'[m][o] \subseteq S.in[m][o]
             /\ \A m \in Of("store") : \A o \in Obj : dfOut'[m][o] \subseteq OutBy(S, m, o)
  <2>1. CASE StoreHasTarget(n)
    <3> DEFINE out  == StoreOut(n)
               news == {o \in Obj : out[o] # dfOut[n][o]}
    <3>1. /\ stmt[n].kind = "store"
          /\ dfOut' = [dfOut EXCEPT ![n] = out] /\ dfIn' = Sent(edges, n, out, news)
      BY <1>3, <2>1 DEF ProcessStore
    <3>2. \A o \in Obj : out[o] \subseteq OutBy(S, n, o)
      BY <2>1, <3>1, StoreOutBelow
    <3> HIDE DEF out, news
    <3>3. \A m \in Node : \A o \in Obj : dfIn'[m][o] \subseteq S.in[m][o]
      BY <3>1, <3>2, SentBelow
    <3>4. \A m \in Of("store") : m \in Node /\ dfOut'[m] = IF m = n THEN out ELSE dfOut[m]
      BY <3>1 DEF Of, GraphInv, TypeOK
    <3> QED BY <1>3, <3>2, <3>3, <3>4 DEF ProcessStore, Below
  <2>2. CASE ~StoreHasTarget(n)
    BY <1>3, <2>2 DEF ProcessStore, Below
  <2> QED BY <2>1, <2>2
<1>4. ASSUME NEW n \in Node, ProcessPass(n)
      PROVE  /\ UNCHANGED <<pts, dfOut>>
             /\ \A m \in Node : \A o \in Obj : dfIn'[m][o] \subseteq S.in[m][o]
  <2>1. \A o \in Obj : dfIn[n][o] \subseteq OutBy(S, n, o)
    BY <1>4, FlowBelow DEF ProcessPass, Flow
  <2>2. dfIn' = Sent(edges, n, dfIn[n], inNew[n]) /\ UNCHANGED <<pts, dfOut>>
    BY <1>4 DEF ProcessPass
  <2> QED BY <2>1, <2>2, SentBelow
<1>5. ASSUME NEW e \in edges, UpdateConnectedNode(e)
      PROVE  /\ UNCHANGED <<pts, dfOut>>
             /\ \A m \in Node : \A o \in Obj : dfIn'[m][o] \subseteq S.in[m][o]
  <2>1. e[1] \in Node /\ stmt[e[1]].kind \in {"store", "pass"}
    BY EdgeFields DEF GraphInv
  <2>2. \A o \in Obj : Flow(e[1])[o] \subseteq OutBy(S, e[1], o)
    BY <2>1, FlowBelow
  <2>3. dfIn' = Sent({e}, e[1], Flow(e[1]), SentOnConnect(e[1])) /\ UNCHANGED <<pts, dfOut>>
    BY <1>5 DEF UpdateConnectedNode
  <2> QED BY <2>1, <2>2, <2>3, SentBelow
<1>6. FindSCC \/ UpdateCallGraph \/ UNCHANGED vars => UNCHANGED <<pts, dfIn, dfOut>>
  BY DEF FindSCC, UpdateCallGraph, vars
<1> QED BY <1>1, <1>2, <1>3, <1>4, <1>5, <1>6 DEF Next, ProcessNode, Terminated, Below

LEMMA NextPrecise == GraphInv /\ RecursiveInv /\ PreciseInv /\ [Next]_vars => PreciseInv' /\ RecursiveInv'
<1> SUFFICES ASSUME GraphInv, RecursiveInv, PreciseInv, [Next]_vars
             PROVE  PreciseInv' /\ RecursiveInv'
  OBVIOUS
<1>1. RecursiveInv' /\ stmt' = stmt
  BY GraphGrows
<1>2. ASSUME NEW S, Solves(S)'
      PROVE  Below(S)'
  <2>1. /\ Solves(S)
        /\ \A n \in Node : \A o \in Obj : OutBy(S, n, o) \subseteq OutBy(S, n, o)'
    BY <1>2, SolvesBefore
  <2>2. Below(S)
    BY <2>1 DEF PreciseInv
  <2>3. /\ \A v \in Var : pts'[v] \subseteq S.pts[v]
        /\ \A n \in Node : \A o \in Obj : dfIn'[n][o] \subseteq S.in[n][o]
        /\ \A n \in Of("store") : \A o \in Obj : dfOut'[n][o] \subseteq OutBy(S, n, o)
    BY <2>1, <2>2, StepBelow
  <2>4. Of("store")' = Of("store") /\ Of("store") \subseteq Node
    BY <1>1 DEF Of
  <2> QED BY <2>1, <2>3, <2>4 DEF Below
<1> QED BY <1>1, <1>2 DEF PreciseInv

LEMMA InitPrecise == Init => PreciseInv /\ RecursiveInv
<1> SUFFICES ASSUME Init PROVE PreciseInv /\ RecursiveInv
  OBVIOUS
<1>1. Of("store") \subseteq Node
  BY DEF Of
<1> QED BY <1>1 DEF Init, PreciseInv, RecursiveInv, Below

(* Nothing spurious: at every point of the run the points-to sets are      *)
(* below every solution of the value-flow equations of the graph so far,   *)
(* a solution being held to the strong updates its own sets allow.         *)
THEOREM Precision == Spec => []PreciseInv
<1>1. Init => GraphInv /\ RecursiveInv /\ PreciseInv
  BY InitInv, InitPrecise
<1>2. GraphInv /\ RecursiveInv /\ PreciseInv /\ [Next]_vars => GraphInv' /\ RecursiveInv' /\ PreciseInv'
  BY NextKeepsGraph, NextPrecise
<1> QED BY <1>1, <1>2, PTL DEF Spec

-----------------------------------------------------------------------------
(* Least is the least solution for the stores that are strong in the       *)
(* result.                                                                 *)
LEMMA ValueMonotone ==
  ASSUME GraphInv, NEW S \in States, NEW R \in States, AtMost(S, R), NEW n \in Node
  PROVE  /\ Value(S, n) \subseteq Value(R, n)
         /\ Value(S, n) \subseteq Obj
<1> DEFINE used(Q) == UNION {Q.pts[v] : v \in operands[n]}
<1>1. operands[n] \subseteq Var /\ StatementOK(stmt[n])
  BY StatementFields DEF GraphInv, TypeOK
<1>2. used(S) \subseteq used(R) /\ used(S) \subseteq Obj
  BY <1>1 DEF AtMost, States
<1>3. \A Q : Value(Q, n) = CASE stmt[n].kind = "addr" -> {stmt[n].obj}
                             [] stmt[n].kind = "copy" -> used(Q)
                             [] stmt[n].kind = "gep"  -> {stmt[n].at[o] : o \in used(Q)}
                             [] stmt[n].kind = "load" -> UNION {Q.in[n][o] : o \in Q.pts[stmt[n].ptr] \ Opaque}
                             [] OTHER -> {}
  BY DEF Value
<1> HIDE DEF used
<1>4. CASE stmt[n].kind = "addr"
  BY <1>1, <1>3, <1>4 DEF StatementOK
<1>5. CASE stmt[n].kind = "copy"
  BY <1>2, <1>3, <1>5
<1>6. CASE stmt[n].kind = "gep"
  <2>1. {stmt[n].at[o] : o \in used(S)} \subseteq {stmt[n].at[o] : o \in used(R)}
    BY <1>2
  <2>2. {stmt[n].at[o] : o \in used(S)} \subseteq Obj
    BY <1>1, <1>2, <1>6 DEF StatementOK
  <2> QED BY <1>3, <1>6, <2>1, <2>2
<1>7. CASE stmt[n].kind = "load"
  <2>1. stmt[n].ptr \in Var
    BY <1>1, <1>7 DEF StatementOK
  <2>2. \A o \in S.pts[stmt[n].ptr] : /\ o \in Obj /\ o \in R.pts[stmt[n].ptr]
                                      /\ S.in[n][o] \subseteq R.in[n][o] /\ S.in[n][o] \subseteq Obj
    BY <2>1 DEF AtMost, States
  <2> QED BY <1>3, <1>7, <2>2
<1>8. CASE stmt[n].kind \notin {"addr", "copy", "gep", "load"}
  BY <1>3, <1>8
<1> QED BY <1>4, <1>5, <1>6, <1>7, <1>8

LEMMA OutMonotone ==
  ASSUME GraphInv, NEW S \in States, NEW R \in States, AtMost(S, R), NEW n \in Node, NEW o \in Obj
  PROVE  /\ Out(S, n, o) \subseteq Out(R, n, o)
         /\ Out(S, n, o) \subseteq Obj
<1>1. S.in[n][o] \subseteq R.in[n][o] /\ S.in[n][o] \subseteq Obj
  BY DEF AtMost, States
<1>2. CASE stmt[n].kind = "store"
  <2>1. stmt[n].ptr \in Var /\ stmt[n].val \in Var
    BY <1>2, StatementFields DEF StatementOK, GraphInv
  <2>2. /\ S.pts[stmt[n].ptr] \subseteq R.pts[stmt[n].ptr]
        /\ S.pts[stmt[n].val] \subseteq R.pts[stmt[n].val]
        /\ S.pts[stmt[n].val] \subseteq Obj
    BY <2>1 DEF AtMost, States
  <2> QED BY <1>1, <1>2, <2>2 DEF Out
<1>3. CASE stmt[n].kind # "store"
  BY <1>1, <1>3 DEF Out
<1> QED BY <1>2, <1>3

LEMMA EquationsAt ==
  ASSUME NEW S
  PROVE  /\ \A v \in Var : Equations(S).pts[v] = UNION {Value(S, n) : n \in {m \in Node : v \in stmt[m].defs}}
         /\ \A n \in Node : \A o \in Obj :
              Equations(S).in[n][o] = UNION {Out(S, e[1], o) : e \in {d \in edges : d[2] = n /\ o \in d[3]}}
BY DEF Equations

LEMMA EquationsMonotone ==
  ASSUME GraphInv, NEW S \in States, NEW R \in States, AtMost(S, R)
  PROVE  AtMost(Equations(S), Equations(R)) /\ Equations(S) \in States
<1>1. ASSUME NEW v \in Var
      PROVE  /\ Equations(S).pts[v] \subseteq Equations(R).pts[v]
             /\ Equations(S).pts[v] \subseteq Obj
  BY EquationsAt, ValueMonotone
<1>2. ASSUME NEW n \in Node, NEW o \in Obj
      PROVE  /\ Equations(S).in[n][o] \subseteq Equations(R).in[n][o]
             /\ Equations(S).in[n][o] \subseteq Obj
  <2>1. \A e \in edges : e[1] \in Node
    BY EdgeFields DEF GraphInv
  <2>2. \A e \in edges : /\ Out(S, e[1], o) \subseteq Out(R, e[1], o)
                         /\ Out(S, e[1], o) \subseteq Obj
    BY <2>1, OutMonotone
  <2> QED BY <2>2, EquationsAt
<1>3. AtMost(Equations(S), Equations(R))
  BY <1>1, <1>2 DEF AtMost
<1>4. Equations(S) \in States
  <2> DEFINE P == [v \in Var |-> UNION {Value(S, n) : n \in {m \in Node : v \in stmt[m].defs}}]
             Q == [n \in Node |-> [o \in Obj |->
                     UNION {Out(S, e[1], o) : e \in {d \in edges : d[2] = n /\ o \in d[3]}}]]
  <2>1. Equations(S) = [pts |-> P, in |-> Q]
    BY DEF Equations
  <2>2. P \in [Var -> SUBSET Obj]
    <3>1. \A v \in Var : P[v] \subseteq Obj
      BY <1>1, <2>1
    <3> QED BY <3>1
  <2>3. Q \in [Node -> [Obj -> SUBSET Obj]]
    <3>1. \A n \in Node : \A o \in Obj : Q[n][o] \subseteq Obj
      BY <1>2, <2>1
    <3>2. \A n \in Node : Q[n] \in [Obj -> SUBSET Obj]
      BY <3>1
    <3> QED BY <3>2
  <2> HIDE DEF P, Q
  <2> QED BY <2>1, <2>2, <2>3 DEF States
<1> QED BY <1>3, <1>4

(* The facts of a state.                                                   *)
FactsOf(S) ==
  {f \in Facts : IF f[1] = "pts" THEN f[2][2] \in S.pts[f[2][1]]
                 ELSE f[2][2][2] \in S.in[f[2][1]][f[2][2][1]]}

LEMMA FactsFinite == IsFiniteSet(Facts) /\ Rounds \in Nat
<1>1. IsFiniteSet({"pts"}) /\ IsFiniteSet({"in"})
  BY FS_Singleton
<1>2. IsFiniteSet(Var \X Obj) /\ IsFiniteSet(Obj \X Obj)
  BY FiniteAssumption, FS_Product
<1>3. IsFiniteSet(Node \X (Obj \X Obj))
  BY <1>2, FiniteAssumption, FS_Product
<1>4. IsFiniteSet({"pts"} \X (Var \X Obj)) /\ IsFiniteSet({"in"} \X (Node \X (Obj \X Obj)))
  BY <1>1, <1>2, <1>3, FS_Product
<1>5. IsFiniteSet(Facts)
  BY <1>4, FS_Union DEF Facts
<1> QED BY <1>5, FS_CardinalityType DEF Rounds

LEMMA FactsAtMost ==
  ASSUME NEW S \in States, NEW R \in States
  PROVE  AtMost(S, R) <=> FactsOf(S) \subseteq FactsOf(R)
<1>1. ASSUME AtMost(S, R), NEW f \in FactsOf(S)
      PROVE  f \in FactsOf(R)
  <2>1. CASE f \in {"pts"} \X (Var \X Obj)
    <3>1. f[1] = "pts" /\ f[2][1] \in Var
      BY <2>1
    <3> QED BY <1>1, <3>1 DEF FactsOf, AtMost
  <2>2. CASE f \in {"in"} \X (Node \X (Obj \X Obj))
    <3>1. f[1] = "in" /\ f[2][1] \in Node /\ f[2][2][1] \in Obj
      BY <2>2
    <3> QED BY <1>1, <3>1 DEF FactsOf, AtMost
  <2> QED BY <2>1, <2>2 DEF FactsOf, Facts
<1>2. ASSUME FactsOf(S) \subseteq FactsOf(R)
      PROVE  AtMost(S, R)
  <2>1. ASSUME NEW v \in Var, NEW o \in S.pts[v]
        PROVE  o \in R.pts[v]
    <3> DEFINE f == <<"pts", <<v, o>>>>
    <3>1. o \in Obj
      BY DEF States
    <3>2. f \in Facts /\ f[1] = "pts" /\ f[2][1] = v /\ f[2][2] = o
      BY <3>1 DEF Facts
    <3> HIDE DEF f
    <3>3. f \in FactsOf(S)
      BY <3>2 DEF FactsOf
    <3>4. f \in FactsOf(R)
      BY <1>2, <3>3
    <3> QED BY <3>2, <3>4 DEF FactsOf
  <2>2. ASSUME NEW n \in Node, NEW o \in Obj, NEW x \in S.in[n][o]
        PROVE  x \in R.in[n][o]
    <3> DEFINE f == <<"in", <<n, <<o, x>>>>>>
    <3>1. x \in Obj
      BY DEF States
    <3>2. f \in Facts /\ f[1] = "in" /\ f[2][1] = n /\ f[2][2][1] = o /\ f[2][2][2] = x
      BY <3>1 DEF Facts
    <3> HIDE DEF f
    <3>3. f \in FactsOf(S)
      BY <3>2 DEF FactsOf
    <3>4. f \in FactsOf(R)
      BY <1>2, <3>3
    <3> QED BY <3>2, <3>4 DEF FactsOf
  <2> QED BY <2>1, <2>2 DEF AtMost
<1> QED BY <1>1, <1>2

LEMMA AtMostBoth ==
  ASSUME NEW S \in States, NEW R \in States, AtMost(S, R), AtMost(R, S)
  PROVE  S = R
<1>1. S.pts = R.pts
  <2>1. \A v \in Var : S.pts[v] = R.pts[v]
    BY DEF AtMost
  <2>2. S.pts \in [Var -> SUBSET Obj] /\ R.pts \in [Var -> SUBSET Obj]
    BY DEF States
  <2> QED BY <2>1, <2>2
<1>2. S.in = R.in
  <2>1. \A n \in Node : \A o \in Obj : S.in[n][o] = R.in[n][o]
    BY DEF AtMost
  <2>2. S.in \in [Node -> [Obj -> SUBSET Obj]] /\ R.in \in [Node -> [Obj -> SUBSET Obj]]
    BY DEF States
  <2>3. \A n \in Node : S.in[n] = R.in[n]
    BY <2>1, <2>2
  <2> QED BY <2>2, <2>3
<1> QED BY <1>1, <1>2 DEF States

LEMMA LeastNatural ==
  ASSUME NEW S, S \subseteq Nat, S # {}
  PROVE  \E n \in S : \A m \in S : n <= m
<1>1. PICK n \in S : \A m \in S : <<m, n>> \notin OpToRel(<, Nat)
  BY NatLessThanWellFounded, WFMin
<1>2. \A m \in S : ~(m < n)
  BY <1>1 DEF OpToRel
<1> QED BY <1>2

LEMMA Induction ==
  ASSUME NEW T, T \subseteq Nat, 0 \in T, \A i \in T : i + 1 \in T
  PROVE  T = Nat
<1> SUFFICES ASSUME T # Nat PROVE FALSE
  OBVIOUS
<1>1. PICK x \in Nat \ T : \A y \in Nat \ T : x <= y
  BY LeastNatural
<1>2. x - 1 \in Nat /\ x - 1 \in T
  BY <1>1
<1> QED BY <1>1, <1>2

(* f[i] has what i rounds add.                                             *)
Adds(f, n) == f = [i \in 0 .. n |-> IF i = 0 THEN Nothing ELSE Equations(f[i - 1])]

LEMMA AddsExists ==
  ASSUME NEW n \in Nat
  PROVE  \E f : Adds(f, n)
<1> DEFINE T == {k \in Nat : \E f : Adds(f, k)}
<1>1. 0 \in T
  <2> DEFINE f == [i \in 0 .. 0 |-> Nothing]
  <2>1. f = [i \in 0 .. 0 |-> IF i = 0 THEN Nothing ELSE Equations(f[i - 1])]
    OBVIOUS
  <2> QED BY <2>1 DEF Adds
<1>2. ASSUME NEW k \in T
      PROVE  k + 1 \in T
  <2>1. PICK f : Adds(f, k)
    OBVIOUS
  <2> DEFINE g == [i \in 0 .. k + 1 |-> IF i = k + 1 THEN Equations(f[k]) ELSE f[i]]
             h == [i \in 0 .. k + 1 |-> IF i = 0 THEN Nothing ELSE Equations(g[i - 1])]
  <2>2. k \in Nat /\ \A i \in 0 .. k : f[i] = IF i = 0 THEN Nothing ELSE Equations(f[i - 1])
    BY <2>1 DEF Adds
  <2>3. \A i \in 0 .. k + 1 : g[i] = h[i]
    <3> TAKE i \in 0 .. k + 1
    <3>1. CASE i = k + 1
      BY <2>2, <3>1
    <3>2. CASE i \in 0 .. k /\ i # 0
      <4>1. i - 1 \in 0 .. k /\ i - 1 # k + 1 /\ i # k + 1 /\ i - 1 \in 0 .. k + 1
        BY <2>2, <3>2
      <4>2. g[i] = f[i] /\ g[i - 1] = f[i - 1]
        BY <4>1
      <4> QED BY <2>2, <3>2, <4>2
    <3>3. CASE i = 0
      BY <2>2, <3>3
    <3> QED BY <2>2, <3>1, <3>2, <3>3
  <2>4. g = h
    BY <2>3
  <2>5. Adds(g, k + 1)
    BY <2>4 DEF Adds
  <2> QED BY <2>2, <2>5
<1> HIDE DEF T
<1>3. T = Nat
  <2>1. T \subseteq Nat
    BY DEF T
  <2> QED BY <1>1, <1>2, <2>1, Induction
<1> QED BY <1>3 DEF T

LEMMA NothingIsLeast ==
  /\ Nothing \in States
  /\ \A S \in States : AtMost(Nothing, S)
BY DEF Nothing, States, AtMost

(* As many rounds as there are facts reach a state the equations add       *)
(* nothing to, and no state they add nothing to is missed.                 *)
LEMMA AddsFacts ==
  ASSUME GraphInv, NEW n, n = Rounds, NEW f, Adds(f, n)
  PROVE  /\ f[n] \in States /\ Equations(f[n]) = f[n]
         /\ \A S \in States : AtMost(Equations(S), S) => AtMost(f[n], S)
<1>1. n \in Nat /\ IsFiniteSet(Facts) /\ n = Cardinality(Facts)
  BY FactsFinite DEF Rounds
<1>2. f[0] = Nothing /\ \A i \in 0 .. n : i + 1 \in 0 .. n => f[i + 1] = Equations(f[i])
  <2>1. \A i \in 0 .. n : f[i] = IF i = 0 THEN Nothing ELSE Equations(f[i - 1])
    BY DEF Adds
  <2> QED BY <1>1, <2>1
<1>3. \A S \in States : FactsOf(S) \subseteq Facts /\ IsFiniteSet(FactsOf(S)) /\ Cardinality(FactsOf(S)) \in Nat
  BY <1>1, FS_Subset, FS_CardinalityType DEF FactsOf
<1>4. ASSUME NEW S \in States, NEW R \in States, AtMost(S, R)
      PROVE  /\ Cardinality(FactsOf(S)) <= Cardinality(FactsOf(R))
             /\ Cardinality(FactsOf(S)) = Cardinality(FactsOf(R)) => S = R
  <2>1. FactsOf(S) \subseteq FactsOf(R)
    BY <1>4, FactsAtMost
  <2>2. /\ Cardinality(FactsOf(S)) <= Cardinality(FactsOf(R))
        /\ Cardinality(FactsOf(S)) = Cardinality(FactsOf(R)) => FactsOf(S) = FactsOf(R)
    BY <1>3, <2>1, FS_Subset
  <2>3. FactsOf(S) = FactsOf(R) => S = R
    BY FactsAtMost, AtMostBoth
  <2> QED BY <2>2, <2>3
<1>5. /\ f[n] \in States /\ AtMost(f[n], Equations(f[n]))
      /\ Equations(f[n]) = f[n] \/ Cardinality(FactsOf(f[n])) >= n
  <2> DEFINE T == {i \in Nat : i <= n =>
                     /\ f[i] \in States /\ AtMost(f[i], Equations(f[i]))
                     /\ Equations(f[i]) = f[i] \/ Cardinality(FactsOf(f[i])) >= i}
  <2>1. 0 \in T
    <3>1. f[0] \in States /\ Equations(f[0]) \in States
      BY <1>2, NothingIsLeast, EquationsMonotone
    <3>2. AtMost(f[0], Equations(f[0])) /\ Cardinality(FactsOf(f[0])) \in Nat
      BY <1>2, <1>3, <3>1, NothingIsLeast
    <3> QED BY <3>1, <3>2
  <2>2. ASSUME NEW i \in T
        PROVE  i + 1 \in T
    <3>1. SUFFICES ASSUME i + 1 <= n
                   PROVE  /\ f[i + 1] \in States /\ AtMost(f[i + 1], Equations(f[i + 1]))
                          /\ Equations(f[i + 1]) = f[i + 1] \/ Cardinality(FactsOf(f[i + 1])) >= i + 1
      OBVIOUS
    <3>2. /\ f[i] \in States /\ i \in Nat /\ AtMost(f[i], Equations(f[i]))
          /\ Equations(f[i]) = f[i] \/ Cardinality(FactsOf(f[i])) >= i
          /\ f[i + 1] = Equations(f[i])
      BY <1>1, <1>2, <3>1
    <3>3. f[i + 1] \in States /\ AtMost(f[i], f[i + 1])
      <4>1. AtMost(f[i], f[i])
        BY DEF AtMost
      <4>2. Equations(f[i]) \in States
        BY <3>2, <4>1, EquationsMonotone
      <4> QED BY <3>2, <4>2
    <3>4. AtMost(f[i + 1], Equations(f[i + 1]))
      BY <3>2, <3>3, EquationsMonotone
    <3>5. CASE Equations(f[i]) = f[i]
      BY <3>2, <3>3, <3>4, <3>5
    <3>6. CASE Equations(f[i]) # f[i]
      <4>1. /\ Cardinality(FactsOf(f[i])) <= Cardinality(FactsOf(f[i + 1]))
            /\ Cardinality(FactsOf(f[i])) # Cardinality(FactsOf(f[i + 1]))
        BY <1>4, <3>2, <3>3, <3>6
      <4>2. Cardinality(FactsOf(f[i])) \in Nat /\ Cardinality(FactsOf(f[i + 1])) \in Nat
        BY <1>3, <3>2, <3>3
      <4> QED BY <3>2, <3>3, <3>4, <3>6, <4>1, <4>2
    <3> QED BY <3>5, <3>6
  <2>3. T = Nat
    <3>1. T \subseteq Nat
      OBVIOUS
    <3> HIDE DEF T
    <3> QED BY <2>1, <2>2, <3>1, Induction
  <2> QED BY <1>1, <2>3
<1>6. Equations(f[n]) = f[n]
  <2>1. Equations(f[n]) \in States
    BY <1>5, EquationsMonotone DEF AtMost
  <2>2. Cardinality(FactsOf(Equations(f[n]))) <= n
    BY <1>1, <1>3, <2>1, FS_Subset
  <2>3. Cardinality(FactsOf(f[n])) <= Cardinality(FactsOf(Equations(f[n])))
    BY <1>4, <1>5, <2>1
  <2>4. Cardinality(FactsOf(f[n])) \in Nat /\ Cardinality(FactsOf(Equations(f[n]))) \in Nat
    BY <1>3, <1>5, <2>1
  <2>5. CASE Cardinality(FactsOf(f[n])) >= n
    <3>1. Cardinality(FactsOf(f[n])) = Cardinality(FactsOf(Equations(f[n])))
      BY <1>1, <2>2, <2>3, <2>4, <2>5
    <3> QED BY <1>4, <1>5, <2>1, <3>1
  <2> QED BY <1>5, <2>5
<1>7. ASSUME NEW S \in States, AtMost(Equations(S), S)
      PROVE  AtMost(f[n], S)
  <2> DEFINE T == {i \in Nat : i <= n => f[i] \in States /\ AtMost(f[i], S)}
  <2>1. 0 \in T
    BY <1>2, NothingIsLeast
  <2>2. ASSUME NEW i \in T
        PROVE  i + 1 \in T
    <3>1. SUFFICES ASSUME i + 1 <= n
                   PROVE  f[i + 1] \in States /\ AtMost(f[i + 1], S)
      OBVIOUS
    <3>2. /\ f[i] \in States /\ AtMost(f[i], S)
          /\ f[i + 1] = Equations(f[i])
      BY <1>1, <1>2, <3>1
    <3>3. AtMost(Equations(f[i]), Equations(S)) /\ Equations(f[i]) \in States
      BY <3>2, EquationsMonotone
    <3> QED BY <1>7, <3>2, <3>3 DEF AtMost
  <2>3. T = Nat
    <3>1. T \subseteq Nat
      OBVIOUS
    <3> HIDE DEF T
    <3> QED BY <2>1, <2>2, <3>1, Induction
  <2> QED BY <1>1, <2>3
<1> QED BY <1>5, <1>6, <1>7

LEMMA LeastFacts ==
  ASSUME GraphInv
  PROVE  /\ Least \in States /\ Equations(Least) = Least
         /\ \A S \in States : AtMost(Equations(S), S) => AtMost(Least, S)
<1> DEFINE n == Rounds
           g == CHOOSE f : f = [i \in 0 .. n |-> IF i = 0 THEN Nothing ELSE Equations(f[i - 1])]
<1>1. n \in Nat
  BY FactsFinite
<1>2. Least = g[n]
  BY Zenon DEF Least
<1>3. Adds(g, n)
  <2>1. \E f : Adds(f, n)
    <3> HIDE DEF n
    <3> QED BY <1>1, AddsExists
  <2> QED BY <2>1, Zenon DEF Adds
<1> HIDE DEF g
<1> QED BY <1>2, <1>3, AddsFacts

-----------------------------------------------------------------------------
(* The result is the least solution.                                       *)
LEMMA ResultHolds ==
  ASSUME GraphInv, \A n \in Node : NodeHolds(n), \A e \in edges : EdgeHolds(e),
         NEW X, X = [pts |-> pts, in |-> dfIn]
  PROVE  X \in States /\ AtMost(Equations(X), X)
<1> USE DEF GraphInv
<1>1. X \in States /\ X.pts = pts /\ X.in = dfIn
  BY DEF States, TypeOK
<1>2. ASSUME NEW n \in Node, NEW v \in stmt[n].defs
      PROVE  Value(X, n) \subseteq pts[v]
  <2>1. NodeHolds(n)
    OBVIOUS
  <2>2. CASE stmt[n].kind \in {"addr", "copy", "gep"}
    <3>1. Value(X, n) = TopLevelResult(n)
      BY <1>1, <2>2 DEF Value, TopLevelResult, Sources
    <3> QED BY <2>1, <2>2, <3>1 DEF NodeHolds
  <2>3. CASE stmt[n].kind = "load"
    <3>1. Value(X, n) = UNION {dfIn[n][o] : o \in pts[stmt[n].ptr] \ Opaque}
      BY <1>1, <2>3 DEF Value
    <3>2. \A o \in pts[stmt[n].ptr] \ Opaque : dfIn[n][o] \subseteq pts[v]
      BY <2>1, <2>3 DEF NodeHolds
    <3> QED BY <3>1, <3>2
  <2>4. CASE stmt[n].kind \notin {"addr", "copy", "gep", "load"}
    BY <2>4 DEF Value
  <2> QED BY <2>2, <2>3, <2>4
<1>3. ASSUME NEW n \in Node, NEW o \in Obj, stmt[n].kind \in {"store", "pass"}
      PROVE  Out(X, n, o) \subseteq Flow(n)[o]
  <2>1. NodeHolds(n)
    OBVIOUS
  <2>2. CASE stmt[n].kind = "pass"
    BY <1>1, <2>2 DEF Out, Flow
  <2>3. CASE stmt[n].kind = "store" /\ pts[stmt[n].ptr] = {}
    BY <1>1, <2>3 DEF Out
  <2>4. CASE stmt[n].kind = "store" /\ pts[stmt[n].ptr] # {}
    <3>1. /\ \A a \in pts[stmt[n].ptr] \ Opaque : pts[stmt[n].val] \subseteq dfOut[n][a]
          /\ \A a \in Obj \ Killed(n) : dfIn[n][a] \subseteq dfOut[n][a]
      BY <2>1, <2>4 DEF NodeHolds, StoreHasTarget
    <3> QED BY <1>1, <2>4, <3>1 DEF Out, Flow
  <2> QED BY <1>3, <2>2, <2>3, <2>4
<1>4. ASSUME NEW n \in Node, NEW o \in Obj, NEW e \in edges, e[2] = n, o \in e[3]
      PROVE  Out(X, e[1], o) \subseteq dfIn[n][o]
  <2>1. Out(X, e[1], o) \subseteq Flow(e[1])[o]
    BY <1>3, EdgeFields
  <2>2. Flow(e[1])[o] \subseteq dfIn[n][o]
    BY <1>4 DEF EdgeHolds
  <2> QED BY <2>1, <2>2
<1>5. \A v \in Var : Equations(X).pts[v] \subseteq X.pts[v]
  BY <1>1, <1>2, EquationsAt
<1>6. \A n \in Node : \A o \in Obj : Equations(X).in[n][o] \subseteq X.in[n][o]
  BY <1>1, <1>4, EquationsAt
<1> QED BY <1>1, <1>5, <1>6 DEF AtMost

(* A store that is strong in a state above is strong below or has no       *)
(* target.                                                                 *)
LEMMA SolutionBelow ==
  ASSUME GraphInv, NEW X, X = [pts |-> pts, in |-> dfIn],
         NEW S \in States, AtMost(S, X), AtMost(Equations(S), S)
  PROVE  Solves(S)
<1>1. ASSUME NEW n \in Node, NEW v \in stmt[n].defs
      PROVE  Value(S, n) \subseteq S.pts[v]
  <2>1. v \in Var
    BY StatementFields DEF StatementOK, GraphInv
  <2>2. Value(S, n) \subseteq Equations(S).pts[v]
    BY <2>1, EquationsAt
  <2> QED BY <2>1, <2>2 DEF AtMost
<1>2. ASSUME NEW n \in Node, NEW o \in Obj
      PROVE  OutBy(S, n, o) \subseteq Out(S, n, o)
  <2>1. CASE stmt[n].kind = "store" /\ S.pts[stmt[n].ptr] # {}
    <3>1. stmt[n].ptr \in Var
      BY <2>1, StatementFields DEF StatementOK, GraphInv
    <3>2. S.pts[stmt[n].ptr] \subseteq pts[stmt[n].ptr]
      BY <3>1 DEF AtMost
    <3>3. Killed(n) \subseteq KilledBy(S, n)
      BY <2>1, <3>2 DEF Killed, IsStrongUpdate, KilledBy
    <3> QED BY <2>1, <3>3 DEF OutBy, Out
  <2>2. CASE ~ (stmt[n].kind = "store" /\ S.pts[stmt[n].ptr] # {})
    BY <2>2 DEF OutBy, Out
  <2> QED BY <2>1, <2>2
<1>3. ASSUME NEW e \in edges, NEW o \in e[3]
      PROVE  OutBy(S, e[1], o) \subseteq S.in[e[2]][o]
  <2>1. e[1] \in Node /\ e[2] \in Node /\ o \in Obj
    BY EdgeFields DEF GraphInv
  <2>2. Out(S, e[1], o) \subseteq Equations(S).in[e[2]][o]
    BY <2>1, EquationsAt
  <2> QED BY <1>2, <2>1, <2>2 DEF AtMost
<1> QED BY <1>1, <1>3 DEF Solves

(* When the analysis ends its result is the least solution of the          *)
(* equations for the stores that are strong in it, for every graph, every  *)
(* order of the nodes and every set of callees found on the way.           *)
THEOREM LeastSolution == Spec => []DoneIsLeast
<1>1. IInv /\ PreciseInv => DoneIsLeast
  <2> SUFFICES ASSUME IInv, PreciseInv, phase = "done"
               PROVE  Least = [pts |-> pts, in |-> dfIn]
    BY DEF DoneIsLeast
  <2> DEFINE X == [pts |-> pts, in |-> dfIn]
  <2>1. GraphInv /\ (\A n \in Node : NodeHolds(n)) /\ (\A e \in edges : EdgeHolds(e))
    BY ResultSolves DEF IInv, DoneIsSolution
  <2>2. X \in States /\ AtMost(Equations(X), X)
    BY <2>1, ResultHolds
  <2>3. Least \in States /\ AtMost(Least, X) /\ AtMost(Equations(Least), Least)
    BY <2>1, <2>2, LeastFacts DEF AtMost
  <2>4. Solves(Least)
    BY <2>1, <2>3, SolutionBelow
  <2>5. Below(Least)
    BY <2>4 DEF PreciseInv
  <2>6. AtMost(X, Least)
    BY <2>5 DEF Below, AtMost
  <2> QED BY <2>2, <2>3, <2>6, AtMostBoth
<1>2. Spec => []IInv
  <2>1. Init => IInv
    BY InitInv DEF IInv, ResultInv, Init
  <2> QED BY <2>1, NextKeepsIInv, PTL DEF Spec
<1> QED BY <1>1, <1>2, Precision, PTL

=============================================================================
