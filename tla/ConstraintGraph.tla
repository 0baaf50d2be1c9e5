--------------------------- MODULE ConstraintGraph ---------------------------
(***************************************************************************)
(* The constraint graph of SVF's inclusion-based (Andersen) pointer        *)
(* analysis, and what it means to solve it.                                *)
(*                                                                         *)
(* Every variable and every abstract memory object of the analysed program *)
(* is a node.  The edges are the constraints the program text gives rise   *)
(* to, and the solvers (Andersen, AndersenWaveDiff) move points-to sets    *)
(* along them, add copy edges for what loads and stores reach, and merge   *)
(* the nodes of a copy cycle into one representative.                      *)
(*                                                                         *)
(* Node, declared by StronglyConnected, is the set of PAG node ids.  The   *)
(* programs considered here have no field accesses (no gep edges).         *)
(***************************************************************************)
EXTENDS Integers, FiniteSets, StronglyConnected

CONSTANTS
  Obj,                \* the nodes that are memory objects
  Opaque,             \* objects no pointer is loaded from or stored to:
                      \* isConstantObj or isNonPointerObj
  CallSite,           \* the indirect call sites
  IndirectCallLimit,  \* budget of resolved indirect call edges
  Programs            \* the programs that may be analysed

(***************************************************************************)
(* A program: its addr, copy, load and store constraints, and for its      *)
(* indirect calls the function pointer called, the functions whose number  *)
(* of arguments matches, and the copies that passing the arguments and     *)
(* returning the result amount to.                                         *)
(***************************************************************************)
Program ==
  [addr   : SUBSET (Obj \X Node),
   copy   : SUBSET Edge,
   load   : SUBSET Edge,
   store  : SUBSET Edge,
   funptr : [CallSite -> Node],
   callee : SUBSET (CallSite \X Obj),
   params : [CallSite \X Obj -> SUBSET Edge]]

ASSUME GraphAssumption ==
  /\ Obj \subseteq Node
  /\ Opaque \subseteq Obj
  /\ IndirectCallLimit \in Nat
  /\ Programs \subseteq Program

-----------------------------------------------------------------------------
(***************************************************************************)
(* What a points-to assignment S in [Node -> SUBSET Obj] has to satisfy.   *)
(***************************************************************************)
Assignment == [Node -> SUBSET Obj]

AddrHolds(p, S)  == \A e \in p.addr : e[1] \in S[e[2]]
CopyHolds(p, S)  == \A e \in p.copy : S[e[1]] \subseteq S[e[2]]
LoadHolds(p, S)  == \A e \in p.load : \A o \in S[e[1]] \ Opaque :
                      S[o] \subseteq S[e[2]]
StoreHolds(p, S) == \A e \in p.store : \A o \in S[e[2]] \ Opaque :
                      S[e[1]] \subseteq S[o]
CallHolds(p, S)  == \A c \in p.callee : c[2] \in S[p.funptr[c[1]]] =>
                      \A e \in p.params[c] : S[e[1]] \subseteq S[e[2]]

IsSolution(p, S) ==
  /\ AddrHolds(p, S)
  /\ CopyHolds(p, S)
  /\ LoadHolds(p, S)
  /\ StoreHolds(p, S)
  /\ CallHolds(p, S)

(* Nothing in S goes beyond what every solution has to contain.            *)
NothingSpurious(p, S) ==
  \A T \in Assignment : IsSolution(p, T) => \A n \in Node : S[n] \subseteq T[n]

-----------------------------------------------------------------------------
(***************************************************************************)
(* Operations on the graph (ConsG.cpp).                                    *)
(***************************************************************************)

(* addCopyCGEdge refuses an edge from a node to itself.                    *)
NoLoops(E) == {e \in E : e[1] # e[2]}

(* The copy edges connectCaller2CalleeParams adds for the resolved calls C,*)
(* between the representatives of actual and formal parameters.            *)
ParamCopies(p, C, rep) ==
  NoLoops({<<rep[e[1]], rep[e[2]]>> : e \in UNION {p.params[c] : c \in C}})

(* Merging moves every edge of a merged node to its representative; a copy *)
(* edge that ends up inside one component disappears, a load or store edge *)
(* stays as a loop.                                                        *)
Moved(E, root) == {<<root[e[1]], root[e[2]]>> : e \in E}

(***************************************************************************)
(* mergeSccCycle: node n is folded into root[n].  subs[m] are the nodes m  *)
(* stands for; those of a merged m follow it to its new representative     *)
(* (updateNodeRepAndSubs), and the representative's points-to set becomes  *)
(* the union of its component's (mergeNodeToRep).                          *)
(***************************************************************************)
MergedNodes(root) == {m \in Node : root[m] # m}

(* Faulty: the nodes a merged node stood for are left behind.              *)
MergedRepShallow(rep, subs, root) ==
  [n \in Node |-> IF root[n] # n THEN root[n] ELSE rep[n]]

MergedRep(rep, subs, root) ==
  [n \in Node |->
     IF \E m \in MergedNodes(root) : n \in subs[m]
     THEN root[CHOOSE m \in MergedNodes(root) : n \in subs[m]]
     ELSE rep[n]]

MergedSubs(subs, root) ==
  [r \in Node |->
     subs[r] \cup UNION {subs[m] : m \in {k \in MergedNodes(root) : root[k] = r}}]

MergedPts(pts, root) ==
  [r \in Node |-> IF root[r] # r THEN pts[r]
                  ELSE UNION {pts[m] : m \in {k \in Node : root[k] = r}}]

(***************************************************************************)
(* The indirect calls a solver may resolve now: the functions pointed to,  *)
(* as many as the budget allows.  resolveIndCalls stops once MORE than     *)
(* IndirectCallLimit edges have been resolved.                             *)
(***************************************************************************)
(* Faulty: the number of arguments is not compared.                        *)
CallableUnmatched(p, S, resolved) ==
  {c \in (CallSite \X Obj) \ resolved : c[2] \in S[p.funptr[c[1]]]}

Callable(p, S, resolved) ==
  {c \in p.callee \ resolved : c[2] \in S[p.funptr[c[1]]]}

BudgetLeft(resolved) == IndirectCallLimit + 1 - Cardinality(resolved)

NewCalls(p, S, resolved) ==
  LET open == Callable(p, S, resolved)
  IN  {C \in SUBSET open : \/ C = open /\ Cardinality(C) <= BudgetLeft(resolved)
                           \/ Cardinality(C) = BudgetLeft(resolved)}

=============================================================================
