-------------------------- MODULE StronglyConnected --------------------------
(***************************************************************************)
(* The strongly connected components of a graph, and what its users may    *)
(* expect of the detector in Util/SCC.h, whatever order it searches in.    *)
(***************************************************************************)
CONSTANT Node

Edge == Node \X Node

(***************************************************************************)
(* Two nodes are in one component if the same sets closed under the edges  *)
(* contain them.                                                           *)
(***************************************************************************)
ClosedSets(E) == {S \in SUBSET Node : \A e \in E : e[1] \in S => e[2] \in S}

Components(E) ==
  LET closed == ClosedSets(E)
  IN  [n \in Node |-> {m \in Node : \A S \in closed : m \in S <=> n \in S}]

(***************************************************************************)
(* The detector picks one node of each component as its representative,    *)
(* which one depends on the order of its search: RootMaps has every choice.*)
(***************************************************************************)
RootMaps(E) ==
  LET scc    == Components(E)
      cyclic == {C \in {scc[n] : n \in Node} : \E m, n \in C : m # n}
      roots  == {root \in [cyclic -> UNION cyclic] : \A C \in cyclic : root[C] \in C}
  IN  {[n \in Node |-> IF scc[n] \in cyclic THEN root[scc[n]] ELSE n] : root \in roots}

=============================================================================
