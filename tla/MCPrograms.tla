----------------------------- MODULE MCPrograms -----------------------------
(***************************************************************************)
(* The programs the constraint solvers are checked on: two pointers a, b   *)
(* and two objects x, y.  Loads and stores through a and b put the objects *)
(* into the graph as copy targets, so copy cycles arise before and during  *)
(* solving and merged nodes merge again.                                   *)
(* The objects are also functions that may be callable through a.  Calling *)
(* x passes b to a, so that a may point to y in the next round; calling y  *)
(* passes a to b.                                                          *)
(***************************************************************************)
CONSTANTS a, b, x, y, c

Nodes   == {a, b, x, y}
Objects == {x, y}

SmallPrograms ==
  [addr   : {{<<x, a>>, <<x, b>>}, {<<x, a>>, <<y, b>>},
             {<<x, a>>, <<x, b>>, <<y, b>>}, {<<x, a>>, <<y, a>>, <<y, b>>}},
   copy   : SUBSET {<<a, b>>, <<b, a>>},
   load   : SUBSET {<<a, a>>, <<a, b>>, <<b, a>>},
   store  : SUBSET {<<a, b>>, <<b, a>>, <<b, b>>},
   funptr : {[s \in {c} |-> a]},
   callee : {{}, {<<c, x>>, <<c, y>>}},
   params : {[t \in {c} \X Objects |-> IF t[2] = x THEN {<<b, a>>} ELSE {<<a, b>>}]}]

(* In order: a = &x, b = &y, b = a, load a through a, store b through a.   *)
(* The first wave makes x a copy source of a and a copy target of b, the   *)
(* second merges all three.                                                *)
MergeProgram ==
  [addr   |-> {<<x, a>>, <<y, b>>},
   copy   |-> {<<a, b>>},
   load   |-> {<<a, a>>},
   store  |-> {<<b, a>>},
   funptr |-> [s \in {c} |-> a],
   callee |-> {},
   params |-> [t \in {c} \X Objects |-> {}]]

MergePrograms == {MergeProgram}

=============================================================================
