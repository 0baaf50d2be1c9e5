---------------------------- MODULE MCMemRegions ----------------------------
(***************************************************************************)
(* MemRegions on programs of three functions.  main calls f, or through a  *)
(* pointer f or g, at c1; f calls g, or itself and g, at c2; at c3 g may   *)
(* call f, or itself, or nothing.  l and m are locals of main, r is a      *)
(* local of f, h is on the heap or global.                                 *)
(* Calls varies the calls, Chains what objects point to, Partitions the    *)
(* sets of objects used in one function.                                   *)
(***************************************************************************)
EXTENDS MemRegions, TLC

CONSTANTS main, f, g, c1, c2, c3, l, m, r, h

Functions == {main, f, g}
Sites     == {c1, c2, c3}
Objects   == {l, m, r, h}

Program(C1, C2, C3, A, L, M, H, st, ld, kind) ==
  [caller  |-> c1 :> main @@ c2 :> f @@ c3 :> g,
   callees |-> c1 :> C1 @@ c2 :> C2 @@ c3 :> C3,
   args    |-> c1 :> {l} @@ c2 :> {A} @@ c3 :> {l, r},
   points  |-> l :> L @@ m :> M @@ r :> {l} @@ h :> {},
   home    |-> l :> main @@ m :> main @@ r :> f @@ h :> H,
   stores  |-> main :> {{l}} @@ f :> {{r, h}} @@ g :> st,
   loads   |-> main :> {{m}, {l, m}} @@ f :> ld @@ g :> {{l}},
   partition |-> kind]

Calls ==
  {Program(C1, C2, C3, A, {m}, {}, H, st, {{r}}, "intra") :
     C1 \in {{f}, {f, g}}, C2 \in {{g}, {f, g}}, C3 \in {{}, {f}, {g}}, A \in {l, r},
     H \in {"heap", "global"}, st \in {{{m}}, {{m, r}, {l, h}}}}

Chains ==
  {Program({f}, {g}, {}, A, L, M, H, {{m}}, {{r}}, "intra") :
     A \in {l, m, r}, L \in {{}, {m}, {m, h}}, M \in {{}, {l}, {h}, {r, h}}, H \in {"heap", "global"}}

Partitions ==
  {Program({f}, {g}, {}, r, {m}, {}, "heap", st, ld, kind) :
     st \in {{{m}}, {{m, r}, {l, h}}, {{l, m, h}}}, ld \in {{}, {{r}}, {{l, m}, {m, h}}},
     kind \in {"distinct", "intra", "inter"}}

(* f and g call each other; f has no loads or stores, g stores to m.       *)
MutualPrograms ==
  {[Program({f}, {g}, {f}, r, {m}, {}, "heap", {{m}}, {}, "intra") EXCEPT !.stores[f] = {}]}

SmallPrograms == Calls \cup Chains \cup Partitions \cup MutualPrograms

=============================================================================
