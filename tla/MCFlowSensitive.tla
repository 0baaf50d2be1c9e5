-------------------------- MODULE MCFlowSensitive --------------------------
(***************************************************************************)
(* FlowSensitive on the value-flow graphs of one program:                  *)
(*                                                                         *)
(*     p = &x;  q = p + field;                                             *)
(*     s1: *p = &f;     s2: *t = &g;     t = phi(...)                      *)
(*     r = *p;          call r;                                            *)
(*                                                                         *)
(* t starts without operands or with p; x is a cell that may be            *)
(* overwritten, its field y, an array, is not.  Node m stands for an       *)
(* MSSAPHI or FormalIN.                                                    *)
(* Calling f makes q an operand of t, adds edges around m, and may make x  *)
(* a local of a recursive function; calling g makes p an operand.  So s2   *)
(* may have no target, then a strong one, then several.                    *)
(***************************************************************************)
EXTENDS FlowSensitive, TLC

CONSTANTS p, q, r, t, u, v, x, y, f, g, ap, aq, af, ag, s1, s2, l, m, ph

Variables == {p, q, r, t, u, v}
Objects   == {x, y, f, g}
Functions == {f, g}
Nodes     == {ap, aq, af, ag, s1, s2, l, m, ph}

FieldOf == [o \in Objects |-> IF o = x THEN y ELSE o]

StatementOf(T) ==
  ap :> Addr(p, x) @@ aq :> Gep(q, p, FieldOf) @@ af :> Addr(u, f) @@ ag :> Addr(v, g) @@
  s1 :> Store(p, u) @@ s2 :> Store(t, v) @@ l :> Load(r, p) @@ m :> Pass @@ ph :> Copy(t, T)

Optional == {<<s1, s2, {x}>>, <<s1, l, {x}>>, <<s1, m, {x}>>, <<m, s2, {x}>>}

Callees(L) ==
  [c \in Functions |->
     IF c = f THEN [operands |-> {<<ph, q>>}, edges |-> {<<s2, m, {x, y}>>, <<m, l, {x}>>}, locals |-> L]
              ELSE [operands |-> {<<ph, p>>}, edges |-> {}, locals |-> {}]]

Graphs ==
  [stmt : {StatementOf(T) : T \in {{}, {p}}},
   edges : {E \cup {<<s2, l, {x, y}>>} : E \in SUBSET Optional},
   fptr : {r},
   callee : {Callees(L) : L \in {{}, {x}}}]

=============================================================================
