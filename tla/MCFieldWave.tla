----------------------------- MODULE MCFieldWave -----------------------------
(***************************************************************************)
(* FieldWave on programs with four pointers, a struct s with two fields    *)
(* and an opaque object t.                                                 *)
(***************************************************************************)
EXTENDS FieldWave

CONSTANTS p, q, r, u, s, t

Objects == {<<s, -1>>, <<s, 0>>, <<s, 1>>, <<t, -1>>}
Nodes   == {p, q, r, u} \cup Objects
Limits  == [m \in {s, t} |-> IF m = s THEN 2 ELSE 1]

(* p starts with s, u with t; the other pointers are made from them.       *)
NoStatements == [addr |-> {<<<<s, -1>>, p>>, <<<<t, -1>>, u>>}, copy |-> {}, load |-> {},
                 store |-> {}, funptr |-> <<>>, callee |-> {}, params |-> <<>>]

With(copy, load, store) ==
  [NoStatements EXCEPT !.copy = copy, !.load = load, !.store = store]

(* r points to s only once a load was handled, when s and its field have   *)
(* contents already.                                                       *)
Late == With({}, {<<p, r>>}, {<<p, p>>, <<u, q>>})

FieldPrograms ==
  {Late} \cup
  {With(c, l, w) : c \in {{}, {<<q, p>>}, {<<p, r>>}, {<<r, p>>, <<q, r>>}},
                   l \in {{}, {<<q, r>>}},
                   w \in {{<<q, p>>}, {<<u, q>>}}}

Geps == [normal  : {{<<p, q, 1>>}, {<<p, q, 0>>, <<q, r, 1>>}},
         variant : {{<<p, r>>}, {<<r, q>>}}]

=============================================================================
