------------------------------ MODULE MCMemSSA ------------------------------
(***************************************************************************)
(* StephenPass and MemSSA on every function of four blocks: e is entered   *)
(* first, x returns if it is reached, b and c go anywhere but back to e or *)
(* end the program.  Blocks read and write regions r and q.                *)
(***************************************************************************)
EXTENDS StephenPass

CONSTANTS e, b, c, x, r, q

Blocks  == {e, b, c, x}
Regions == {r, q}

Load(S)    == [mu |-> S, chi |-> {}]
Store(S)   == [mu |-> {}, chi |-> S]
Call(S, T) == [mu |-> S, chi |-> T]

Function(se, sb, sc, ce, cb, cc, cx) ==
  [entry |-> e, ret |-> {x},
   succ  |-> [k \in Blocks |-> CASE k = e -> se [] k = b -> sb [] k = c -> sc [] k = x -> {}],
   code  |-> [k \in Blocks |-> CASE k = e -> ce [] k = b -> cb [] k = c -> cc [] k = x -> cx]]

SmallFunctions ==
  {Function(se, sb, sc, ce, cb, cc, cx) :
     se \in SUBSET {b, c, x}, sb \in SUBSET {b, c, x}, sc \in SUBSET {b, c, x},
     ce \in {<<>>, <<Store({r})>>}, cb \in {<<Store({r}), Call({r}, {r, q})>>},
     cc \in {<<Load({r, q})>>, <<Store({r})>>}, cx \in {<<Load({r})>>}}

=============================================================================
