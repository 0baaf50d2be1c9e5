----------------------------- MODULE MCCallTrace -----------------------------
(* CallTrace with three functions and traces of up to six events.          *)
EXTENDS CallTrace

SmallNames == 1 .. 3

(* Function 1 may also be left with other arguments than it was entered.   *)
SmallSymbols ==
  [kind : {"Enter", "Leave"}, name : SmallNames, args : {0}]
    \cup {[kind |-> "Leave", name |-> 1, args |-> 1]}
=============================================================================
