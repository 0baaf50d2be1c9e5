--------------------------- MODULE PlainExecution ---------------------------
(***************************************************************************)
(* A function of the program to be annotated, as it runs without the       *)
(* annotation.  Only its stores and branches matter: a block is a sequence *)
(* of stores and ends in a branch, whose condition is not looked at.       *)
(***************************************************************************)
EXTENDS Naturals, Sequences

CONSTANTS
  Loc,        \* the locations stored to
  Value,      \* the values stored
  Functions   \* the functions that may be run

VARIABLES
  func,   \* the function
  mem,    \* memory
  at      \* <<block, index of the store executed next>>

vars == <<func, mem, at>>

Init ==
  /\ func \in Functions
  /\ mem \in [Loc -> Value]
  /\ at = <<1, 1>>

current  == func[at[1]]
AtStore  == at[2] <= Len(current.stores)

Store ==
  /\ AtStore
  /\ LET s == current.stores[at[2]] IN mem' = [mem EXCEPT ![s.ptr] = s.val]
  /\ at' = <<at[1], at[2] + 1>>
  /\ UNCHANGED func

Branch ==
  /\ ~AtStore
  /\ \E b \in current.next : at' = <<b, 1>>
  /\ UNCHANGED <<func, mem>>

Next == Store \/ Branch

Spec == Init /\ [][Next]_vars

=============================================================================
