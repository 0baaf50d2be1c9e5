-------------------------- MODULE InclusionAnalysis --------------------------
(***************************************************************************)
(* What an inclusion-based pointer analysis promises, whatever worklist,   *)
(* waves, caches or merging it uses: its points-to sets only grow, they    *)
(* never contain anything a solution of the constraints does without, and  *)
(* it stops only at a solution.  So it stops at the least one.             *)
(***************************************************************************)
EXTENDS ConstraintGraph

VARIABLES
  prog,   \* the program analysed
  sol,    \* the points-to set of every node
  done    \* the analysis has returned

vars == <<prog, sol, done>>

Init ==
  /\ prog \in Programs
  /\ sol = [n \in Node |-> {}]
  /\ done = FALSE

(* Some consequences of what is known so far are added.                    *)
Derive ==
  /\ ~done
  /\ sol' \in Assignment
  /\ \A n \in Node : sol[n] \subseteq sol'[n]
  /\ NothingSpurious(prog, sol')
  /\ UNCHANGED <<prog, done>>

Finish ==
  /\ ~done
  /\ IsSolution(prog, sol)
  /\ done' = TRUE
  /\ UNCHANGED <<prog, sol>>

Next == Derive \/ Finish

Spec == Init /\ [][Next]_vars

(* The analysis has found the least solution when it stops.                *)
DoneIsLeast == done => IsSolution(prog, sol) /\ NothingSpurious(prog, sol)

=============================================================================
