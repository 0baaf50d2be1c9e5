------------------------ MODULE StoreInstrumentation ------------------------
(***************************************************************************)
(* The pass mpi-substitute (mpi-annotations/mpi/MPI.cpp) and the program   *)
(* it produces.  First every store that uses the indicator variable gets a *)
(* check in front of it, in the order of the variable's use list; then the *)
(* instrumented function runs.                                             *)
(*                                                                         *)
(* instrumentStoreInstruction(S) splits the block at S: the first part     *)
(* keeps its name and now ends in a comparison of what S will overwrite    *)
(* with what it stores; if they differ a new block calls call_kill; both   *)
(* ways lead on to the second part, which starts with S.                   *)
(*                                                                         *)
(* The indicator is only stored to by name (or by a cast of its name):     *)
(* other aliases are a limitation the code's comments name.                *)
(***************************************************************************)
EXTENDS Naturals, Sequences, FiniteSets

CONSTANTS
  Loc, Value, Functions,  \* as in PlainExecution
  Ind,                    \* the indicator variable
  Address                 \* its address, which may also be stored as a value

ASSUME IndicatorAssumption == Ind \in Loc /\ Address \in Value

(* A function is a sequence of blocks; its first block is the entry.       *)
ASSUME FunctionsAssumption ==
  \A f \in Functions :
    /\ f \in Seq([stores : Seq([ptr : Loc, val : Value]), next : SUBSET Nat])
    /\ f # << >>
    /\ \A b \in 1 .. Len(f) : f[b].next \subseteq 1 .. Len(f)

VARIABLES
  func,       \* the function before the pass
  code,       \* the function's blocks now
  toDo,       \* store_insts: how often each store is still to be instrumented
  phase,      \* "pass" or "run"
  mem,        \* memory while the function runs
  pc,         \* <<block, index of the instruction executed next>>
  announced   \* calls of call_kill since the last store

vars == <<func, code, toDo, phase, mem, pc, announced>>

(***************************************************************************)
(* A block has stores, each with its place in the original function, and a *)
(* terminator: the branch that ended a block of the original function, a   *)
(* comparison put in front of a store, or a call of call_kill that goes on *)
(* to the second part of the split block.                                  *)
(***************************************************************************)
Places == UNION {{<<b, i>> : i \in 1 .. Len(func[b].stores)} : b \in 1 .. Len(func)}

StoreAt(p) == func[p[1]].stores[p[2]]

Branches == {[kind |-> "branch", of |-> b] : b \in 1 .. Len(func)}
Checks   == [kind : {"check"}, place : Places, kill : 1 .. Len(code), next : 1 .. Len(code)]
Kills    == [kind : {"kill"}, next : 1 .. Len(code)]

TypeOK ==
  /\ func \in Functions
  /\ code \in Seq([body : Seq(Places), term : Branches \cup Checks \cup Kills])
  /\ toDo \in [Places -> 0 .. 2]
  /\ phase \in {"pass", "run"}
  /\ mem \in [Loc -> Value]
  /\ pc[1] \in 1 .. Len(code) /\ pc[2] \in 1 .. Len(code[pc[1]].body) + 1
  /\ announced \in 0 .. 2

(* getGlobalVariableAndCasts and filter_uses: a store is listed once for   *)
(* each operand that is the variable.                                      *)
Uses(s) == (IF s.ptr = Ind THEN 1 ELSE 0) + (IF s.val = Address THEN 1 ELSE 0)

Init ==
  /\ func \in Functions
  /\ code = [b \in 1 .. Len(func) |->
               [body |-> [i \in 1 .. Len(func[b].stores) |-> <<b, i>>],
                term |-> [kind |-> "branch", of |-> b]]]
  /\ toDo = [p \in Places |-> Uses(StoreAt(p))]
  /\ phase = "pass"
  /\ mem \in [Loc -> Value]
  /\ pc = <<1, 1>>
  /\ announced = 0

-----------------------------------------------------------------------------
(* Where store p is now.                                                   *)
IsAt(p, b, i) == i \in 1 .. Len(code[b].body) /\ code[b].body[i] = p

(* Faulty: the store stays in front of the check as well.                  *)
SplitKeeping(p, b, i) ==
  LET kill == Len(code) + 1
      nova == Len(code) + 2
  IN  [code EXCEPT ![b] =
         [body |-> SubSeq(@.body, 1, i),
          term |-> [kind |-> "check", place |-> p, kill |-> kill, next |-> nova]]]
      \o << [body |-> << >>, term |-> [kind |-> "kill", next |-> nova]],
            [body |-> SubSeq(code[b].body, i, Len(code[b].body)), term |-> code[b].term] >>

(* Faulty: the call of call_kill goes back to the comparison.              *)
SplitBack(p, b, i) ==
  LET kill == Len(code) + 1
      nova == Len(code) + 2
  IN  [code EXCEPT ![b] =
         [body |-> SubSeq(@.body, 1, i - 1),
          term |-> [kind |-> "check", place |-> p, kill |-> kill, next |-> nova]]]
      \o << [body |-> << >>, term |-> [kind |-> "kill", next |-> b]],
            [body |-> SubSeq(code[b].body, i, Len(code[b].body)), term |-> code[b].term] >>

(* The blocks after splitting block b at its i-th instruction, the store p.*)
Split(p, b, i) ==
  LET kill == Len(code) + 1
      nova == Len(code) + 2
  IN  [code EXCEPT ![b] =
         [body |-> SubSeq(@.body, 1, i - 1),
          term |-> [kind |-> "check", place |-> p, kill |-> kill, next |-> nova]]]
      \o << [body |-> << >>, term |-> [kind |-> "kill", next |-> nova]],
            [body |-> SubSeq(code[b].body, i, Len(code[b].body)), term |-> code[b].term] >>

instrumentStoreInstruction(p) ==
  /\ phase = "pass"
  /\ toDo[p] > 0
  /\ toDo' = [toDo EXCEPT ![p] = @ - 1]
  /\ \E b \in 1 .. Len(code) : \E i \in 1 .. Len(code[b].body) :
       IsAt(p, b, i) /\ code' = Split(p, b, i)
  /\ UNCHANGED <<func, phase, mem, pc, announced>>

(* The pass is over and the program built from its output is started.      *)
Run ==
  /\ phase = "pass"
  /\ \A p \in Places : toDo[p] = 0
  /\ phase' = "run"
  /\ UNCHANGED <<func, code, toDo, mem, pc, announced>>

-----------------------------------------------------------------------------
(* The instrumented function runs.                                         *)
block == code[pc[1]]
AtEnd == pc[2] > Len(block.body)

Store ==
  /\ phase = "run" /\ ~AtEnd
  /\ LET s == StoreAt(block.body[pc[2]])
     IN  mem' = [mem EXCEPT ![s.ptr] = s.val]
  /\ pc' = <<pc[1], pc[2] + 1>>
  /\ announced' = 0
  /\ UNCHANGED <<func, code, toDo, phase>>

Branch ==
  /\ phase = "run" /\ AtEnd /\ block.term.kind = "branch"
  /\ \E b \in func[block.term.of].next : pc' = <<b, 1>>
  /\ UNCHANGED <<func, code, toDo, phase, mem, announced>>

(* Faulty: call_kill is called if the value stays the same.                *)
CheckEqual ==
  /\ phase = "run" /\ AtEnd /\ block.term.kind = "check"
  /\ LET s == StoreAt(block.term.place)
     IN  pc' = <<IF mem[s.ptr] = s.val THEN block.term.kill ELSE block.term.next, 1>>
  /\ UNCHANGED <<func, code, toDo, phase, mem, announced>>

(* CreateLoad, CreateICmp NE, CreateCondBr                                 *)
Check ==
  /\ phase = "run" /\ AtEnd /\ block.term.kind = "check"
  /\ LET s == StoreAt(block.term.place)
     IN  pc' = <<IF mem[s.ptr] # s.val THEN block.term.kill ELSE block.term.next, 1>>
  /\ UNCHANGED <<func, code, toDo, phase, mem, announced>>

(* CreateCall, CreateBr: call_kill reports the change and returns.         *)
CallKill ==
  /\ phase = "run" /\ AtEnd /\ block.term.kind = "kill"
  /\ announced' = announced + 1
  /\ pc' = <<block.term.next, 1>>
  /\ UNCHANGED <<func, code, toDo, phase, mem>>

Returned ==
  /\ phase = "run" /\ AtEnd /\ block.term.kind = "branch" /\ func[block.term.of].next = {}
  /\ UNCHANGED vars

Next ==
  \/ \E p \in Places : instrumentStoreInstruction(p)
  \/ Run
  \/ Store
  \/ Branch
  \/ Check
  \/ CallKill
  \/ Returned

Spec == Init /\ [][Next]_vars

-----------------------------------------------------------------------------
(***************************************************************************)
(* Properties.                                                             *)
(***************************************************************************)

(* The place in the original function that corresponds to where the        *)
(* instrumented one is: that of the store it executes or checks next, or   *)
(* the end of the block.                                                   *)
Original ==
  LET place(b) == IF code[b].term.kind = "branch"
                  THEN <<code[b].term.of, Len(func[code[b].term.of].stores) + 1>>
                  ELSE code[b].term.place
  IN  IF ~AtEnd THEN block.body[pc[2]]
      ELSE IF block.term.kind # "kill" THEN place(pc[1])
      ELSE LET b == block.term.next
           IN  IF code[b].body # << >> THEN code[b].body[1] ELSE place(b)

(* The annotation changes nothing else: the instrumented function does the *)
(* stores and takes the branches of the original one, in its order, and    *)
(* nothing more.                                                           *)
Plain == INSTANCE PlainExecution WITH at <- Original

RunsAsBefore == Plain!Spec

(* Each change of the indicator is announced by a call of call_kill since  *)
(* the store before it.                                                    *)
ChangesAreAnnounced == [][mem'[Ind] # mem[Ind] => announced > 0]_vars

=============================================================================
