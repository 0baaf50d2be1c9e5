------------------------------- MODULE MemSSA -------------------------------
(***************************************************************************)
(* Memory SSA of one function: every read (mu) and possible write (chi) of *)
(* a memory region gets a version, with a phi where versions meet.         *)
(*                                                                         *)
(* createMUCHI finds the regions used and the blocks that define them,     *)
(* insertPHI places phis on iterated dominance frontiers, and SSARename    *)
(* walks the dominator tree with a stack of versions for each region.      *)
(* The dominator tree is LLVM's, and so is the single return: LLVM's       *)
(* UnifyFunctionExitNodes has run.                                         *)
(***************************************************************************)
EXTENDS Naturals, Sequences, FiniteSets

CONSTANTS
  Block,
  Region,
  Bodies   \* the functions to convert

(* Nothing goes back to the entry of a function (LLVM's verifier), and at  *)
(* most one block returns.                                                 *)
ASSUME BodiesAssumption ==
  /\ IsFiniteSet(Block)
  /\ \A f \in Bodies :
       /\ f.entry \in Block
       /\ f.succ \in [Block -> SUBSET (Block \ {f.entry})]
       /\ f.code \in [Block -> Seq([mu : SUBSET Region, chi : SUBSET Region])]
       /\ f.ret \subseteq Block /\ \A a, b \in f.ret : a = b

VARIABLES
  prog,      \* entry, ret (the block that returns, if any, in a set), succ,
             \* and code: the statements of a block, each with the regions
             \* it reads (mu) and may write (chi); a call has both
  pass,      \* "collect", "phi", "rename" or "done"
  usedRegs,
  todo,      \* definitions whose frontier is still to get phis
  phis,
  counter,   \* mr2CounterMap
  stack,     \* mr2VerStackMap
  frames,    \* the active calls of SSARenameBB, outermost first
  reads,     \* versions of mus: <<block, statement, region, version>>
  writes,    \* of chis: <<block, statement, region, operand, result>>
  phiRes,    \* of phis: <<block, region, result>>
  phiOps,    \*          <<block, region, predecessor, operand>>
  returns    \* of return mus: <<region, version>>

placing  == <<usedRegs, todo, phis>>
naming   == <<counter, stack>>
versions == <<reads, writes, phiRes, phiOps, returns>>
ssaVars  == <<prog, pass, placing, naming, frames, versions>>

-----------------------------------------------------------------------------
Avoiding(S) ==
  LET step[B \in SUBSET Block] ==
        LET next == B \cup ((UNION {prog.succ[b] : b \in B}) \ S)
        IN  IF next = B THEN B ELSE step[next]
  IN  step[{prog.entry} \ S]

Live == Avoiding({})

(* The dominator tree and the dominance frontier.                          *)
Dominates(a, b)  == b \notin Avoiding({a})
Children(a)      == {b \in Live \ {a} : Dominates(a, b) /\
                       \A c \in Live \ {b} : Dominates(c, b) => Dominates(c, a)}
Frontier(a)      == {b \in Live : /\ \E p \in Live : b \in prog.succ[p] /\ Dominates(a, p)
                                  /\ a = b \/ ~Dominates(a, b)}

(* functionDoesNotRet                                                      *)
Returns == prog.ret \cap Live # {}

SSAInit ==
  /\ prog \in Bodies
  /\ pass = "collect"
  /\ usedRegs = {} /\ todo = {} /\ phis = {}
  /\ counter = [r \in Region |-> 0]
  /\ stack = [r \in Region |-> <<>>]
  /\ frames = <<>>
  /\ reads = {} /\ writes = {} /\ phiRes = {} /\ phiOps = {} /\ returns = {}

-----------------------------------------------------------------------------
(* collectRegUses: regions read or written in the block before the block   *)
(* has killed them                                                         *)
Used(b) ==
  UNION {(prog.code[b][i].mu \cup prog.code[b][i].chi) \ UNION {prog.code[b][j].chi : j \in 1..(i - 1)} :
           i \in DOMAIN prog.code[b]}

(* collectRegDefs                                                          *)
Defined(b) == UNION {prog.code[b][i].chi : i \in DOMAIN prog.code[b]}

(* The entry chi of a used region takes version 0 and makes version 1.     *)
createMUCHI ==
  /\ pass = "collect"
  /\ usedRegs' = UNION {Used(b) : b \in Live}
  /\ todo' = {d \in Live \X Region : d[2] \in Defined(d[1])}
  /\ counter' = [r \in Region |-> IF r \in usedRegs' THEN 2 ELSE 0]
  /\ stack' = [r \in Region |-> IF r \in usedRegs' THEN <<0, 1>> ELSE <<>>]
  /\ pass' = "phi"
  /\ UNCHANGED <<prog, phis, frames, versions>>

(* Faulty: phis are placed on the frontiers of chis only.                  *)
PlacedOnce(d, new) == todo \ {d}

(* A phi defines the region as well.                                       *)
Placed(d, new) == (todo \ {d}) \cup new

insertPHI ==
  /\ pass = "phi"
  /\ \E d \in todo :
       LET new == {<<b, d[2]>> : b \in Frontier(d[1])} \ phis
       IN  /\ phis' = phis \cup new
           /\ todo' = Placed(d, new)
  /\ UNCHANGED <<prog, pass, usedRegs, naming, frames, versions>>

-----------------------------------------------------------------------------
None == [r \in Region |-> 0]

(* A call of SSARenameBB: at is the next statement, or 0 before the phis;  *)
(* memRegs counts the versions to pop; children is what is left of the     *)
(* dominator tree once the successors' phis are filled.                    *)
Called(b) == [bb |-> b, at |-> 0, memRegs |-> None, children |-> {}]

Current == frames[Len(frames)]
Goto(f) == [frames EXCEPT ![Len(frames)] = f]
Top(r)  == stack[r][Len(stack[r])]

PhisOf(b) == {d[2] : d \in {e \in phis : e[1] = b}}

SSARename ==
  /\ pass = "phi" /\ todo = {}
  /\ frames' = <<Called(prog.entry)>>
  /\ pass' = "rename"
  /\ UNCHANGED <<prog, placing, naming, versions>>

(* newSSAName for each of the regions                                      *)
NewNames(regs) ==
  /\ counter' = [r \in Region |-> IF r \in regs THEN counter[r] + 1 ELSE counter[r]]
  /\ stack' = [r \in Region |-> IF r \in regs THEN Append(stack[r], counter[r]) ELSE stack[r]]
  /\ frames' = Goto([Current EXCEPT !.at = @ + 1,
                                    !.memRegs = [r \in Region |-> @[r] + IF r \in regs THEN 1 ELSE 0]])

RenamePhiRes ==
  /\ frames # <<>> /\ Current.at = 0
  /\ LET bb == Current.bb
     IN  /\ phiRes' = phiRes \cup {<<bb, r, counter[r]>> : r \in PhisOf(bb)}
         /\ NewNames(PhisOf(bb))
  /\ UNCHANGED <<prog, pass, placing, reads, writes, phiOps, returns>>

(* RenameMuSet, then RenameChiSet                                          *)
RenameStatement ==
  /\ frames # <<>> /\ Current.at \in DOMAIN prog.code[Current.bb]
  /\ LET bb == Current.bb
         s  == prog.code[bb][Current.at]
     IN  /\ reads' = reads \cup {<<bb, Current.at, r, Top(r)>> : r \in s.mu}
         /\ writes' = writes \cup {<<bb, Current.at, r, Top(r), counter[r]>> : r \in s.chi}
         /\ NewNames(s.chi)
  /\ UNCHANGED <<prog, pass, placing, phiRes, phiOps, returns>>

AtBlockEnd == frames # <<>> /\ Current.at = Len(prog.code[Current.bb]) + 1

(* RenameMuSet at the return, and RenamePhiOps of the successors           *)
EndBlock ==
  /\ AtBlockEnd
  /\ LET bb == Current.bb
     IN  /\ returns' = returns \cup (IF bb \in prog.ret THEN {<<r, Top(r)>> : r \in usedRegs} ELSE {})
         /\ phiOps' = phiOps \cup UNION {{<<s, r, bb, Top(r)>> : r \in PhisOf(s)} : s \in prog.succ[bb]}
         /\ frames' = Goto([Current EXCEPT !.at = @ + 1, !.children = Children(bb)])
  /\ UNCHANGED <<prog, pass, placing, naming, reads, writes, phiRes>>

Renamed == frames # <<>> /\ Current.at = Len(prog.code[Current.bb]) + 2

VisitChild ==
  /\ Renamed
  /\ \E b \in Current.children :
       frames' = Append(Goto([Current EXCEPT !.children = @ \ {b}]), Called(b))
  /\ UNCHANGED <<prog, pass, placing, naming, versions>>

Popped(memRegs) == [r \in Region |-> SubSeq(stack[r], 1, Len(stack[r]) - memRegs[r])]

Return ==
  /\ Renamed /\ Current.children = {}
  /\ stack' = Popped(Current.memRegs)
  /\ frames' = SubSeq(frames, 1, Len(frames) - 1)
  /\ pass' = IF Len(frames) = 1 THEN "done" ELSE "rename"
  /\ UNCHANGED <<prog, placing, counter, versions>>

-----------------------------------------------------------------------------
Terminated == pass = "done" /\ UNCHANGED ssaVars

SSANext ==
  \/ createMUCHI \/ insertPHI \/ SSARename \/ RenamePhiRes \/ RenameStatement
  \/ EndBlock \/ VisitChild \/ Return
  \/ Terminated

SSASpec == SSAInit /\ [][SSANext]_ssaVars

-----------------------------------------------------------------------------
SSATypeOK ==
  /\ pass \in {"collect", "phi", "rename", "done"}
  /\ usedRegs \subseteq Region
  /\ todo \cup phis \subseteq Block \X Region
  /\ counter \in [Region -> Nat] /\ stack \in [Region -> Seq(Nat)]
  /\ \A i \in DOMAIN frames : frames[i].bb \in Block /\ frames[i].children \subseteq Block
  /\ \A v \in reads : v[3] \in Region /\ v[4] < counter[v[3]]
  /\ \A v \in writes : v[3] \in Region /\ v[4] < v[5] /\ v[5] < counter[v[3]]
  /\ \A v \in phiRes : <<v[1], v[2]>> \in phis /\ v[3] < counter[v[2]]
  /\ \A v \in phiOps : <<v[1], v[2]>> \in phis /\ v[4] < counter[v[2]]

-----------------------------------------------------------------------------
(* The definitions of a region that reach a point of the program, where 0  *)
(* stands for the entry of the function: the definition SSA is compared    *)
(* with.                                                                   *)
DefsIn(b, r) == {i \in DOMAIN prog.code[b] : r \in prog.code[b][i].chi}

LastIn(S) == CHOOSE i \in S : \A j \in S : j <= i

Before(b) == {p \in Live : b \in prog.succ[p]}

(* Blocks from whose start the start of b is reached without a definition. *)
Clear(b, r) ==
  LET step[B \in SUBSET Block] ==
        LET next == B \cup {p \in UNION {Before(c) : c \in B} : DefsIn(p, r) = {}}
        IN  IF next = B THEN B ELSE step[next]
  IN  step[{b}]

ReachingDefs(b, i, r) ==
  LET own   == {j \in DefsIn(b, r) : j < i}
      clear == Clear(b, r)
  IN  IF own # {} THEN {<<b, LastIn(own)>>}
      ELSE {<<p, LastIn(DefsIn(p, r))>> :
              p \in {q \in UNION {Before(c) : c \in clear} : DefsIn(q, r) # {}}}
           \cup (IF prog.entry \in clear THEN {<<prog.entry, 0>>} ELSE {})

(* The definitions a version stands for, looking through phis.             *)
Through(r, V) ==
  LET step[W \in SUBSET Nat] ==
        LET next == W \cup {o[4] : o \in {p \in phiOps : p[2] = r /\ <<p[1], r>> \in
                              {<<q[1], q[2]>> : q \in {s \in phiRes : s[3] \in W}}}}
        IN  IF next = W THEN W ELSE step[next]
  IN  step[V]

StandsFor(r, v) ==
  LET vs == Through(r, {v})
  IN  {<<w[1], w[2]>> : w \in {u \in writes : u[3] = r /\ u[5] \in vs}}
      \cup (IF 1 \in vs THEN {<<prog.entry, 0>>} ELSE {})

(* When the function is converted, every version read, at loads, calls and *)
(* the return, and every version a chi takes over stands for exactly the   *)
(* definitions that reach it: no path is missed, and none is invented.     *)
VersionsAreReachingDefs ==
  pass = "done" =>
    /\ \A u \in reads : StandsFor(u[3], u[4]) = ReachingDefs(u[1], u[2], u[3])
    /\ \A w \in writes : StandsFor(w[3], w[4]) = ReachingDefs(w[1], w[2], w[3])
    /\ \A u \in returns : \A b \in prog.ret :
         StandsFor(u[1], u[2]) = ReachingDefs(b, Len(prog.code[b]) + 1, u[1])

=============================================================================
