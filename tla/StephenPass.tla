---------------------------- MODULE StephenPass ----------------------------
(***************************************************************************)
(* The regions StephenPass takes for changed by the analysed function:     *)
(* variables in them are the candidates it prints.  It compares the        *)
(* version of a region at the entry with those at the return.              *)
(***************************************************************************)
EXTENDS MemSSA

(* The formal-in nodes: one for each entry chi.                            *)
FormalIns == usedRegs

(* The formal-out nodes: return mus of functions that return.              *)
FormalOuts == IF Returns THEN returns ELSE {}

(* Faulty: compares the version before the entry chi.                      *)
checkUnchangedOp(r) == <<r, 0>> \in FormalOuts

checkUnchanged(r) == <<r, 1>> \in FormalOuts

(* in_nodes of runOnModule                                                 *)
Changed == {r \in FormalIns : ~checkUnchanged(r)}

(* What counts as changed are the regions some write of the function may   *)
(* leave changed when it returns, and all regions if it never returns:     *)
(* a write that is always overtaken by an exit or an endless loop does not *)
(* count, and one on a single path does.                                   *)
ChangedIsExact ==
  pass = "done" =>
    Changed = {r \in usedRegs : Returns =>
                 \E b \in prog.ret : ReachingDefs(b, Len(prog.code[b]) + 1, r) # {<<prog.entry, 0>>}}

=============================================================================
