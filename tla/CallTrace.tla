------------------------------ MODULE CallTrace ------------------------------
(***************************************************************************)
(* count_calls: from the traces of two runs of a program, one that works   *)
(* on one unit of input and one that works on two, find the function that  *)
(* handles a unit.                                                         *)
(*                                                                         *)
(* The candidates are the functions that return base_num times in the      *)
(* first run and base_num + 1 times in the second.  The second trace is    *)
(* nested into a tree of calls (Util.nested), the tree is searched for the *)
(* topmost calls of candidates (bfs), each weighted by the number of       *)
(* candidates at or below it that no call reported before it accounts for, *)
(* and the heaviest one is picked.                                         *)
(*                                                                         *)
(* A call is identified by the position of its Enter in the trace, the     *)
(* outermost "!!Top!!" by 0.  Function names are numbers in their          *)
(* alphabetical order.                                                     *)
(***************************************************************************)
EXTENDS Integers, Sequences, FiniteSets, SequencesExt

CONSTANTS
  Name,      \* function names
  Symbol,    \* the events a trace may have: Enter or Leave of a function with
             \* its arguments
  MaxTrace,  \* bound on the length of the second trace
  MaxCount   \* bound on the calls of a function in the first trace

ASSUME TraceAssumption ==
  /\ Name \subseteq Nat /\ MaxTrace \in Nat /\ MaxCount \in Nat
  /\ \A s \in Symbol : s.kind \in {"Enter", "Leave"} /\ s.name \in Name

VARIABLES
  counts1,   \* counts1: how often each function returns in the first trace
  base_num,  \* how often a candidate returns in the first trace
  trace,     \* two_unit: the part of the second trace read so far
  stage,     \* "nest", "close", "search", "done" or "unmatched"
  names,     \* the calls not returned from yet, innermost first
  context,   \* the children found so far of each of them
  children,  \* the children of the calls that are complete, the last first
  queue,     \* bfs: calls still to look at
  set,       \* bfs: candidates not accounted for
  found      \* bfs: the calls reported, with their weights

callVars == <<counts1, base_num, trace, stage, names, context, children, queue, set, found>>

CallId == 0 .. Len(trace)
Calls  == {i \in 1 .. Len(trace) : trace[i].kind = "Enter"}

CallTypeOK ==
  /\ counts1 \in [Name -> 0 .. MaxCount]
  /\ base_num \in 0 .. MaxCount
  /\ trace \in Seq(Symbol) /\ Len(trace) <= MaxTrace
  /\ stage \in {"nest", "close", "search", "done", "unmatched"}
  /\ names \in Seq(CallId) /\ context \in Seq(Seq(Calls)) /\ Len(names) = Len(context)
  /\ DOMAIN children \subseteq CallId /\ \A i \in DOMAIN children : children[i] \in Seq(Calls)
  /\ queue \in Seq(CallId)
  /\ set \subseteq Name
  /\ found \in Seq([weight : Nat, call : Calls])

(* The second trace is chosen symbol by symbol as it is read.              *)
CallInit ==
  /\ counts1 \in [Name -> 0 .. MaxCount]
  /\ base_num \in 0 .. MaxCount
  /\ trace = << >>
  /\ stage = "nest"
  /\ names = <<0>>
  /\ context = << << >> >>
  /\ children = [i \in {} |-> << >>]
  /\ queue = << >> /\ set = {} /\ found = << >>

-----------------------------------------------------------------------------
(***************************************************************************)
(* Util.nested                                                             *)
(***************************************************************************)
Enter(sym) ==
  /\ stage = "nest" /\ Len(trace) < MaxTrace
  /\ sym.kind = "Enter"
  /\ trace' = Append(trace, sym)
  /\ names' = <<Len(trace')>> \o names
  /\ context' = << << >> >> \o context
  /\ UNCHANGED <<counts1, base_num, stage, children, queue, set, found>>

(* Faulty: the call does not become a child of its caller.                 *)
FinishOrphan ==
  /\ children' = [i \in DOMAIN children \cup {names[1]} |->
                    IF i = names[1] THEN context[1] ELSE children[i]]
  /\ names' = Tail(names)
  /\ context' = Tail(context)

(* finish: the innermost call is complete and becomes a child of its       *)
(* caller, in front of the calls before it.                                *)
Finish ==
  /\ children' = [i \in DOMAIN children \cup {names[1]} |->
                    IF i = names[1] THEN context[1] ELSE children[i]]
  /\ names' = Tail(names)
  /\ context' = IF Len(context) = 1 THEN << >>
                ELSE << <<names[1]>> \o context[2] >> \o Tail(Tail(context))

(* A Leave has to agree with the innermost Enter, arguments included.      *)
Matches(i, sym) == i # 0 /\ trace[i].name = sym.name /\ trace[i].args = sym.args

Leave(sym) ==
  /\ stage = "nest" /\ Len(trace) < MaxTrace
  /\ sym.kind = "Leave"
  /\ trace' = Append(trace, sym)
  /\ IF Matches(names[1], sym)
     THEN Finish /\ UNCHANGED stage
     ELSE stage' = "unmatched" /\ UNCHANGED <<names, context, children>>
  /\ UNCHANGED <<counts1, base_num, queue, set, found>>

(* The trace ends, possibly in the middle of calls.                        *)
EndOfTrace ==
  /\ stage = "nest"
  /\ stage' = "close"
  /\ UNCHANGED <<counts1, base_num, trace, names, context, children, queue, set, found>>

(***************************************************************************)
(* find_candidates: only returns are counted, so a call that the end of    *)
(* the trace cuts off does not count although it is in the tree.           *)
(***************************************************************************)
Count2(f) == Cardinality({i \in 1 .. Len(trace) : trace[i].kind = "Leave" /\ trace[i].name = f})

Candidates == {f \in Name : Count2(f) = base_num + 1 /\ counts1[f] = base_num}

(* Faulty: a trace that ends within a call is not handled.                 *)
CloseBalanced ==
  /\ stage = "close" /\ names[1] = 0
  /\ Finish
  /\ stage' = "search" /\ queue' = <<0>> /\ set' = Candidates
  /\ UNCHANGED <<counts1, base_num, trace, found>>

(* All calls that are still open are closed, the outermost last; then the  *)
(* search starts from it.                                                  *)
Close ==
  /\ stage = "close"
  /\ Finish
  /\ IF names[1] = 0
     THEN stage' = "search" /\ queue' = <<0>> /\ set' = Candidates
     ELSE UNCHANGED <<stage, queue, set>>
  /\ UNCHANGED <<counts1, base_num, trace, found>>

-----------------------------------------------------------------------------
(***************************************************************************)
(* bfs                                                                     *)
(***************************************************************************)
(* A call and all calls made during it.                                    *)
Below(c) ==
  LET sub[i \in DOMAIN children] == {i} \cup UNION {sub[d] : d \in Range(children[i])}
  IN  sub[c]

(* Faulty: only the names of the call and its children are removed.        *)
RemoveMatchesShallow(names0, c) ==
  names0 \ {trace[i].name : i \in {c} \cup Range(children[c])}

(* remove_matches                                                          *)
RemoveMatches(names0, c) == names0 \ {trace[i].name : i \in Below(c)}

(* Faulty: the children are looked at before the rest of the level.        *)
SearchDeep ==
  /\ stage = "search" /\ queue # << >>
  /\ LET front == queue[1]
     IN  IF front # 0 /\ trace[front].name \in set
         THEN /\ set' = RemoveMatches(set, front)
              /\ found' = Append(found, [weight |-> Cardinality(set) - Cardinality(set'),
                                         call |-> front])
              /\ queue' = Tail(queue)
         ELSE /\ queue' = children[front] \o Tail(queue)
              /\ UNCHANGED <<set, found>>
  /\ UNCHANGED <<counts1, base_num, trace, stage, names, context, children>>

(* The next call in the queue is reported if its name is in the set, and   *)
(* its children are not looked at; otherwise they are queued.              *)
Search ==
  /\ stage = "search" /\ queue # << >>
  /\ LET front == queue[1]
     IN  IF front # 0 /\ trace[front].name \in set
         THEN /\ set' = RemoveMatches(set, front)
              /\ found' = Append(found, [weight |-> Cardinality(set) - Cardinality(set'),
                                         call |-> front])
              /\ queue' = Tail(queue)
         ELSE /\ queue' = Tail(queue) \o children[front]
              /\ UNCHANGED <<set, found>>
  /\ UNCHANGED <<counts1, base_num, trace, stage, names, context, children>>

Report ==
  /\ stage = "search" /\ queue = << >>
  /\ stage' = "done"
  /\ UNCHANGED <<counts1, base_num, trace, names, context, children, queue, set, found>>

Exited == stage \in {"done", "unmatched"} /\ UNCHANGED callVars

CallNext ==
  \/ \E sym \in Symbol : Enter(sym) \/ Leave(sym)
  \/ EndOfTrace
  \/ Close
  \/ Search
  \/ Report
  \/ Exited

(* One process that reads its input to the end.                            *)
CallSpec == CallInit /\ [][CallNext]_callVars /\ WF_callVars(CallNext)

-----------------------------------------------------------------------------
(* The tree is the trace: i is below c exactly if it is entered after c    *)
(* and before c has returned, where c has returned as soon as the calls    *)
(* entered since and including it have all been left.                      *)
Open(c, i) ==
  \A k \in c .. i :
    LET left == {j \in c .. k : trace[j].kind = "Leave"}
    IN  Cardinality(left) < (k - c + 1) - Cardinality(left)

TreeIsTrace ==
  stage \in {"search", "done"} =>
    \A c \in Calls : Below(c) = {i \in Calls : i >= c /\ Open(c, i)}

(* Every candidate is accounted for by exactly one reported call: the      *)
(* weights add up to the number of candidates, whether or not calls were   *)
(* cut off by the end of the trace.                                        *)
WeightsAddUp ==
  stage = "done" =>
    /\ set = {}
    /\ FoldLeft(LAMBDA w, r : w + r.weight, 0, found) = Cardinality(Candidates)

(* The calls reported are topmost: none is part of another one, and any    *)
(* other call of the same function is at least as deep in the tree.        *)
Depth(i) == Cardinality({c \in Calls : i \in Below(c)})

ReportedAreTopmost ==
  stage = "done" =>
    \A r \in Range(found) :
      /\ \A q \in Range(found) : r # q => r.call \notin Below(q.call)
      /\ \A i \in Calls : trace[i].name = trace[r.call].name => Depth(i) >= Depth(r.call)

(* Every pair of traces gets an answer.                                    *)
Termination == <>(stage \in {"done", "unmatched"})

=============================================================================
