--------------------------- MODULE MPITools_proofs ---------------------------
(***************************************************************************)
(* Proofs about the programs around the analysis.                          *)
(*                                                                         *)
(* The store instrumentation, for every function and order of the          *)
(* indicator's uses: the instrumented function runs as the original one,   *)
(* and every change of the indicator is announced before it happens.       *)
(*                                                                         *)
(* The trace comparison, for every pair of traces: the tree of calls is    *)
(* the trace, every candidate is accounted for by one reported call, and   *)
(* the calls reported are topmost.                                         *)
(*                                                                         *)
(* Memory SSA and the Stephen pass, for every control flow graph: versions *)
(* stand for exactly the definitions that reach them, and the regions that *)
(* count as changed are those some write may leave changed.                *)
(***************************************************************************)
EXTENDS StoreInstrumentation, CallTrace, StephenPass, SequenceTheorems, FiniteSetTheorems, TLAPS

Blocks == 1 .. Len(code)

Terms == Branches \cup Checks \cup Kills

(* Where block k starts and ends in the original function.                 *)
EndOf(k) ==
  IF code[k].term.kind = "branch"
  THEN <<code[k].term.of, Len(func[code[k].term.of].stores) + 1>>
  ELSE code[k].term.place

PlaceAt(k, j) == IF j <= Len(code[k].body) THEN code[k].body[j] ELSE EndOf(k)

StartOf(k) == PlaceAt(k, 1)

(* The types, but for the bound on the calls of call_kill.                 *)
ShapeOK ==
  /\ func \in Functions
  /\ code \in Seq([body : Seq(Places), term : Terms])
  /\ toDo \in [Places -> 0 .. 2]
  /\ phase \in {"pass", "run"}
  /\ mem \in [Loc -> Value]
  /\ pc \in Blocks \X (Nat \ {0}) /\ pc[2] <= Len(code[pc[1]].body) + 1
  /\ announced \in Nat

(***************************************************************************)
(* The blocks follow the original function: a block is a run of places in  *)
(* order, a check goes to a block that starts where it ends, with or       *)
(* without a call of call_kill in between, and the original blocks start   *)
(* where they did.                                                         *)
(***************************************************************************)
KillOK(k) ==
  /\ code[k].body = << >>
  /\ \E m \in Blocks :
       code[k].term.next = m /\ code[m].term.kind # "kill" /\ StartOf(m) \in Places

RunOK(k) ==
  \A j \in 1 .. Len(code[k].body) :
    PlaceAt(k, j + 1) = <<code[k].body[j][1], code[k].body[j][2] + 1>>

CheckOK(k) ==
  \E c, m \in Blocks :
    /\ code[k].term.kill = c /\ code[k].term.next = m
    /\ code[c].term.kind = "kill" /\ code[c].term.next = m
    /\ code[m].term.kind # "kill" /\ StartOf(m) = code[k].term.place

FlowInv ==
  /\ \A k \in Blocks :
       /\ code[k].term.kind = "kill" => KillOK(k)
       /\ code[k].term.kind # "kill" => RunOK(k)
       /\ code[k].term.kind = "check" => CheckOK(k)
  /\ Len(func) <= Len(code)
  /\ \A b \in 1 .. Len(func) : code[b].term.kind # "kill" /\ StartOf(b) = <<b, 1>>

(***************************************************************************)
(* A place is in one block only, and once its store has been instrumented  *)
(* it is the first of a block that only its checks lead to.                *)
(***************************************************************************)
UniqueInv ==
  \A k, l \in Blocks : \A i \in 1 .. Len(code[k].body) : \A j \in 1 .. Len(code[l].body) :
    code[k].body[i] = code[l].body[j] => k = l /\ i = j

FrontInv ==
  \A k \in Blocks : \A i \in 1 .. Len(code[k].body) :
    toDo[code[k].body[i]] < Uses(StoreAt(code[k].body[i])) => i = 1 /\ k > Len(func)

(***************************************************************************)
(* A store has a call of call_kill for each time it was instrumented; if   *)
(* one leads to another, the other was inserted later.                     *)
(***************************************************************************)
KillsOf(p) ==
  {k \in Blocks : /\ code[k].term.kind = "kill"
                  /\ \E m \in Blocks : code[k].term.next = m /\ StartOf(m) = p}

CountInv ==
  \A p \in Places :
    /\ IsFiniteSet(KillsOf(p))
    /\ Cardinality(KillsOf(p)) + toDo[p] = Uses(StoreAt(p))

OrderInv ==
  \A k \in Blocks : code[k].term.kind = "kill" /\ code[code[k].term.next].body = << >> =>
    code[code[k].term.next].term.kill > k

CodeInv == FlowInv /\ UniqueInv /\ FrontInv /\ CountInv /\ OrderInv

(***************************************************************************)
(* While the function runs: behind a check the next store changes nothing  *)
(* or has been announced, and it has been announced at most as often as    *)
(* there were calls on the way.                                            *)
(***************************************************************************)
OriginalAt(k, j) ==
  IF code[k].term.kind = "kill" THEN StartOf(code[k].term.next) ELSE PlaceAt(k, j)

PassedAt(k, j) ==
  IF j <= Len(code[k].body) THEN KillsOf(PlaceAt(k, j))
  ELSE CASE code[k].term.kind = "branch" -> {}
         [] code[k].term.kind = "check"  -> {c \in KillsOf(EndOf(k)) : c < code[k].term.kill}
         [] code[k].term.kind = "kill"   -> {c \in KillsOf(OriginalAt(k, 1)) : c < k}

Passed == PassedAt(pc[1], pc[2])

GuardInv ==
  pc[1] > Len(func) /\ pc[2] = 1 /\ block.term.kind # "kill" =>
    \/ mem[StoreAt(Original).ptr] = StoreAt(Original).val
    \/ announced > 0

RunInv ==
  /\ phase = "pass" => pc = <<1, 1>> /\ announced = 0
  /\ phase = "run" => \A p \in Places : toDo[p] = 0
  /\ GuardInv
  /\ announced <= Cardinality(Passed)

-----------------------------------------------------------------------------
(* A function on 1 .. n is a sequence.                                     *)
LEMMA FunctionIsSeq ==
  ASSUME NEW n \in Nat, NEW S, NEW f \in [1 .. n -> S]
  PROVE  f \in Seq(S) /\ Len(f) = n
<1>1. f \in Seq(S)
  BY SeqDef
<1>2. DOMAIN f = 1 .. Len(f) /\ Len(f) \in Nat
  BY <1>1, LenProperties
<1> QED BY <1>1, <1>2

LEMMA FunctionFacts ==
  ASSUME func \in Functions
  PROVE  /\ Len(func) \in Nat /\ Len(func) > 0
         /\ \A b \in 1 .. Len(func) :
              /\ func[b].stores \in Seq([ptr : Loc, val : Value])
              /\ Len(func[b].stores) \in Nat
              /\ func[b].next \subseteq 1 .. Len(func)
<1> DEFINE S == [stores : Seq([ptr : Loc, val : Value]), next : SUBSET Nat]
<1>1. func \in Seq(S) /\ func # << >>
  BY FunctionsAssumption
<1>2. Len(func) \in Nat /\ \A b \in 1 .. Len(func) : func[b] \in S
  BY <1>1, LenProperties, ElementOfSeq
<1>3. Len(func) > 0
  BY <1>1, <1>2, EmptySeq
<1>4. \A b \in 1 .. Len(func) : Len(func[b].stores) \in Nat
  BY <1>2, LenProperties
<1> QED BY <1>2, <1>3, <1>4, FunctionsAssumption

(* The places of the function: a block and the position of a store in it.  *)
LEMMA PlaceFacts ==
  ASSUME func \in Functions
  PROVE  /\ \A p \in Places :
              /\ p[1] \in 1 .. Len(func) /\ p[2] \in 1 .. Len(func[p[1]].stores)
              /\ p = <<p[1], p[2]>>
              /\ StoreAt(p) \in [ptr : Loc, val : Value]
              /\ Uses(StoreAt(p)) \in 0 .. 2
         /\ \A b \in 1 .. Len(func) : \A i \in 1 .. Len(func[b].stores) : <<b, i>> \in Places
<1>1. \A p \in Places : \E b \in 1 .. Len(func) : \E i \in 1 .. Len(func[b].stores) : p = <<b, i>>
  BY DEF Places
<1>2. \A b \in 1 .. Len(func) : \A i \in 1 .. Len(func[b].stores) : <<b, i>> \in Places
  BY DEF Places
<1>3. \A p \in Places : StoreAt(p) \in [ptr : Loc, val : Value]
  <2> SUFFICES ASSUME NEW p \in Places
               PROVE  StoreAt(p) \in [ptr : Loc, val : Value]
    OBVIOUS
  <2>1. PICK b \in 1 .. Len(func) : \E i \in 1 .. Len(func[b].stores) : p = <<b, i>>
    BY <1>1
  <2>2. PICK i \in 1 .. Len(func[b].stores) : p = <<b, i>>
    BY <2>1
  <2>3. func[b].stores \in Seq([ptr : Loc, val : Value])
    BY FunctionFacts
  <2>4. func[b].stores[i] \in [ptr : Loc, val : Value]
    BY <2>3, ElementOfSeq
  <2> QED BY <2>2, <2>4 DEF StoreAt
<1>4. \A p \in Places : Uses(StoreAt(p)) \in 0 .. 2
  BY DEF Uses
<1> QED BY <1>1, <1>2, <1>3, <1>4

(* What the type of code says of its blocks.                               *)
LEMMA CodeFacts ==
  ASSUME ShapeOK
  PROVE  /\ Len(code) \in Nat
         /\ \A k \in Blocks :
              /\ code[k] \in [body : Seq(Places), term : Terms]
              /\ Len(code[k].body) \in Nat
              /\ \A j \in 1 .. Len(code[k].body) : code[k].body[j] \in Places
              /\ code[k].body = << >> <=> Len(code[k].body) = 0
              /\ code[k].term.kind \in {"branch", "check", "kill"}
              /\ code[k].term.kind = "branch" => code[k].term.of \in 1 .. Len(func)
              /\ code[k].term.kind = "check" => /\ code[k].term.place \in Places
                                                /\ code[k].term.kill \in Blocks
                                                /\ code[k].term.next \in Blocks
              /\ code[k].term.kind = "kill" => code[k].term.next \in Blocks
<1>1. code \in Seq([body : Seq(Places), term : Terms])
  BY DEF ShapeOK
<1>2. Len(code) \in Nat /\ \A k \in Blocks : code[k] \in [body : Seq(Places), term : Terms]
  BY <1>1, LenProperties, ElementOfSeq DEF Blocks
<1>3. ASSUME NEW k \in Blocks
      PROVE  /\ Len(code[k].body) \in Nat
             /\ \A j \in 1 .. Len(code[k].body) : code[k].body[j] \in Places
             /\ code[k].body = << >> <=> Len(code[k].body) = 0
  <2>1. code[k].body \in Seq(Places)
    BY <1>2
  <2> QED BY <2>1, LenProperties, ElementOfSeq, EmptySeq
<1>4. ASSUME NEW k \in Blocks
      PROVE  /\ code[k].term.kind \in {"branch", "check", "kill"}
             /\ code[k].term.kind = "branch" => code[k].term.of \in 1 .. Len(func)
             /\ code[k].term.kind = "check" => /\ code[k].term.place \in Places
                                               /\ code[k].term.kill \in Blocks
                                               /\ code[k].term.next \in Blocks
             /\ code[k].term.kind = "kill" => code[k].term.next \in Blocks
  <2>1. code[k].term \in Terms
    BY <1>2
  <2>2. CASE code[k].term \in Branches
    BY <2>2 DEF Branches
  <2>3. CASE code[k].term \in Checks
    BY <2>3 DEF Checks, Blocks
  <2>4. CASE code[k].term \in Kills
    BY <2>4 DEF Kills, Blocks
  <2> QED BY <2>1, <2>2, <2>3, <2>4 DEF Terms
<1> QED BY <1>2, <1>3, <1>4

-----------------------------------------------------------------------------
(* The two parts of the body.                                              *)
LEMMA PartFacts ==
  ASSUME NEW S, NEW s \in Seq(S), NEW i \in 1 .. Len(s)
  PROVE  /\ SubSeq(s, 1, i - 1) \in Seq(S) /\ Len(SubSeq(s, 1, i - 1)) = i - 1
         /\ \A j \in 1 .. i - 1 : SubSeq(s, 1, i - 1)[j] = s[j]
         /\ SubSeq(s, i, Len(s)) \in Seq(S) /\ Len(SubSeq(s, i, Len(s))) = Len(s) - i + 1
         /\ \A j \in 1 .. Len(s) - i + 1 : SubSeq(s, i, Len(s))[j] = s[i + j - 1]
<1>1. Len(s) \in Nat /\ \A j \in 1 .. Len(s) : s[j] \in S
  BY LenProperties, ElementOfSeq
<1>2. i \in Int /\ i - 1 \in Int /\ 1 \in Int /\ Len(s) \in Int
  BY <1>1
<1>3. /\ SubSeq(s, 1, i - 1) \in Seq(S)
      /\ Len(SubSeq(s, 1, i - 1)) = IF 1 <= i - 1 THEN i - 1 - 1 + 1 ELSE 0
      /\ \A j \in 1 .. i - 1 - 1 + 1 : SubSeq(s, 1, i - 1)[j] = s[1 + j - 1]
  <2>1. \A j \in 1 .. i - 1 : s[j] \in S
    BY <1>1
  <2> QED BY <1>2, <2>1, SubSeqProperties
<1>4. /\ SubSeq(s, i, Len(s)) \in Seq(S)
      /\ Len(SubSeq(s, i, Len(s))) = IF i <= Len(s) THEN Len(s) - i + 1 ELSE 0
      /\ \A j \in 1 .. Len(s) - i + 1 : SubSeq(s, i, Len(s))[j] = s[i + j - 1]
  <2>1. \A j \in i .. Len(s) : s[j] \in S
    BY <1>1
  <2> QED BY <1>2, <2>1, SubSeqProperties
<1> QED BY <1>1, <1>3, <1>4

(***************************************************************************)
(* The step that splits block b at its i-th store p: the blocks after it,  *)
(* and where they start and end.                                           *)
(***************************************************************************)
SplitAt(p, b, i) ==
  /\ b \in Blocks /\ i \in 1 .. Len(code[b].body) /\ IsAt(p, b, i)
  /\ code' = Split(p, b, i)
  /\ func' = func

FirstPart(b, i)  == SubSeq(code[b].body, 1, i - 1)
SecondPart(b, i) == SubSeq(code[b].body, i, Len(code[b].body))

(* The blocks after the step, of which there are two more than the n before. *)
NewBlocks(p, b, i, n) ==
  /\ n \in Nat /\ Blocks = 1 .. n /\ Blocks' = 1 .. n + 2
  /\ \A S : (\A k \in Blocks' : code'[k] \in S) => code' \in Seq(S)
  /\ code[b].term.kind # "kill"
  /\ \A k \in Blocks : k # b => code'[k] = code[k]
  /\ code'[b].body \in Seq(Places)
  /\ Len(code'[b].body) = i - 1
  /\ \A j \in 1 .. i - 1 : code'[b].body[j] = code[b].body[j]
  /\ code'[b].term = [kind |-> "check", place |-> p, kill |-> n + 1, next |-> n + 2]
  /\ code'[b] = [body |-> code'[b].body, term |-> code'[b].term]
  /\ code'[n + 1] = [body |-> << >>, term |-> [kind |-> "kill", next |-> n + 2]]
  /\ code'[n + 2].body \in Seq(Places)
  /\ Len(code'[n + 2].body) = Len(code[b].body) - i + 1
  /\ \A j \in 1 .. Len(code[b].body) - i + 1 :
        code'[n + 2].body[j] = code[b].body[i + j - 1]
  /\ code'[n + 2].term = code[b].term
  /\ code'[n + 2] = [body |-> code'[n + 2].body, term |-> code'[n + 2].term]

LEMMA SplitBlocks ==
  ASSUME ShapeOK, FlowInv, NEW p \in Places, NEW b, NEW i, SplitAt(p, b, i),
         NEW n, n = Len(code)
  PROVE  NewBlocks(p, b, i, n)
<1>1. b \in Blocks /\ i \in 1 .. Len(code[b].body) /\ code[b].body[i] = p /\ code' = Split(p, b, i)
  BY DEF SplitAt, IsAt
<1>2. n \in Nat /\ Blocks = 1 .. n /\ Len(code[b].body) \in Nat /\ code[b].body \in Seq(Places)
  BY <1>1, CodeFacts DEF Blocks
<1>3. /\ Len(code') = n + 2
      /\ \A k \in Blocks : k # b => code'[k] = code[k]
      /\ code'[b] = [body |-> FirstPart(b, i),
                     term |-> [kind |-> "check", place |-> p, kill |-> n + 1, next |-> n + 2]]
      /\ code'[n + 1] = [body |-> << >>, term |-> [kind |-> "kill", next |-> n + 2]]
      /\ code'[n + 2] = [body |-> SecondPart(b, i),
                         term |-> code[b].term]
      /\ \A S : (\A k \in 1 .. n + 2 : code'[k] \in S) => code' \in Seq(S)
  <2> DEFINE first == [body |-> FirstPart(b, i),
                       term |-> [kind |-> "check", place |-> p, kill |-> n + 1, next |-> n + 2]]
             kill  == [body |-> << >>, term |-> [kind |-> "kill", next |-> n + 2]]
             nova  == [body |-> SecondPart(b, i), term |-> code[b].term]
             U     == {code[k] : k \in Blocks} \cup {first, kill, nova}
             front == [code EXCEPT ![b] = first]
  <2> HIDE DEF first, kill, nova
  <2>1. n \in Nat /\ Blocks = 1 .. n /\ code \in [Blocks -> U]
    BY CodeFacts, LenProperties DEF ShapeOK, Blocks
  <2>0. b \in Blocks
    BY DEF SplitAt
  <2>2. front \in [1 .. n -> U] /\ front[b] = first /\ \A k \in Blocks : k # b => front[k] = code[k]
    BY <2>0, <2>1
  <2>3. front \in Seq(U) /\ Len(front) = n
    BY <2>1, <2>2, FunctionIsSeq
  <2>4. <<kill, nova>> \in Seq(U) /\ Len(<<kill, nova>>) = 2
    OBVIOUS
  <2>5. code' = front \o <<kill, nova>>
    BY DEF SplitAt, Split, first, kill, nova, FirstPart, SecondPart
  <2> HIDE DEF front, U
  <2>6. /\ Len(code') = n + 2
        /\ \A k \in 1 .. n + 2 : code'[k] = IF k <= n THEN front[k] ELSE <<kill, nova>>[k - n]
        /\ code' \in Seq(U)
    BY <2>1, <2>3, <2>4, <2>5, ConcatProperties
  <2>7. /\ \A k \in Blocks : code'[k] = front[k]
        /\ code'[n + 1] = kill /\ code'[n + 2] = nova
    BY <2>1, <2>6
  <2>8. ASSUME NEW S, \A k \in 1 .. n + 2 : code'[k] \in S
        PROVE  code' \in Seq(S)
    <3>1. code' = [k \in 1 .. n + 2 |-> code'[k]]
      BY <2>6, LenProperties
    <3>2. code' \in [1 .. n + 2 -> S]
      BY <2>8, <3>1
    <3> QED BY <2>1, <3>2, FunctionIsSeq
  <2>9. code'[b] = first /\ \A k \in Blocks : k # b => code'[k] = code[k]
    BY <2>0, <2>2, <2>7
  <2> QED BY <2>6, <2>7, <2>8, <2>9 DEF first, kill, nova
<1>4. Blocks' = 1 .. n + 2
  BY <1>3 DEF Blocks
<1>5. code[b].term.kind # "kill"
  BY <1>1, <1>2, CodeFacts DEF FlowInv, KillOK
<1>6. /\ code'[b].body = FirstPart(b, i)
      /\ code'[n + 2].body = SecondPart(b, i)
  BY <1>3
<1>7. /\ code'[b].body \in Seq(Places) /\ Len(code'[b].body) = i - 1
      /\ \A j \in 1 .. i - 1 : code'[b].body[j] = code[b].body[j]
      /\ code'[n + 2].body \in Seq(Places)
      /\ Len(code'[n + 2].body) = Len(code[b].body) - i + 1
      /\ \A j \in 1 .. Len(code[b].body) - i + 1 :
            code'[n + 2].body[j] = code[b].body[i + j - 1]
  <2> DEFINE s == code[b].body
  <2>1. s \in Seq(Places) /\ i \in 1 .. Len(s)
    BY <1>1, <1>2
  <2> HIDE DEF s
  <2>2. code'[b].body = SubSeq(s, 1, i - 1) /\ code'[n + 2].body = SubSeq(s, i, Len(s))
    BY <1>6 DEF s, FirstPart, SecondPart
  <2>3. /\ SubSeq(s, 1, i - 1) \in Seq(Places) /\ Len(SubSeq(s, 1, i - 1)) = i - 1
        /\ \A j \in 1 .. i - 1 : SubSeq(s, 1, i - 1)[j] = s[j]
        /\ SubSeq(s, i, Len(s)) \in Seq(Places) /\ Len(SubSeq(s, i, Len(s))) = Len(s) - i + 1
        /\ \A j \in 1 .. Len(s) - i + 1 : SubSeq(s, i, Len(s))[j] = s[i + j - 1]
    BY <2>1, PartFacts
  <2> QED BY <2>2, <2>3, Zenon DEF s
<1>8. \A S : (\A k \in Blocks' : code'[k] \in S) => code' \in Seq(S)
  BY <1>3, <1>4
<1>9. /\ code'[b].term = [kind |-> "check", place |-> p, kill |-> n + 1, next |-> n + 2]
      /\ code'[b] = [body |-> code'[b].body, term |-> code'[b].term]
      /\ code'[n + 2].term = code[b].term
      /\ code'[n + 2] = [body |-> code'[n + 2].body, term |-> code'[n + 2].term]
  BY <1>3, <1>6
<1> QED BY <1>2, <1>3, <1>4, <1>5, <1>7, <1>8, <1>9 DEF NewBlocks

LEMMA SplitPlaces ==
  ASSUME ShapeOK, FlowInv, NEW p \in Places, NEW b, NEW i, SplitAt(p, b, i),
         NEW n, n = Len(code)
  PROVE  /\ \A k \in Blocks : StartOf(k)' = StartOf(k)
         /\ StartOf(n + 2)' = p
         /\ \A k \in Blocks : code[k].term.kind # "kill" => RunOK(k)'
         /\ RunOK(n + 2)'
<1>1. b \in Blocks /\ i \in 1 .. Len(code[b].body) /\ code[b].body[i] = p /\ func' = func
  BY DEF SplitAt, IsAt
<1>2. Len(code[b].body) \in Nat
  BY <1>1, CodeFacts
<1>3. /\ n \in Nat /\ Blocks = 1 .. n
      /\ code[b].term.kind # "kill"
      /\ \A k \in Blocks : k # b => code'[k] = code[k]
      /\ Len(code'[b].body) = i - 1
      /\ \A j \in 1 .. i - 1 : code'[b].body[j] = code[b].body[j]
      /\ code'[b].term.kind = "check" /\ code'[b].term.place = p
      /\ Len(code'[n + 2].body) = Len(code[b].body) - i + 1
      /\ \A j \in 1 .. Len(code[b].body) - i + 1 :
            code'[n + 2].body[j] = code[b].body[i + j - 1]
      /\ code'[n + 2].term = code[b].term
  <2>1. NewBlocks(p, b, i, n)
    BY SplitBlocks
  <2>2. code'[b].term = [kind |-> "check", place |-> p, kill |-> n + 1, next |-> n + 2]
    BY <2>1, Zenon DEF NewBlocks
  <2>3. code'[b].term.kind = "check" /\ code'[b].term.place = p
    BY <2>2
  <2> QED BY <2>1, <2>3, Zenon DEF NewBlocks
<1>4. EndOf(b)' = p /\ EndOf(n + 2)' = EndOf(b)
  BY <1>1, <1>3 DEF EndOf
<1>5. \A k \in Blocks : k # b => EndOf(k)' = EndOf(k)
  BY <1>1, <1>3 DEF EndOf
<1>6. \A k \in Blocks : k # b => \A j : PlaceAt(k, j)' = PlaceAt(k, j)
  BY <1>3, <1>5 DEF PlaceAt
<1>7. \A j \in 1 .. i : PlaceAt(b, j)' = PlaceAt(b, j)
  <2> SUFFICES ASSUME NEW j \in 1 .. i
               PROVE  PlaceAt(b, j)' = PlaceAt(b, j)
    OBVIOUS
  <2>1. j <= Len(code[b].body)
    BY <1>1, <1>2
  <2>2. PlaceAt(b, j) = code[b].body[j]
    BY <2>1 DEF PlaceAt
  <2>3. CASE j = i
    <3>1. ~(j <= Len(code'[b].body))
      BY <1>1, <1>2, <1>3, <2>3
    <3>2. PlaceAt(b, j)' = p
      BY <1>4, <3>1 DEF PlaceAt
    <3> QED BY <1>1, <2>2, <2>3, <3>2
  <2>4. CASE j # i
    <3>1. j \in 1 .. i - 1 /\ j <= Len(code'[b].body)
      BY <1>1, <1>2, <1>3, <2>4
    <3>2. PlaceAt(b, j)' = code'[b].body[j]
      BY <3>1 DEF PlaceAt
    <3> QED BY <1>3, <2>2, <3>1, <3>2
  <2> QED BY <2>3, <2>4
<1>8. \A j \in Nat \ {0} : PlaceAt(n + 2, j)' = PlaceAt(b, i + j - 1)
  BY <1>1, <1>2, <1>3, <1>4 DEF PlaceAt
<1>9. \A k \in Blocks : StartOf(k)' = StartOf(k)
  BY <1>1, <1>2, <1>6, <1>7 DEF StartOf
<1>10. StartOf(n + 2)' = p
  <2>1. PlaceAt(n + 2, 1)' = PlaceAt(b, i)
    BY <1>1, <1>2, <1>8
  <2> QED BY <1>1, <2>1 DEF StartOf, PlaceAt
<1>11. RunOK(b)
  BY <1>1, <1>3 DEF FlowInv
<1>12. RunOK(b)' /\ RunOK(n + 2)'
  <2>1. ASSUME NEW j \in 1 .. i - 1
        PROVE  PlaceAt(b, j + 1)' = <<code'[b].body[j][1], code'[b].body[j][2] + 1>>
    <3>1. j \in 1 .. Len(code[b].body) /\ j + 1 \in 1 .. i
      BY <1>1, <1>2
    <3>2. PlaceAt(b, j + 1)' = PlaceAt(b, j + 1)
      BY <1>7, <3>1
    <3> QED BY <1>3, <1>11, <3>1, <3>2 DEF RunOK
  <2>2. ASSUME NEW j \in 1 .. Len(code[b].body) - i + 1
        PROVE  PlaceAt(n + 2, j + 1)' = <<code'[n + 2].body[j][1], code'[n + 2].body[j][2] + 1>>
    <3>1. i + j - 1 \in 1 .. Len(code[b].body) /\ j + 1 \in Nat \ {0}
          /\ i + (j + 1) - 1 = (i + j - 1) + 1
      <4> DEFINE l == Len(code[b].body)
      <4>1. i \in 1 .. l /\ l \in Nat /\ j \in 1 .. l - i + 1
        BY <1>1, <1>2
      <4> HIDE DEF l
      <4>2. i + j - 1 \in 1 .. l /\ j + 1 \in Nat \ {0} /\ i + (j + 1) - 1 = (i + j - 1) + 1
        BY <4>1
      <4> QED BY <4>2 DEF l
    <3>2. PlaceAt(n + 2, j + 1)' = PlaceAt(b, (i + j - 1) + 1)
      BY <1>8, <3>1
    <3> QED BY <1>3, <1>11, <3>1, <3>2 DEF RunOK
  <2> QED BY <1>3, <2>1, <2>2 DEF RunOK
<1>13. \A k \in Blocks : k # b /\ code[k].term.kind # "kill" => RunOK(k)'
  <2> SUFFICES ASSUME NEW k \in Blocks, k # b, code[k].term.kind # "kill"
               PROVE  RunOK(k)'
    OBVIOUS
  <2>1. RunOK(k) /\ code'[k] = code[k]
    BY <1>3 DEF FlowInv
  <2>2. \A j : PlaceAt(k, j)' = PlaceAt(k, j)
    BY <1>6
  <2> QED BY <2>1, <2>2 DEF RunOK
<1> QED BY <1>9, <1>10, <1>12, <1>13

-----------------------------------------------------------------------------
(***************************************************************************)
(* instrumentStoreInstruction keeps each part of CodeInv.                  *)
(***************************************************************************)
LEMMA SplitKeepsFlow ==
  ASSUME ShapeOK, FlowInv, NEW p \in Places, NEW b, NEW i, SplitAt(p, b, i),
         NEW n, n = Len(code)
  PROVE  FlowInv'
<1>1. NewBlocks(p, b, i, n)
  BY SplitBlocks
<1>2. b \in Blocks /\ func' = func /\ Places' = Places
  BY DEF SplitAt, Places
<1>3. /\ n \in Nat /\ Blocks = 1 .. n /\ Blocks' = 1 .. n + 2
      /\ code[b].term.kind # "kill"
      /\ \A k \in Blocks : k # b => code'[k] = code[k]
      /\ code'[n + 1] = [body |-> << >>, term |-> [kind |-> "kill", next |-> n + 2]]
      /\ code'[n + 2].term = code[b].term
      /\ code'[b].term = [kind |-> "check", place |-> p, kill |-> n + 1, next |-> n + 2]
  BY <1>1, Zenon DEF NewBlocks
<1>4. /\ \A k \in Blocks : StartOf(k)' = StartOf(k)
      /\ StartOf(n + 2)' = p
      /\ \A k \in Blocks : code[k].term.kind # "kill" => RunOK(k)'
      /\ RunOK(n + 2)'
  BY SplitPlaces
<1>5. Blocks \subseteq Blocks' /\ n + 1 \in Blocks' /\ n + 2 \in Blocks'
  BY <1>3
<1>6. \A k \in Blocks : code[k].term.kind # "kill" => code'[k].term.kind # "kill"
  BY <1>3
<1>7. \A k \in Blocks : code[k].term.kind = "kill" => code'[k] = code[k]
  BY <1>3
<1>8. ASSUME NEW k \in Blocks, code[k].term.kind = "check", NEW l, code'[l].term = code[k].term
      PROVE  CheckOK(l)'
  <2>1. PICK c \in Blocks, m \in Blocks :
          /\ code[k].term.kill = c /\ code[k].term.next = m
          /\ code[c].term.kind = "kill" /\ code[c].term.next = m
          /\ code[m].term.kind # "kill" /\ StartOf(m) = code[k].term.place
    BY <1>8 DEF FlowInv, CheckOK
  <2> QED BY <1>4, <1>5, <1>6, <1>7, <1>8, <2>1 DEF CheckOK
<1>9. ASSUME NEW k \in Blocks, k # b
      PROVE  /\ code'[k].term.kind = "kill" => KillOK(k)'
             /\ code'[k].term.kind # "kill" => RunOK(k)'
             /\ code'[k].term.kind = "check" => CheckOK(k)'
  <2>1. code'[k] = code[k]
    BY <1>3, <1>9
  <2>2. CASE code[k].term.kind = "kill"
    <3>1. code[k].body = << >>
      BY <2>2 DEF FlowInv, KillOK
    <3>2. PICK m \in Blocks :
            code[k].term.next = m /\ code[m].term.kind # "kill" /\ StartOf(m) \in Places
      BY <2>2 DEF FlowInv, KillOK
    <3> QED BY <1>2, <1>4, <1>5, <1>6, <2>1, <2>2, <3>1, <3>2 DEF KillOK
  <2>3. CASE code[k].term.kind # "kill"
    BY <1>4, <1>8, <2>1, <2>3
  <2> QED BY <2>2, <2>3
<1>10. code'[n + 2].term.kind # "kill"
  BY <1>3
<1>11. /\ code'[b].term.kind = "check" /\ RunOK(b)' /\ CheckOK(b)'
  BY <1>2, <1>3, <1>4, <1>5, <1>10 DEF CheckOK
<1>12. code'[n + 1].term.kind = "kill" /\ KillOK(n + 1)'
  BY <1>2, <1>3, <1>4, <1>5, <1>10 DEF KillOK
<1>13. /\ RunOK(n + 2)'
       /\ code'[n + 2].term.kind = "check" => CheckOK(n + 2)'
  BY <1>2, <1>3, <1>4, <1>8
<1>14. /\ Len(func) <= n /\ Len(code') = n + 2 /\ Len(func) \in Nat
  <2>1. Len(code') \in Nat
    BY <1>1, LenProperties DEF NewBlocks
  <2>2. Len(code') = n + 2
    BY <1>3, <2>1 DEF Blocks
  <2> QED BY <2>2, FunctionFacts DEF FlowInv, ShapeOK
<1>15. \A k \in 1 .. Len(func) : code'[k].term.kind # "kill" /\ StartOf(k)' = <<k, 1>>
  BY <1>3, <1>4, <1>6, <1>14 DEF FlowInv
<1>16. \A k \in Blocks' : k \in Blocks \/ k = n + 1 \/ k = n + 2
  BY <1>3
<1>17. \A k \in Blocks' : /\ code'[k].term.kind = "kill" => KillOK(k)'
                          /\ code'[k].term.kind # "kill" => RunOK(k)'
                          /\ code'[k].term.kind = "check" => CheckOK(k)'
  BY <1>9, <1>10, <1>11, <1>12, <1>13, <1>16
<1> QED BY <1>2, <1>3, <1>14, <1>15, <1>17 DEF FlowInv

(* The x-th store of block k was the m-th of block c before.               *)
WasAt(k, x, c, m, b, i, n) ==
  /\ c \in Blocks /\ m \in 1 .. Len(code[c].body)
  /\ code'[k].body[x] = code[c].body[m]
  /\ \/ k \in Blocks /\ c = k /\ m = x /\ (k = b => x < i)
     \/ k = n + 2 /\ c = b /\ m = i + x - 1

LEMMA SplitPositions ==
  ASSUME ShapeOK, FlowInv, NEW p \in Places, NEW b, NEW i, SplitAt(p, b, i),
         NEW n, n = Len(code),
         NEW k \in Blocks', NEW x \in 1 .. Len(code'[k].body)
  PROVE  \E c, m : WasAt(k, x, c, m, b, i, n)
<1>1. NewBlocks(p, b, i, n)
  BY SplitBlocks
<1>2. b \in Blocks /\ i \in 1 .. Len(code[b].body) /\ Len(code[b].body) \in Nat
  BY CodeFacts DEF SplitAt
<1>3. /\ n \in Nat /\ Blocks = 1 .. n /\ Blocks' = 1 .. n + 2
      /\ \A l \in Blocks : l # b => code'[l] = code[l]
      /\ Len(code'[b].body) = i - 1
      /\ \A m \in 1 .. i - 1 : code'[b].body[m] = code[b].body[m]
      /\ code'[n + 1] = [body |-> << >>, term |-> [kind |-> "kill", next |-> n + 2]]
      /\ Len(code'[n + 2].body) = Len(code[b].body) - i + 1
      /\ \A m \in 1 .. Len(code[b].body) - i + 1 :
            code'[n + 2].body[m] = code[b].body[i + m - 1]
  BY <1>1, Zenon DEF NewBlocks
<1>4. CASE k \in Blocks /\ k # b
  <2>1. WasAt(k, x, k, x, b, i, n)
    BY <1>3, <1>4 DEF WasAt
  <2> QED BY <2>1
<1>5. CASE k = b
  <2>1. WasAt(k, x, k, x, b, i, n)
    BY <1>2, <1>3, <1>5 DEF WasAt
  <2> QED BY <2>1
<1>6. CASE k = n + 1
  <2>1. code'[k].body = << >>
    BY <1>3, <1>6
  <2> QED BY <2>1
<1>7. CASE k = n + 2
  <2>1. x \in 1 .. Len(code[b].body) - i + 1
    BY <1>3, <1>7
  <2>2. i + x - 1 \in 1 .. Len(code[b].body)
    BY <1>2, <2>1
  <2>3. WasAt(k, x, b, i + x - 1, b, i, n)
    BY <1>2, <1>3, <1>7, <2>1, <2>2 DEF WasAt
  <2> QED BY <2>3
<1>8. k \in Blocks \/ k = n + 1 \/ k = n + 2
  BY <1>3
<1> QED BY <1>4, <1>5, <1>6, <1>7, <1>8

LEMMA SplitKeepsUnique ==
  ASSUME ShapeOK, FlowInv, UniqueInv, NEW p \in Places, NEW b, NEW i, SplitAt(p, b, i),
         NEW n, n = Len(code)
  PROVE  UniqueInv'
<1> SUFFICES ASSUME NEW k \in Blocks', NEW l \in Blocks',
                    NEW x \in 1 .. Len(code'[k].body), NEW y \in 1 .. Len(code'[l].body),
                    code'[k].body[x] = code'[l].body[y]
             PROVE  k = l /\ x = y
  BY DEF UniqueInv
<1>1. PICK c, m : WasAt(k, x, c, m, b, i, n)
  BY SplitPositions
<1>2. PICK d, o : WasAt(l, y, d, o, b, i, n)
  BY SplitPositions
<1>3. code[c].body[m] = code[d].body[o]
  BY <1>1, <1>2 DEF WasAt
<1>4. c = d /\ m = o
  <2>1. /\ c \in Blocks /\ m \in 1 .. Len(code[c].body)
        /\ d \in Blocks /\ o \in 1 .. Len(code[d].body)
    BY <1>1, <1>2 DEF WasAt
  <2>2. \A u \in 1 .. Len(code[c].body) : \A v \in 1 .. Len(code[d].body) :
          code[c].body[u] = code[d].body[v] => c = d /\ u = v
    BY <2>1, Zenon DEF UniqueInv
  <2> QED BY <2>1, <2>2, <1>3
<1>5. /\ i \in Nat /\ x \in Nat \ {0} /\ y \in Nat \ {0}
      /\ n \in Nat /\ Blocks = 1 .. n
  <2>1. b \in Blocks /\ i \in 1 .. Len(code[b].body)
    BY DEF SplitAt
  <2>2. n \in Nat /\ Blocks = 1 .. n
    BY CodeFacts DEF Blocks
  <2> QED BY <2>1, <2>2
<1> QED BY <1>1, <1>2, <1>4, <1>5 DEF WasAt

LEMMA SplitKeepsFront ==
  ASSUME ShapeOK, FlowInv, UniqueInv, FrontInv,
         NEW p \in Places, NEW b, NEW i, SplitAt(p, b, i),
         toDo' = [toDo EXCEPT ![p] = @ - 1], NEW n, n = Len(code)
  PROVE  FrontInv'
<1>8. func' = func
  BY DEF SplitAt
<1> SUFFICES ASSUME NEW k \in Blocks', NEW x \in 1 .. Len(code'[k].body),
                    toDo'[code'[k].body[x]] < Uses(StoreAt(code'[k].body[x]))
             PROVE  x = 1 /\ k > Len(func)
  <2>1. func' = func
    BY <1>8, Zenon
  <2>2. \A k \in Blocks' : \A x \in 1 .. Len(code'[k].body) :
          Uses(StoreAt(code[k].body[x]))' = Uses(StoreAt(code'[k].body[x]))
    BY <2>1, Zenon DEF Uses, StoreAt
  <2> QED BY <2>1, <2>2, Zenon DEF FrontInv
<1>1. PICK c, m : WasAt(k, x, c, m, b, i, n)
  BY SplitPositions
<1>2. /\ c \in Blocks /\ m \in 1 .. Len(code[c].body)
      /\ code'[k].body[x] = code[c].body[m]
      /\ \/ k \in Blocks /\ c = k /\ m = x /\ (k = b => x < i)
         \/ k = n + 2 /\ c = b /\ m = i + x - 1
  BY <1>1 DEF WasAt
<1>3. /\ b \in Blocks /\ i \in 1 .. Len(code[b].body) /\ code[b].body[i] = p
      /\ i \in Nat /\ x \in Nat \ {0}
  BY DEF SplitAt, IsAt
<1>4. /\ n \in Nat /\ Len(func) \in Nat /\ Len(func) <= n
  BY FunctionFacts, CodeFacts DEF FlowInv, ShapeOK
<1>5. code[c].body[m] \in Places
  BY <1>2, CodeFacts
<1>6. CASE code[c].body[m] = p
  <2>1. c = b /\ m = i
    <3>1. code[c].body[m] = code[b].body[i]
      BY <1>3, <1>6
    <3>2. /\ c \in Blocks /\ m \in 1 .. Len(code[c].body)
          /\ b \in Blocks /\ i \in 1 .. Len(code[b].body)
      BY <1>2, <1>3
    <3> QED BY <3>1, <3>2 DEF UniqueInv
  <2>2. k = n + 2 /\ x = 1
    BY <1>2, <1>3, <2>1
  <2> QED BY <1>4, <2>2
<1>7. CASE code[c].body[m] # p
  <2>1. toDo[code[c].body[m]] < Uses(StoreAt(code[c].body[m]))
    <3>1. toDo'[code[c].body[m]] = toDo[code[c].body[m]]
      BY <1>5, <1>7 DEF ShapeOK
    <3> QED BY <1>2, <3>1
  <2>2. m = 1 /\ c > Len(func)
    BY <1>2, <2>1 DEF FrontInv
  <2> QED BY <1>2, <1>3, <1>4, <2>2
<1> QED BY <1>6, <1>7

LEMMA SplitKeepsOrder ==
  ASSUME ShapeOK, FlowInv, OrderInv, NEW p \in Places, NEW b, NEW i, SplitAt(p, b, i),
         NEW n, n = Len(code)
  PROVE  OrderInv'
<1> SUFFICES ASSUME NEW k \in Blocks', NEW m, m = code'[k].term.next,
                    code'[k].term.kind = "kill", code'[m].body = << >>
             PROVE  code'[m].term.kill > k
  BY DEF OrderInv
<1>1. NewBlocks(p, b, i, n)
  BY SplitBlocks
<1>2. b \in Blocks /\ i \in 1 .. Len(code[b].body) /\ Len(code[b].body) \in Nat
  BY CodeFacts DEF SplitAt
<1>3. /\ n \in Nat /\ Blocks = 1 .. n /\ Blocks' = 1 .. n + 2
      /\ code[b].term.kind # "kill"
      /\ \A l \in Blocks : l # b => code'[l] = code[l]
      /\ code'[b].term = [kind |-> "check", place |-> p, kill |-> n + 1, next |-> n + 2]
      /\ code'[n + 1] = [body |-> << >>, term |-> [kind |-> "kill", next |-> n + 2]]
      /\ Len(code'[n + 2].body) = Len(code[b].body) - i + 1
      /\ code'[n + 2].term = code[b].term
  BY <1>1, Zenon DEF NewBlocks
<1>4. m # n + 2
  <2>1. Len(code'[n + 2].body) # 0
    BY <1>2, <1>3
  <2> QED BY <2>1
<1>5. k \in Blocks /\ k # b
  BY <1>3, <1>4
<1>6. code[k].term.kind = "kill" /\ code[k].term.next = m /\ m \in Blocks
  BY <1>3, <1>5, CodeFacts
<1>7. CASE m = b
  BY <1>3, <1>5, <1>7
<1>8. CASE m # b
  <2>1. code'[m] = code[m]
    BY <1>3, <1>6, <1>8
  <2> QED BY <1>5, <1>6, <2>1 DEF OrderInv
<1> QED BY <1>7, <1>8

LEMMA SplitKeepsCount ==
  ASSUME ShapeOK, FlowInv, CountInv, NEW p \in Places, NEW b, NEW i, SplitAt(p, b, i),
         toDo' = [toDo EXCEPT ![p] = @ - 1], NEW n, n = Len(code)
  PROVE  CountInv'
<1>1. NewBlocks(p, b, i, n)
  BY SplitBlocks
<1>2. b \in Blocks /\ func' = func /\ Places' = Places
  BY DEF SplitAt, Places
<1>3. /\ n \in Nat /\ Blocks = 1 .. n /\ Blocks' = 1 .. n + 2
      /\ code[b].term.kind # "kill"
      /\ \A k \in Blocks : k # b => code'[k] = code[k]
      /\ code'[b].term = [kind |-> "check", place |-> p, kill |-> n + 1, next |-> n + 2]
      /\ code'[n + 1] = [body |-> << >>, term |-> [kind |-> "kill", next |-> n + 2]]
      /\ code'[n + 2].term = code[b].term
  BY <1>1, Zenon DEF NewBlocks
<1>4. (\A k \in Blocks : StartOf(k)' = StartOf(k)) /\ StartOf(n + 2)' = p
  BY SplitPlaces
<1>5. \A k \in Blocks : code[k].term.kind = "kill" => code[k].term.next \in Blocks
  BY CodeFacts
<1>6. \A q : KillsOf(q)' = IF q = p THEN KillsOf(q) \cup {n + 1} ELSE KillsOf(q)
  <2> SUFFICES ASSUME NEW q, NEW k
               PROVE  k \in KillsOf(q)' <=> k \in KillsOf(q) \/ (q = p /\ k = n + 1)
    BY DEF KillsOf
  <2>1. CASE k \in Blocks /\ k # b
    <3>1. code'[k] = code[k] /\ k # n + 1 /\ k \in Blocks'
      BY <1>3, <2>1
    <3>2. CASE code[k].term.kind = "kill"
      <4>1. code[k].term.next \in Blocks /\ code[k].term.next \in Blocks'
        BY <1>3, <1>5, <2>1, <3>2
      <4> QED BY <1>4, <2>1, <3>1, <3>2, <4>1 DEF KillsOf
    <3>3. CASE code[k].term.kind # "kill"
      BY <3>1, <3>3 DEF KillsOf
    <3> QED BY <3>2, <3>3
  <2>2. CASE k = b \/ k = n + 2
    <3>1. code'[k].term.kind # "kill" /\ k \notin KillsOf(q) /\ k # n + 1
      BY <1>2, <1>3, <2>2 DEF KillsOf
    <3> QED BY <3>1 DEF KillsOf
  <2>3. CASE k = n + 1
    <3>1. /\ code'[k].term.kind = "kill" /\ code'[k].term.next = n + 2
          /\ k \in Blocks' /\ n + 2 \in Blocks' /\ k \notin Blocks
      BY <1>3, <2>3
    <3> QED BY <1>4, <2>3, <3>1 DEF KillsOf
  <2>4. CASE k \notin Blocks'
    <3>1. k \notin Blocks /\ k # n + 1
      BY <1>3, <2>4
    <3> QED BY <2>4, <3>1 DEF KillsOf
  <2> QED BY <1>3, <2>1, <2>2, <2>3, <2>4
<1>7. \A q : Uses(StoreAt(q))' = Uses(StoreAt(q))
  BY <1>2 DEF Uses, StoreAt
<1>8. toDo \in [Places -> 0 .. 2]
  BY DEF ShapeOK
<1>9. ASSUME NEW q \in Places
      PROVE  /\ IsFiniteSet(KillsOf(q)')
             /\ Cardinality(KillsOf(q)') + toDo'[q] = Uses(StoreAt(q))
  <2>1. IsFiniteSet(KillsOf(q)) /\ Cardinality(KillsOf(q)) + toDo[q] = Uses(StoreAt(q))
    BY DEF CountInv
  <2>2. Cardinality(KillsOf(q)) \in Nat
    BY <2>1, FS_CardinalityType
  <2>3. CASE q = p
    <3>1. KillsOf(q)' = KillsOf(q) \cup {n + 1}
      BY <1>6, <2>3
    <3>2. n + 1 \notin KillsOf(q)
      BY <1>3 DEF KillsOf
    <3>3. /\ IsFiniteSet(KillsOf(q)')
          /\ Cardinality(KillsOf(q)') = Cardinality(KillsOf(q)) + 1
      BY <2>1, <3>1, <3>2, FS_AddElement
    <3>4. toDo'[q] = toDo[q] - 1
      BY <1>8, <2>3
    <3> QED BY <1>8, <2>1, <2>2, <3>3, <3>4
  <2>4. CASE q # p
    <3>1. KillsOf(q)' = KillsOf(q) /\ toDo'[q] = toDo[q]
      BY <1>6, <1>8, <2>4
    <3> QED BY <2>1, <3>1
  <2> QED BY <2>3, <2>4
<1> QED BY <1>2, <1>7, <1>9 DEF CountInv

LEMMA SplitKeepsShape ==
  ASSUME ShapeOK, FlowInv, NEW p \in Places, NEW b, NEW i, SplitAt(p, b, i),
         toDo' = [toDo EXCEPT ![p] = @ - 1], toDo[p] > 0,
         pc = <<1, 1>>, UNCHANGED <<phase, mem, pc, announced>>, NEW n, n = Len(code)
  PROVE  ShapeOK'
<1>1. NewBlocks(p, b, i, n)
  BY SplitBlocks
<1>2. b \in Blocks /\ func' = func /\ Places' = Places /\ Branches' = Branches
  BY DEF SplitAt, Places, Branches
<1>3. /\ n \in Nat /\ Blocks = 1 .. n /\ Blocks' = 1 .. n + 2
      /\ \A k \in Blocks : k # b => code'[k] = code[k]
      /\ code'[b].body \in Seq(Places)
      /\ code'[b].term = [kind |-> "check", place |-> p, kill |-> n + 1, next |-> n + 2]
      /\ code'[b] = [body |-> code'[b].body, term |-> code'[b].term]
      /\ code'[n + 1] = [body |-> << >>, term |-> [kind |-> "kill", next |-> n + 2]]
      /\ code'[n + 2].body \in Seq(Places)
      /\ code'[n + 2].term = code[b].term
      /\ code'[n + 2] = [body |-> code'[n + 2].body, term |-> code'[n + 2].term]
      /\ \A S : (\A k \in Blocks' : code'[k] \in S) => code' \in Seq(S)
  BY <1>1, Zenon DEF NewBlocks
<1>4. \A k \in Blocks : code[k] \in [body : Seq(Places), term : Terms]
  BY CodeFacts
<1>5. Terms \subseteq Terms'
  BY <1>2, <1>3 DEF Terms, Checks, Kills, Blocks
<1>6. code'[b].term \in Terms' /\ [kind |-> "kill", next |-> n + 2] \in Terms'
  BY <1>2, <1>3 DEF Terms, Checks, Kills, Blocks
<1>7. ASSUME NEW k \in Blocks'
      PROVE  code'[k] \in [body : Seq(Places), term : Terms']
  <2>1. CASE k \in Blocks /\ k # b
    BY <1>3, <1>4, <1>5, <2>1
  <2>2. CASE k = b
    BY <1>3, <1>6, <2>2, Zenon
  <2>3. CASE k = n + 1
    <3>1. << >> \in Seq(Places)
      OBVIOUS
    <3>2. /\ code'[k] = [body |-> code'[k].body, term |-> code'[k].term]
          /\ code'[k].body = << >> /\ code'[k].term = [kind |-> "kill", next |-> n + 2]
      BY <1>3, <2>3
    <3> QED BY <1>6, <3>1, <3>2, Zenon
  <2>4. CASE k = n + 2
    BY <1>2, <1>3, <1>4, <1>5, <2>4
  <2> QED BY <1>3, <2>1, <2>2, <2>3, <2>4
<1>8. code' \in Seq([body : Seq(Places), term : Terms'])
  BY <1>3, <1>7
<1>9. toDo' \in [Places -> 0 .. 2]
  BY DEF ShapeOK
<1>10. pc' \in Blocks' \X (Nat \ {0}) /\ pc'[2] <= Len(code'[pc'[1]].body) + 1
  <2>1. 1 \in Blocks' /\ Len(code'[1].body) \in Nat
    BY <1>3, <1>7, LenProperties
  <2> QED BY <2>1
<1> QED BY <1>2, <1>8, <1>9, <1>10 DEF ShapeOK

-----------------------------------------------------------------------------
(***************************************************************************)
(* The blocks of the instrumented function, as FlowInv and OrderInv say.   *)
(***************************************************************************)
LEMMA StoreFacts ==
  ASSUME ShapeOK, FlowInv, NEW k \in Blocks, NEW j \in 1 .. Len(code[k].body)
  PROVE  /\ code[k].term.kind # "kill"
         /\ code[k].body[j] \in Places
         /\ OriginalAt(k, j) = code[k].body[j]
         /\ OriginalAt(k, j + 1) = <<code[k].body[j][1], code[k].body[j][2] + 1>>
<1>1. code[k].body[j] \in Places /\ Len(code[k].body) \in Nat
      /\ (code[k].body = << >> <=> Len(code[k].body) = 0)
  BY CodeFacts
<1>2. code[k].term.kind # "kill"
  BY <1>1 DEF FlowInv, KillOK
<1>3. OriginalAt(k, j) = code[k].body[j] /\ OriginalAt(k, j + 1) = PlaceAt(k, j + 1)
  BY <1>1, <1>2 DEF OriginalAt, PlaceAt
<1>4. PlaceAt(k, j + 1) = <<code[k].body[j][1], code[k].body[j][2] + 1>>
  BY <1>2 DEF FlowInv, RunOK
<1> QED BY <1>1, <1>2, <1>3, <1>4

LEMMA BranchFacts ==
  ASSUME ShapeOK, FlowInv, NEW k \in Blocks, code[k].term.kind = "branch",
         NEW j, j = Len(code[k].body) + 1
  PROVE  /\ code[k].term.of \in 1 .. Len(func)
         /\ OriginalAt(k, j) = <<code[k].term.of, Len(func[code[k].term.of].stores) + 1>>
         /\ OriginalAt(k, j) \notin Places
         /\ PassedAt(k, j) = {}
         /\ \A b \in func[code[k].term.of].next :
              /\ b \in 1 .. Len(func) /\ b \in Blocks
              /\ OriginalAt(b, 1) = <<b, 1>>
<1>1. code[k].term.of \in 1 .. Len(func) /\ Len(code[k].body) \in Nat /\ Len(code) \in Nat
  BY CodeFacts
<1>2. /\ Len(func) \in Nat /\ Len(func[code[k].term.of].stores) \in Nat
      /\ func[code[k].term.of].next \subseteq 1 .. Len(func)
  BY <1>1, FunctionFacts DEF ShapeOK
<1>3. ~(j <= Len(code[k].body))
  BY <1>1
<1>4. OriginalAt(k, j) = <<code[k].term.of, Len(func[code[k].term.of].stores) + 1>>
  BY <1>3 DEF OriginalAt, PlaceAt, EndOf
<1>5. PassedAt(k, j) = {}
  BY <1>3 DEF PassedAt
<1>6. OriginalAt(k, j) \notin Places
  <2>1. \A p \in Places : p[2] <= Len(func[p[1]].stores)
    BY PlaceFacts DEF ShapeOK
  <2> QED BY <1>2, <1>4, <2>1
<1>7. ASSUME NEW b \in func[code[k].term.of].next
      PROVE  b \in 1 .. Len(func) /\ b \in Blocks /\ OriginalAt(b, 1) = <<b, 1>>
  <2>1. b \in 1 .. Len(func) /\ b \in Blocks
    BY <1>1, <1>2 DEF FlowInv, Blocks
  <2> QED BY <2>1 DEF FlowInv, OriginalAt, StartOf
<1> QED BY <1>1, <1>4, <1>5, <1>6, <1>7

(* What a block that a check or a call of call_kill leads to has passed.   *)
LEMMA TargetFacts ==
  ASSUME ShapeOK, FlowInv, OrderInv, NEW m \in Blocks, code[m].term.kind # "kill",
         StartOf(m) \in Places, NEW c \in Blocks,
         code[c].term.kind = "kill", code[c].term.next = m
  PROVE  /\ OriginalAt(m, 1) = StartOf(m)
         /\ c \in KillsOf(StartOf(m))
         /\ {d \in KillsOf(StartOf(m)) : d <= c} \subseteq PassedAt(m, 1)
<1>1. OriginalAt(m, 1) = StartOf(m)
  BY DEF OriginalAt, StartOf
<1>2. c \in KillsOf(StartOf(m))
  BY DEF KillsOf
<1>3. /\ Len(code[m].body) \in Nat /\ (code[m].body = << >> <=> Len(code[m].body) = 0)
      /\ code[m].term.kind \in {"branch", "check"}
      /\ code[m].term.kind = "check" => code[m].term.kill \in Blocks
      /\ Blocks \subseteq Nat
  BY CodeFacts DEF Blocks
<1>4. CASE Len(code[m].body) > 0
  <2>1. PassedAt(m, 1) = KillsOf(StartOf(m))
    BY <1>3, <1>4 DEF PassedAt, StartOf
  <2> QED BY <1>1, <1>2, <2>1
<1>5. CASE Len(code[m].body) = 0
  <2>1. code[m].term.kind # "branch"
    <3>1. SUFFICES ASSUME code[m].term.kind = "branch" PROVE FALSE
      OBVIOUS
    <3> QED BY <1>1, <1>5, <3>1, BranchFacts
  <2>2. code[m].term.kind = "check" /\ code[m].term.kill > c
    BY <1>3, <1>5, <2>1 DEF OrderInv
  <2>3. StartOf(m) = EndOf(m)
    BY <1>5 DEF StartOf, PlaceAt
  <2>4. PassedAt(m, 1) = {d \in KillsOf(StartOf(m)) : d < code[m].term.kill}
    BY <1>5, <2>2, <2>3 DEF PassedAt
  <2>5. KillsOf(StartOf(m)) \subseteq Nat
    BY <1>3 DEF KillsOf
  <2>6. c \in Nat /\ code[m].term.kill \in Nat
    BY <1>3, <2>2
  <2>7. \A d \in KillsOf(StartOf(m)) : d <= c => d < code[m].term.kill
    BY <2>2, <2>5, <2>6
  <2> QED BY <1>1, <1>2, <2>4, <2>7, Zenon
<1>6. Len(code[m].body) > 0 \/ Len(code[m].body) = 0
  BY <1>3
<1> QED BY <1>4, <1>5, <1>6

LEMMA CheckFacts ==
  ASSUME ShapeOK, FlowInv, OrderInv, NEW k \in Blocks, code[k].term.kind = "check",
         NEW j, j = Len(code[k].body) + 1
  PROVE  \E c, m \in Blocks :
           /\ code[k].term.kill = c /\ code[k].term.next = m
           /\ code[c].term.kind = "kill" /\ code[c].body = << >> /\ code[m].term.kind # "kill"
           /\ OriginalAt(k, j) = code[k].term.place
           /\ OriginalAt(k, j) \in Places
           /\ OriginalAt(c, 1) = OriginalAt(k, j) /\ OriginalAt(m, 1) = OriginalAt(k, j)
           /\ PassedAt(c, 1) = PassedAt(k, j) /\ PassedAt(k, j) \subseteq PassedAt(m, 1)
<1>1. PICK c \in Blocks, m \in Blocks :
        /\ code[k].term.kill = c /\ code[k].term.next = m
        /\ code[c].term.kind = "kill" /\ code[c].term.next = m
        /\ code[m].term.kind # "kill" /\ StartOf(m) = code[k].term.place
  BY DEF FlowInv, CheckOK
<1>2. /\ code[k].term.place \in Places /\ Len(code[k].body) \in Nat
      /\ Len(code[c].body) \in Nat /\ (code[c].body = << >> <=> Len(code[c].body) = 0)
  BY CodeFacts
<1>3. ~(j <= Len(code[k].body))
  BY <1>2
<1>4. code[c].body = << >>
  BY <1>1 DEF FlowInv, KillOK
<1>5. OriginalAt(k, j) = code[k].term.place /\ EndOf(k) = code[k].term.place
  BY <1>3 DEF OriginalAt, PlaceAt, EndOf
<1>6. OriginalAt(c, 1) = StartOf(m)
  BY <1>1 DEF OriginalAt
<1>7. PassedAt(k, j) = {d \in KillsOf(StartOf(m)) : d < c}
  BY <1>1, <1>3, <1>5 DEF PassedAt
<1>8. PassedAt(c, 1) = {d \in KillsOf(StartOf(m)) : d < c}
  BY <1>1, <1>2, <1>4, <1>6 DEF PassedAt
<1>9. /\ OriginalAt(m, 1) = StartOf(m)
      /\ {d \in KillsOf(StartOf(m)) : d <= c} \subseteq PassedAt(m, 1)
  BY <1>1, <1>2, TargetFacts
<1>10. PassedAt(k, j) \subseteq PassedAt(m, 1)
  <2>1. KillsOf(StartOf(m)) \subseteq Nat /\ c \in Nat
    BY CodeFacts DEF KillsOf, Blocks
  <2> QED BY <1>7, <1>9, <2>1
<1> QED BY <1>1, <1>2, <1>4, <1>5, <1>6, <1>7, <1>8, <1>9, <1>10

LEMMA KillFacts ==
  ASSUME ShapeOK, FlowInv, OrderInv, NEW k \in Blocks, code[k].term.kind = "kill"
  PROVE  \E m \in Blocks :
           /\ code[k].term.next = m /\ code[m].term.kind # "kill"
           /\ code[k].body = << >>
           /\ OriginalAt(k, 1) \in Places
           /\ OriginalAt(m, 1) = OriginalAt(k, 1)
           /\ k \notin PassedAt(k, 1) /\ PassedAt(k, 1) \cup {k} \subseteq PassedAt(m, 1)
<1>1. PICK m \in Blocks :
        code[k].term.next = m /\ code[m].term.kind # "kill" /\ StartOf(m) \in Places
  BY DEF FlowInv, KillOK
<1>2. code[k].body = << >> /\ Len(code[k].body) = 0
  BY CodeFacts DEF FlowInv, KillOK
<1>3. OriginalAt(k, 1) = StartOf(m)
  BY <1>1 DEF OriginalAt
<1>4. PassedAt(k, 1) = {d \in KillsOf(StartOf(m)) : d < k}
  BY <1>1, <1>2, <1>3 DEF PassedAt
<1>5. /\ OriginalAt(m, 1) = StartOf(m) /\ k \in KillsOf(StartOf(m))
      /\ {d \in KillsOf(StartOf(m)) : d <= k} \subseteq PassedAt(m, 1)
  BY <1>1, TargetFacts
<1>6. KillsOf(StartOf(m)) \subseteq Nat /\ k \in Nat
  BY CodeFacts DEF KillsOf, Blocks
<1> QED BY <1>1, <1>2, <1>3, <1>4, <1>5, <1>6

-----------------------------------------------------------------------------
LEMMA PassedFacts ==
  ASSUME ShapeOK, FlowInv, CountInv, NEW k \in Blocks, NEW j \in Nat \ {0},
         j <= Len(code[k].body) + 1
  PROVE  IsFiniteSet(PassedAt(k, j)) /\ Cardinality(PassedAt(k, j)) \in 0 .. 2
<1>1. \A p \in Places : IsFiniteSet(KillsOf(p)) /\ Cardinality(KillsOf(p)) \in 0 .. 2
  <2> TAKE p \in Places
  <2>1. IsFiniteSet(KillsOf(p)) /\ Cardinality(KillsOf(p)) + toDo[p] = Uses(StoreAt(p))
    BY DEF CountInv
  <2>2. Cardinality(KillsOf(p)) \in Nat
    BY <2>1, FS_CardinalityType
  <2>3. toDo[p] \in 0 .. 2 /\ Uses(StoreAt(p)) \in 0 .. 2
    BY PlaceFacts DEF ShapeOK
  <2> QED BY <2>1, <2>2, <2>3
<1>2. PassedAt(k, j) = {} \/ \E p \in Places : PassedAt(k, j) \subseteq KillsOf(p)
  <2>1. CASE j <= Len(code[k].body)
    <3>1. j \in 1 .. Len(code[k].body)
      BY <2>1, CodeFacts
    <3>2. PassedAt(k, j) = KillsOf(code[k].body[j]) /\ code[k].body[j] \in Places
      BY <2>1, <3>1, CodeFacts DEF PassedAt, PlaceAt
    <3> QED BY <3>2
  <2>2. CASE ~(j <= Len(code[k].body)) /\ code[k].term.kind = "branch"
    BY <2>2 DEF PassedAt
  <2>3. CASE ~(j <= Len(code[k].body)) /\ code[k].term.kind = "check"
    <3>1. EndOf(k) \in Places
      BY <2>3, CodeFacts DEF EndOf
    <3>2. PassedAt(k, j) = {c \in KillsOf(EndOf(k)) : c < code[k].term.kill}
      BY <2>3 DEF PassedAt
    <3> QED BY <3>1, <3>2
  <2>4. CASE ~(j <= Len(code[k].body)) /\ code[k].term.kind = "kill"
    <3>1. OriginalAt(k, 1) \in Places
      BY <2>4 DEF FlowInv, KillOK, OriginalAt
    <3>2. PassedAt(k, j) = {c \in KillsOf(OriginalAt(k, 1)) : c < k}
      BY <2>4 DEF PassedAt
    <3> QED BY <3>1, <3>2
  <2>5. code[k].term.kind \in {"branch", "check", "kill"}
    BY CodeFacts
  <2> QED BY <2>1, <2>2, <2>3, <2>4, <2>5
<1>3. CASE PassedAt(k, j) = {}
  BY <1>3, FS_EmptySet
<1>4. ASSUME NEW p \in Places, PassedAt(k, j) \subseteq KillsOf(p)
      PROVE  IsFiniteSet(PassedAt(k, j)) /\ Cardinality(PassedAt(k, j)) \in 0 .. 2
  <2>1. IsFiniteSet(KillsOf(p)) /\ Cardinality(KillsOf(p)) \in 0 .. 2
    BY <1>1
  <2>2. /\ IsFiniteSet(PassedAt(k, j))
        /\ Cardinality(PassedAt(k, j)) <= Cardinality(KillsOf(p))
    BY <1>4, <2>1, FS_Subset
  <2>3. Cardinality(PassedAt(k, j)) \in Nat
    BY <2>2, FS_CardinalityType
  <2> QED BY <2>1, <2>2, <2>3
<1> QED BY <1>2, <1>3, <1>4

(* The instrumented function is at instruction j of block k.               *)
LEMMA OriginalFacts ==
  ASSUME ShapeOK, FlowInv, NEW k \in Blocks, NEW j \in Nat \ {0}, pc = <<k, j>>,
         j <= Len(code[k].body) + 1
  PROVE  Original = OriginalAt(k, j) /\ Passed = PassedAt(k, j)
<1>1. pc[1] = k /\ pc[2] = j /\ Passed = PassedAt(k, j) /\ block = code[k]
  BY DEF Passed, block
<1>2. Len(code[k].body) \in Nat
  BY CodeFacts
<1>3. CASE code[k].term.kind = "kill"
  <2>1. PICK m \in Blocks : code[k].term.next = m /\ code[k].body = << >>
    BY <1>3 DEF FlowInv, KillOK
  <2>2. Len(code[m].body) \in Nat /\ (code[m].body = << >> <=> Len(code[m].body) = 0)
    BY CodeFacts
  <2>3. AtEnd
    BY <1>1, <2>1, CodeFacts DEF AtEnd
  <2>4. Original = IF code[m].body # << >> THEN code[m].body[1] ELSE EndOf(m)
    BY <1>1, <1>3, <2>1, <2>3 DEF Original, EndOf
  <2>5. OriginalAt(k, j) = StartOf(m)
    BY <1>3, <2>1 DEF OriginalAt
  <2> QED BY <1>1, <2>2, <2>4, <2>5 DEF StartOf, PlaceAt
<1>4. CASE code[k].term.kind # "kill"
  <2>1. OriginalAt(k, j) = PlaceAt(k, j)
    BY <1>4 DEF OriginalAt
  <2> QED BY <1>1, <1>2, <1>4, <2>1 DEF Original, PlaceAt, EndOf, AtEnd
<1> QED BY <1>3, <1>4

-----------------------------------------------------------------------------
Inv == ShapeOK /\ CodeInv /\ RunInv

LEMMA InitInv ==
  ASSUME Init
  PROVE  Inv
<1> DEFINE C == [body : Seq(Places), term : Terms]
<1>1. func \in Functions /\ Len(func) \in Nat /\ Len(func) > 0
      /\ \A b \in 1 .. Len(func) : Len(func[b].stores) \in Nat
  BY FunctionFacts DEF Init
<1>2. ASSUME NEW b \in 1 .. Len(func)
      PROVE  /\ code[b].term = [kind |-> "branch", of |-> b]
             /\ code[b].body \in Seq(Places) /\ Len(code[b].body) = Len(func[b].stores)
             /\ \A i \in 1 .. Len(func[b].stores) : code[b].body[i] = <<b, i>>
             /\ code[b] \in C
  <2>1. code[b] = [body |-> [i \in 1 .. Len(func[b].stores) |-> <<b, i>>],
                   term |-> [kind |-> "branch", of |-> b]]
    BY DEF Init
  <2>2. code[b].body = [i \in 1 .. Len(func[b].stores) |-> <<b, i>>]
    BY <2>1
  <2>3. code[b].body \in [1 .. Len(func[b].stores) -> Places]
    BY <2>2 DEF Places
  <2>4. code[b].body \in Seq(Places) /\ Len(code[b].body) = Len(func[b].stores)
    BY <1>1, <2>3, FunctionIsSeq
  <2>5. code[b].term = [kind |-> "branch", of |-> b] /\ code[b].term \in Terms
    BY <2>1 DEF Terms, Branches
  <2> QED BY <2>1, <2>2, <2>4, <2>5
<1> HIDE DEF C
<1>3. code \in Seq(C) /\ Len(code) = Len(func)
  <2>1. code \in [1 .. Len(func) -> C]
    BY <1>2 DEF Init
  <2> QED BY <1>1, <2>1, FunctionIsSeq
<1>4. /\ Blocks = 1 .. Len(func)
      /\ \A k \in Blocks : /\ code[k].term.kind = "branch" /\ code[k].term.of = k
                            /\ Len(code[k].body) = Len(func[k].stores)
                            /\ \A i \in 1 .. Len(func[k].stores) : code[k].body[i] = <<k, i>>
  <2>1. Blocks = 1 .. Len(func)
    BY <1>3 DEF Blocks
  <2> SUFFICES ASSUME NEW k \in Blocks
               PROVE  /\ code[k].term.kind = "branch" /\ code[k].term.of = k
                      /\ Len(code[k].body) = Len(func[k].stores)
                      /\ \A i \in 1 .. Len(func[k].stores) : code[k].body[i] = <<k, i>>
    BY <2>1
  <2>2. /\ code[k].term = [kind |-> "branch", of |-> k]
        /\ Len(code[k].body) = Len(func[k].stores)
        /\ \A i \in 1 .. Len(func[k].stores) : code[k].body[i] = <<k, i>>
    BY <1>2, <2>1, Zenon
  <2> QED BY <2>2
<1>5. ShapeOK
  <2>1. toDo \in [Places -> 0 .. 2]
    BY PlaceFacts DEF Init
  <2>2. pc \in Blocks \X (Nat \ {0}) /\ pc[2] <= Len(code[pc[1]].body) + 1
    BY <1>1, <1>2, <1>4 DEF Init
  <2> QED BY <1>1, <1>3, <2>1, <2>2 DEF ShapeOK, Init, C
<1>6. \A k \in Blocks : EndOf(k) = <<k, Len(func[k].stores) + 1>>
  BY <1>4 DEF EndOf
<1>7. \A k \in Blocks : RunOK(k) /\ StartOf(k) = <<k, 1>>
  <2> TAKE k \in Blocks
  <2>1. \A j \in 1 .. Len(func[k].stores) + 1 : PlaceAt(k, j) = <<k, j>>
    <3> SUFFICES ASSUME NEW j \in 1 .. Len(func[k].stores) + 1
                 PROVE  PlaceAt(k, j) = <<k, j>>
      OBVIOUS
    <3>1. Len(func[k].stores) \in Nat
      BY <1>1
    <3>2. CASE j = Len(func[k].stores) + 1
      <4>1. ~(j <= Len(code[k].body))
        BY <1>4, <3>1, <3>2
      <4> QED BY <1>6, <3>2, <4>1 DEF PlaceAt
    <3>3. CASE j # Len(func[k].stores) + 1
      <4>1. j <= Len(code[k].body) /\ j \in 1 .. Len(func[k].stores)
        BY <1>4, <3>1, <3>3
      <4> QED BY <1>4, <4>1 DEF PlaceAt
    <3> QED BY <3>2, <3>3
  <2>2. StartOf(k) = <<k, 1>>
    BY <1>1, <1>4, <2>1 DEF StartOf
  <2>3. ASSUME NEW j \in 1 .. Len(func[k].stores)
        PROVE  PlaceAt(k, j + 1) = <<code[k].body[j][1], code[k].body[j][2] + 1>>
    <3>1. code[k].body[j] = <<k, j>> /\ j + 1 \in 1 .. Len(func[k].stores) + 1
      BY <1>1, <1>4
    <3> QED BY <2>1, <3>1
  <2> QED BY <1>4, <2>2, <2>3 DEF RunOK
<1>8. FlowInv
  BY <1>1, <1>3, <1>4, <1>7 DEF FlowInv
<1>9. UniqueInv
  <2> SUFFICES ASSUME NEW k \in Blocks, NEW l \in Blocks,
                      NEW i \in 1 .. Len(code[k].body), NEW j \in 1 .. Len(code[l].body),
                      code[k].body[i] = code[l].body[j]
               PROVE  k = l /\ i = j
    BY DEF UniqueInv
  <2>1. code[k].body[i] = <<k, i>> /\ code[l].body[j] = <<l, j>>
    BY <1>4
  <2>2. <<k, i>> = <<l, j>>
    BY <2>1
  <2> QED BY <2>2
<1>10. FrontInv
  <2> SUFFICES ASSUME NEW k \in Blocks, NEW i \in 1 .. Len(code[k].body)
               PROVE  ~(toDo[code[k].body[i]] < Uses(StoreAt(code[k].body[i])))
    BY DEF FrontInv
  <2>1. code[k].body[i] \in Places
    BY <1>5, CodeFacts
  <2>2. /\ toDo[code[k].body[i]] = Uses(StoreAt(code[k].body[i]))
        /\ Uses(StoreAt(code[k].body[i])) \in 0 .. 2
    BY <1>1, <2>1, PlaceFacts DEF Init
  <2> QED BY <2>2
<1>11. CountInv
  <2> SUFFICES ASSUME NEW p \in Places
               PROVE  /\ IsFiniteSet(KillsOf(p))
                      /\ Cardinality(KillsOf(p)) + toDo[p] = Uses(StoreAt(p))
    BY DEF CountInv
  <2>1. KillsOf(p) = {}
    BY <1>4 DEF KillsOf
  <2>2. toDo[p] = Uses(StoreAt(p)) /\ Uses(StoreAt(p)) \in 0 .. 2
    BY <1>1, PlaceFacts DEF Init
  <2> QED BY <2>1, <2>2, FS_EmptySet
<1>12. OrderInv
  BY <1>4 DEF OrderInv
<1>13. RunInv
  <2>1. phase = "pass" /\ pc = <<1, 1>> /\ announced = 0
    BY DEF Init
  <2>2. GuardInv
    BY <1>1, <2>1 DEF GuardInv
  <2>3. Cardinality(Passed) \in Nat
    <3>1. 1 \in Blocks /\ 1 \in Nat \ {0} /\ 1 <= Len(code[1].body) + 1
      BY <1>1, <1>2, <1>4
    <3> QED BY <1>5, <1>8, <1>11, <2>1, <3>1, PassedFacts DEF Passed
  <2> QED BY <2>1, <2>2, <2>3 DEF RunInv
<1> QED BY <1>5, <1>8, <1>9, <1>10, <1>11, <1>12, <1>13 DEF Inv, CodeInv

(***************************************************************************)
(* The function runs and its code stays as it is.                          *)
(***************************************************************************)
LEMMA SameCode ==
  ASSUME UNCHANGED <<func, code, toDo>>
  PROVE  /\ CodeInv => CodeInv'
         /\ Blocks' = Blocks /\ Places' = Places /\ Terms' = Terms
         /\ \A k, j : OriginalAt(k, j)' = OriginalAt(k, j)
         /\ \A k, j : PassedAt(k, j)' = PassedAt(k, j)
<1>1. Blocks' = Blocks /\ Places' = Places
  BY DEF Blocks, Places
<1>2. Terms' = Terms
  BY <1>1 DEF Terms, Branches, Checks, Kills, Blocks
<1>3. \A k, j : OriginalAt(k, j)' = OriginalAt(k, j)
  BY DEF OriginalAt, PlaceAt, StartOf, EndOf
<1>4. \A k, j : PassedAt(k, j)' = PassedAt(k, j)
  BY DEF PassedAt, KillsOf, OriginalAt, PlaceAt, StartOf, EndOf, Blocks
<1>5. CodeInv => CodeInv'
  <2>1. FlowInv => FlowInv'
    <3>1. \A k : StartOf(k)' = StartOf(k) /\ RunOK(k)' = RunOK(k)
      BY DEF RunOK, StartOf, PlaceAt, EndOf
    <3>2. \A k : KillOK(k)' = KillOK(k) /\ CheckOK(k)' = CheckOK(k)
      BY <1>1, <3>1 DEF KillOK, CheckOK
    <3> QED BY <1>1, <3>1, <3>2 DEF FlowInv
  <2>2. UniqueInv => UniqueInv'
    BY <1>1 DEF UniqueInv
  <2>3. FrontInv => FrontInv'
    <3>1. \A k \in Blocks' : \A x \in 1 .. Len(code'[k].body) :
            Uses(StoreAt(code[k].body[x]))' = Uses(StoreAt(code[k].body[x]))
      BY DEF Uses, StoreAt
    <3> QED BY <1>1, <3>1, Zenon DEF FrontInv
  <2>4. CountInv => CountInv'
    <3>1. \A p : KillsOf(p)' = KillsOf(p) /\ Uses(StoreAt(p))' = Uses(StoreAt(p))
      BY <1>1 DEF KillsOf, PlaceAt, StartOf, EndOf, Uses, StoreAt
    <3> QED BY <1>1, <3>1 DEF CountInv
  <2>5. OrderInv => OrderInv'
    BY <1>1 DEF OrderInv
  <2> QED BY <2>1, <2>2, <2>3, <2>4, <2>5 DEF CodeInv
<1> QED BY <1>1, <1>2, <1>3, <1>4, <1>5

OriginalClaim ==
  \A k \in Blocks : \A j \in Nat \ {0} :
    ShapeOK /\ FlowInv /\ pc = <<k, j>> /\ j <= Len(code[k].body) + 1 =>
      Original = OriginalAt(k, j) /\ Passed = PassedAt(k, j)

LEMMA OriginalHolds == OriginalClaim
BY OriginalFacts DEF OriginalClaim

LEMMA MoveTo ==
  ASSUME ShapeOK, CodeInv, UNCHANGED <<func, code, toDo, phase>>,
         NEW k \in Blocks, NEW j \in Nat \ {0}, j <= Len(code[k].body) + 1,
         pc' = <<k, j>>, mem' \in [Loc -> Value], announced' \in Nat
  PROVE  /\ ShapeOK' /\ CodeInv'
         /\ Original' = OriginalAt(k, j) /\ Passed' = PassedAt(k, j)
<1>1. /\ CodeInv' /\ Blocks' = Blocks /\ Places' = Places /\ Terms' = Terms
      /\ OriginalAt(k, j)' = OriginalAt(k, j) /\ PassedAt(k, j)' = PassedAt(k, j)
  BY SameCode
<1>2. ShapeOK'
  BY <1>1 DEF ShapeOK
<1>3. OriginalClaim'
  BY OriginalHolds, PTL
<1>4. Original' = OriginalAt(k, j)' /\ Passed' = PassedAt(k, j)'
  BY <1>1, <1>2, <1>3 DEF OriginalClaim, CodeInv
<1> QED BY <1>1, <1>2, <1>4

-----------------------------------------------------------------------------
(***************************************************************************)
(* Each action keeps Inv and is a step of the plain execution or none.     *)
(***************************************************************************)
AtEntry == pc = <<1, 1>> => Original = <<1, 1>> /\ Cardinality(Passed) \in Nat

LEMMA EntryFacts == ShapeOK /\ FlowInv /\ CountInv => AtEntry
<1> SUFFICES ASSUME ShapeOK, FlowInv, CountInv, pc = <<1, 1>>
             PROVE  Original = <<1, 1>> /\ Cardinality(Passed) \in Nat
  BY DEF AtEntry
<1>1. /\ 1 \in Blocks /\ 1 \in Nat \ {0} /\ 1 \in 1 .. Len(func)
      /\ 1 <= Len(code[1].body) + 1
  BY FunctionFacts, CodeFacts DEF ShapeOK
<1>2. Original = OriginalAt(1, 1) /\ Passed = PassedAt(1, 1)
  BY <1>1, OriginalFacts
<1>3. OriginalAt(1, 1) = <<1, 1>>
  BY <1>1 DEF FlowInv, OriginalAt, StartOf
<1> QED BY <1>1, <1>2, <1>3, PassedFacts

LEMMA InstrumentStep ==
  ASSUME Inv, NEW p \in Places, instrumentStoreInstruction(p)
  PROVE  Inv' /\ UNCHANGED <<func, mem, Original>>
<1>1. /\ ShapeOK /\ FlowInv /\ UniqueInv /\ FrontInv /\ CountInv /\ OrderInv
      /\ phase = "pass" /\ pc = <<1, 1>> /\ announced = 0
  BY DEF Inv, CodeInv, RunInv, instrumentStoreInstruction
<1>2. PICK b \in 1 .. Len(code) : \E i \in 1 .. Len(code[b].body) :
        IsAt(p, b, i) /\ code' = Split(p, b, i)
  BY DEF instrumentStoreInstruction
<1>3. PICK i \in 1 .. Len(code[b].body) : IsAt(p, b, i) /\ code' = Split(p, b, i)
  BY <1>2
<1>4. /\ SplitAt(p, b, i) /\ toDo' = [toDo EXCEPT ![p] = @ - 1] /\ toDo[p] > 0
      /\ UNCHANGED <<func, phase, mem, pc, announced>>
  BY <1>3 DEF SplitAt, Blocks, instrumentStoreInstruction
<1>5. ShapeOK' /\ FlowInv' /\ UniqueInv' /\ FrontInv' /\ CountInv' /\ OrderInv'
  BY <1>1, <1>4, SplitKeepsShape, SplitKeepsFlow, SplitKeepsUnique, SplitKeepsFront,
     SplitKeepsCount, SplitKeepsOrder
<1>6. AtEntry /\ AtEntry'
  BY <1>1, <1>5, EntryFacts, PTL
<1>7. Original = <<1, 1>> /\ Original' = <<1, 1>> /\ Cardinality(Passed') \in Nat
  BY <1>1, <1>4, <1>6 DEF AtEntry
<1>8. GuardInv'
  <2>1. ~(pc'[1] > Len(func'))
    BY <1>1, <1>4, FunctionFacts DEF ShapeOK
  <2> QED BY <2>1 DEF GuardInv
<1>9. RunInv'
  <2>1. pc' = <<1, 1>> /\ announced' = 0 /\ phase' = "pass"
    BY <1>1, <1>4
  <2> QED BY <1>7, <1>8, <2>1 DEF RunInv
<1> QED BY <1>4, <1>5, <1>7, <1>9 DEF Inv, CodeInv

LEMMA RunStep ==
  ASSUME Inv, Run
  PROVE  Inv' /\ UNCHANGED <<func, mem, Original>>
<1>1. ShapeOK' /\ CodeInv'
  <2>1. ShapeOK /\ CodeInv /\ UNCHANGED <<func, code, toDo, mem, pc, announced>> /\ phase' = "run"
    BY DEF Inv, Run
  <2>2. CodeInv' /\ Blocks' = Blocks /\ Places' = Places /\ Terms' = Terms
    BY <2>1, SameCode
  <2> QED BY <2>1, <2>2 DEF ShapeOK
<1>2. Original' = Original /\ Passed' = Passed
  <2>1. \A k, j : PassedAt(k, j)' = PassedAt(k, j)
    BY SameCode DEF Run
  <2>2. Passed' = Passed
    BY <2>1 DEF Passed, Run, PassedAt, KillsOf, OriginalAt, PlaceAt, StartOf, EndOf, Blocks
  <2> QED BY <2>2 DEF Run, Original, AtEnd, block
<1>3. RunInv'
  <2>1. GuardInv'
    BY <1>2 DEF Inv, RunInv, GuardInv, Run, block, StoreAt
  <2> QED BY <1>2, <2>1 DEF Inv, RunInv, Run, Places
<1> QED BY <1>1, <1>2, <1>3 DEF Inv, Run

(* Where the running function is.                                          *)
LEMMA AtInstruction ==
  ASSUME Inv
  PROVE  \E k \in Blocks, j \in Nat \ {0} :
           /\ pc = <<k, j>> /\ j <= Len(code[k].body) + 1 /\ block = code[k]
           /\ Len(code[k].body) \in Nat
           /\ AtEnd => j = Len(code[k].body) + 1
           /\ ~AtEnd => j \in 1 .. Len(code[k].body)
           /\ Original = OriginalAt(k, j) /\ Passed = PassedAt(k, j)
<1>1. ShapeOK /\ FlowInv
  BY DEF Inv, CodeInv
<1>2. PICK k \in Blocks, j \in Nat \ {0} : pc = <<k, j>>
  BY <1>1 DEF ShapeOK
<1>3. j <= Len(code[k].body) + 1 /\ block = code[k] /\ Len(code[k].body) \in Nat
  BY <1>1, <1>2, CodeFacts DEF ShapeOK, block
<1>4. Original = OriginalAt(k, j) /\ Passed = PassedAt(k, j)
  BY <1>1, <1>2, <1>3, OriginalFacts
<1>5. (AtEnd => j = Len(code[k].body) + 1) /\ (~AtEnd => j \in 1 .. Len(code[k].body))
  BY <1>2, <1>3 DEF AtEnd
<1> QED BY <1>2, <1>3, <1>4, <1>5

LEMMA StoreStep ==
  ASSUME Inv, Store
  PROVE  Inv' /\ Plain!Store
<1>1. /\ ShapeOK /\ CodeInv /\ FlowInv /\ CountInv
      /\ phase = "run" /\ ~AtEnd /\ pc' = <<pc[1], pc[2] + 1>> /\ announced' = 0
      /\ UNCHANGED <<func, code, toDo, phase>>
  BY DEF Inv, CodeInv, Store
<1>2. PICK k \in Blocks, j \in Nat \ {0} :
        /\ pc = <<k, j>> /\ block = code[k] /\ j \in 1 .. Len(code[k].body)
        /\ Len(code[k].body) \in Nat /\ Original = OriginalAt(k, j)
  BY <1>1, AtInstruction
<1>3. /\ code[k].body[j] \in Places /\ Original = code[k].body[j]
      /\ OriginalAt(k, j + 1) = <<Original[1], Original[2] + 1>>
  BY <1>1, <1>2, StoreFacts
<1>4. mem' = [mem EXCEPT ![StoreAt(Original).ptr] = StoreAt(Original).val]
  BY <1>2, <1>3 DEF Store
<1>5. mem' \in [Loc -> Value]
  BY <1>1, <1>3, <1>4, PlaceFacts DEF ShapeOK
<1>6. j + 1 \in Nat \ {0} /\ j + 1 <= Len(code[k].body) + 1 /\ pc' = <<k, j + 1>>
  BY <1>1, <1>2
<1>7. /\ ShapeOK' /\ CodeInv'
      /\ Original' = OriginalAt(k, j + 1) /\ Passed' = PassedAt(k, j + 1)
  BY <1>1, <1>5, <1>6, MoveTo
<1>8. RunInv'
  <2>1. Cardinality(Passed') \in Nat
    <3> DEFINE l == j + 1
    <3>1. l \in Nat \ {0} /\ l <= Len(code[k].body) + 1
      BY <1>6
    <3> HIDE DEF l
    <3>2. Cardinality(PassedAt(k, l)) \in 0 .. 2
      BY <1>1, <3>1, PassedFacts
    <3> QED BY <1>7, <3>2 DEF l
  <2>2. pc'[2] # 1
    <3>1. \A m \in Nat \ {0} : m + 1 # 1
      OBVIOUS
    <3> DEFINE l == j + 1
    <3>2. l # 1
      BY <3>1
    <3>3. pc' = <<k, l>>
      BY <1>6, Zenon
    <3> HIDE DEF l
    <3> QED BY <3>2, <3>3
  <2> QED BY <1>1, <2>1, <2>2 DEF RunInv, GuardInv, Inv, Places
<1>9. Plain!Store
  <2>1. Original[1] \in 1 .. Len(func) /\ Original[2] <= Len(func[Original[1]].stores)
    <3>1. Original \in Places
      BY <1>3
    <3>2. Original[1] \in 1 .. Len(func) /\ Original[2] \in 1 .. Len(func[Original[1]].stores)
      BY <1>1, <3>1, PlaceFacts DEF ShapeOK
    <3>3. Len(func[Original[1]].stores) \in Nat
      BY <1>1, <3>2, FunctionFacts DEF ShapeOK
    <3> QED BY <3>2, <3>3
  <2> QED BY <1>1, <1>3, <1>4, <1>7, <2>1 DEF Plain!Store, Plain!AtStore, Plain!current, StoreAt
<1> QED BY <1>7, <1>8, <1>9 DEF Inv

LEMMA BranchStep ==
  ASSUME Inv, Branch
  PROVE  Inv' /\ Plain!Branch
<1>1. /\ ShapeOK /\ CodeInv /\ FlowInv /\ CountInv
      /\ phase = "run" /\ AtEnd /\ block.term.kind = "branch"
      /\ UNCHANGED <<func, code, toDo, phase, mem, announced>>
  BY DEF Inv, CodeInv, Branch
<1>2. PICK b \in func[block.term.of].next : pc' = <<b, 1>>
  BY DEF Branch
<1>3. PICK k \in Blocks, j \in Nat \ {0} :
        /\ block = code[k] /\ j = Len(code[k].body) + 1
        /\ Original = OriginalAt(k, j) /\ Passed = PassedAt(k, j)
  BY <1>1, AtInstruction
<1>4. /\ code[k].term.of \in 1 .. Len(func)
      /\ Original = <<code[k].term.of, Len(func[code[k].term.of].stores) + 1>>
      /\ Passed = {}
      /\ b \in 1 .. Len(func) /\ b \in Blocks /\ OriginalAt(b, 1) = <<b, 1>>
  BY <1>1, <1>2, <1>3, BranchFacts
<1>5. announced \in Nat /\ announced = 0
  BY <1>4, FS_EmptySet DEF Inv, ShapeOK, RunInv
<1>6. 1 \in Nat \ {0} /\ 1 <= Len(code[b].body) + 1
  BY <1>1, <1>4, CodeFacts
<1>7. /\ ShapeOK' /\ CodeInv'
      /\ Original' = <<b, 1>> /\ Passed' = PassedAt(b, 1)
  BY <1>1, <1>2, <1>4, <1>5, <1>6, MoveTo DEF ShapeOK
<1>8. RunInv'
  <2>1. Cardinality(Passed') \in Nat
    BY <1>1, <1>4, <1>6, <1>7, PassedFacts
  <2>2. ~(pc'[1] > Len(func'))
    BY <1>1, <1>2, <1>4, FunctionFacts DEF ShapeOK
  <2> QED BY <1>1, <1>5, <2>1, <2>2 DEF RunInv, GuardInv, Inv, Places
<1>9. Plain!Branch
  <2>1. Len(func[code[k].term.of].stores) \in Nat
    BY <1>1, <1>4, FunctionFacts DEF ShapeOK
  <2>2. ~Plain!AtStore /\ Plain!current = func[block.term.of]
    BY <1>3, <1>4, <2>1 DEF Plain!AtStore, Plain!current
  <2> QED BY <1>1, <1>2, <1>7, <2>2 DEF Plain!Branch
<1> QED BY <1>7, <1>8, <1>9 DEF Inv

LEMMA CheckStep ==
  ASSUME Inv, Check
  PROVE  Inv' /\ UNCHANGED <<func, mem, Original>>
<1>1. /\ ShapeOK /\ CodeInv /\ FlowInv /\ CountInv /\ OrderInv
      /\ phase = "run" /\ AtEnd /\ block.term.kind = "check"
      /\ UNCHANGED <<func, code, toDo, phase, mem, announced>>
      /\ announced \in Nat /\ mem \in [Loc -> Value]
  BY DEF Inv, CodeInv, Check, ShapeOK
<1>2. PICK k \in Blocks, j \in Nat \ {0} :
        /\ block = code[k] /\ j = Len(code[k].body) + 1 /\ j <= Len(code[k].body) + 1
        /\ Original = OriginalAt(k, j) /\ Passed = PassedAt(k, j)
  BY <1>1, AtInstruction
<1>3. PICK c \in Blocks, m \in Blocks :
        /\ code[k].term.kill = c /\ code[k].term.next = m
        /\ code[c].term.kind = "kill" /\ code[c].body = << >> /\ code[m].term.kind # "kill"
        /\ Original = code[k].term.place
        /\ OriginalAt(c, 1) = Original /\ OriginalAt(m, 1) = Original
        /\ PassedAt(c, 1) = Passed /\ Passed \subseteq PassedAt(m, 1)
  BY <1>1, <1>2, CheckFacts
<1>4. pc' = <<IF mem[StoreAt(Original).ptr] # StoreAt(Original).val THEN c ELSE m, 1>>
  BY <1>2, <1>3 DEF Check
<1>5. announced <= Cardinality(Passed) /\ Cardinality(Passed) \in Nat
  <2>1. announced <= Cardinality(Passed)
    BY <1>1 DEF Inv, RunInv
  <2>2. Cardinality(PassedAt(k, j)) \in 0 .. 2
    BY <1>1, <1>2, PassedFacts
  <2> QED BY <1>2, <2>1, <2>2
<1>6. \A b \in Blocks : 1 \in Nat \ {0} /\ 1 <= Len(code[b].body) + 1
  BY <1>1, CodeFacts
<1>7. phase' = "run" /\ \A p \in Places' : toDo'[p] = 0
  BY <1>1 DEF Inv, RunInv, Places
<1>8. CASE mem[StoreAt(Original).ptr] # StoreAt(Original).val
  <2>1. pc' = <<c, 1>>
    BY <1>4, <1>8
  <2>2. ShapeOK' /\ CodeInv' /\ Original' = Original /\ Passed' = Passed
    BY <1>1, <1>3, <1>6, <2>1, MoveTo
  <2>3. block'.term.kind = "kill"
    BY <1>1, <1>3, <2>1 DEF block
  <2>4. GuardInv'
    BY <2>3 DEF GuardInv
  <2> QED BY <1>1, <1>5, <1>7, <2>2, <2>4 DEF Inv, RunInv
<1>9. CASE mem[StoreAt(Original).ptr] = StoreAt(Original).val
  <2>1. pc' = <<m, 1>>
    BY <1>4, <1>9
  <2>2. ShapeOK' /\ CodeInv' /\ Original' = Original /\ Passed' = PassedAt(m, 1)
    BY <1>1, <1>3, <1>6, <2>1, MoveTo
  <2>3. GuardInv'
    BY <1>1, <1>9, <2>2 DEF GuardInv, StoreAt
  <2>4. announced' <= Cardinality(Passed')
    <3>1. IsFiniteSet(PassedAt(m, 1)) /\ Cardinality(PassedAt(m, 1)) \in Nat
      BY <1>1, <1>6, PassedFacts
    <3>2. Cardinality(Passed) <= Cardinality(PassedAt(m, 1))
      BY <1>3, <3>1, FS_Subset
    <3> QED BY <1>1, <1>5, <2>2, <3>1, <3>2
  <2> QED BY <1>1, <1>7, <2>2, <2>3, <2>4 DEF Inv, RunInv
<1> QED BY <1>8, <1>9

LEMMA CallKillStep ==
  ASSUME Inv, CallKill
  PROVE  Inv' /\ UNCHANGED <<func, mem, Original>>
<1>1. /\ ShapeOK /\ CodeInv /\ FlowInv /\ CountInv /\ OrderInv
      /\ phase = "run" /\ AtEnd /\ block.term.kind = "kill"
      /\ announced' = announced + 1 /\ pc' = <<block.term.next, 1>>
      /\ UNCHANGED <<func, code, toDo, phase, mem>>
      /\ announced \in Nat /\ mem \in [Loc -> Value]
  BY DEF Inv, CodeInv, CallKill, ShapeOK
<1>2. PICK k \in Blocks, j \in Nat \ {0} :
        /\ block = code[k] /\ j = Len(code[k].body) + 1 /\ j <= Len(code[k].body) + 1
        /\ Original = OriginalAt(k, j) /\ Passed = PassedAt(k, j)
  BY <1>1, AtInstruction
<1>3. PICK m \in Blocks :
        /\ code[k].term.next = m /\ code[m].term.kind # "kill" /\ code[k].body = << >>
        /\ OriginalAt(m, 1) = OriginalAt(k, 1)
        /\ k \notin PassedAt(k, 1) /\ PassedAt(k, 1) \cup {k} \subseteq PassedAt(m, 1)
  BY <1>1, <1>2, KillFacts
<1>4. j = 1
  BY <1>1, <1>2, <1>3, CodeFacts
<1>5. 1 \in Nat \ {0} /\ 1 <= Len(code[m].body) + 1 /\ announced' \in Nat /\ pc' = <<m, 1>>
  BY <1>1, <1>2, <1>3, CodeFacts
<1>6. ShapeOK' /\ CodeInv' /\ Original' = Original /\ Passed' = PassedAt(m, 1)
  BY <1>1, <1>2, <1>3, <1>4, <1>5, MoveTo
<1>7. GuardInv'
  BY <1>1 DEF GuardInv
<1>8. announced' <= Cardinality(Passed')
  <2>1. /\ IsFiniteSet(PassedAt(k, 1)) /\ Cardinality(PassedAt(k, 1)) \in Nat
        /\ IsFiniteSet(PassedAt(m, 1)) /\ Cardinality(PassedAt(m, 1)) \in Nat
    BY <1>1, <1>2, <1>4, <1>5, PassedFacts
  <2>2. Cardinality(PassedAt(k, 1) \cup {k}) = Cardinality(PassedAt(k, 1)) + 1
    BY <1>3, <2>1, FS_AddElement
  <2>3. Cardinality(PassedAt(k, 1) \cup {k}) <= Cardinality(PassedAt(m, 1))
    BY <1>3, <2>1, FS_Subset
  <2>4. announced <= Cardinality(PassedAt(k, 1))
    BY <1>2, <1>4 DEF Inv, RunInv
  <2> QED BY <1>1, <1>6, <2>1, <2>2, <2>3, <2>4
<1>9. RunInv'
  BY <1>1, <1>7, <1>8 DEF Inv, RunInv, Places
<1> QED BY <1>1, <1>6, <1>9 DEF Inv

-----------------------------------------------------------------------------
LEMMA StepInv ==
  ASSUME Inv, [Next]_vars
  PROVE  Inv' /\ [Plain!Next]_(Plain!vars)
<1>1. ASSUME NEW p \in Places, instrumentStoreInstruction(p)
      PROVE  Inv' /\ [Plain!Next]_(Plain!vars)
  BY <1>1, InstrumentStep DEF Plain!vars
<1>2. CASE Run
  BY <1>2, RunStep DEF Plain!vars
<1>3. CASE Store
  BY <1>3, StoreStep DEF Plain!Next
<1>4. CASE Branch
  BY <1>4, BranchStep DEF Plain!Next
<1>5. CASE Check
  BY <1>5, CheckStep DEF Plain!vars
<1>6. CASE CallKill
  BY <1>6, CallKillStep DEF Plain!vars
<1>7. CASE UNCHANGED vars
  <2>1. UNCHANGED <<func, code, toDo, phase, mem, pc, announced>>
    BY <1>7 DEF vars
  <2>2. Original' = Original
    BY <2>1 DEF Original, AtEnd, block
  <2>3. /\ CodeInv => CodeInv'
        /\ Blocks' = Blocks /\ Places' = Places /\ Terms' = Terms
        /\ \A k, j : PassedAt(k, j)' = PassedAt(k, j)
    BY <2>1, SameCode
  <2>4. Passed' = Passed
    BY <2>1 DEF Passed, PassedAt, KillsOf, OriginalAt, PlaceAt, StartOf, EndOf, Blocks
  <2>5. ShapeOK' /\ CodeInv'
    BY <2>1, <2>3 DEF Inv, ShapeOK
  <2>6. RunInv'
    BY <2>1, <2>2, <2>3, <2>4 DEF Inv, RunInv, GuardInv, block, StoreAt
  <2> QED BY <2>1, <2>2, <2>5, <2>6 DEF Inv, Plain!vars
<1>8. CASE Returned
  BY <1>7, <1>8 DEF Returned
<1> QED BY <1>1, <1>2, <1>3, <1>4, <1>5, <1>6, <1>7, <1>8 DEF Next

LEMMA Invariant == Spec => []Inv
<1>1. Init => Inv
  BY InitInv
<1>2. Inv /\ [Next]_vars => Inv'
  BY StepInv
<1> QED BY <1>1, <1>2, PTL DEF Spec

(***************************************************************************)
(* The types, with the bound that a store never calls call_kill more often *)
(* than the indicator occurs in it.                                        *)
(***************************************************************************)
THEOREM TypeCorrect == Spec => []TypeOK
<1>1. Inv => TypeOK
  <2> SUFFICES ASSUME Inv PROVE TypeOK
    OBVIOUS
  <2>1. ShapeOK /\ FlowInv /\ CountInv /\ announced <= Cardinality(Passed)
    BY DEF Inv, CodeInv, RunInv
  <2>2. PICK k \in Blocks, j \in Nat \ {0} :
          /\ pc = <<k, j>> /\ j <= Len(code[k].body) + 1 /\ Len(code[k].body) \in Nat
          /\ Passed = PassedAt(k, j)
    BY AtInstruction
  <2>3. announced \in 0 .. 2
    <3>1. Cardinality(Passed) \in 0 .. 2
      BY <2>1, <2>2, PassedFacts
    <3> QED BY <2>1, <3>1 DEF ShapeOK
  <2>4. pc[1] \in 1 .. Len(code) /\ pc[2] \in 1 .. Len(code[pc[1]].body) + 1
    BY <2>2 DEF Blocks
  <2> QED BY <2>1, <2>3, <2>4 DEF ShapeOK, TypeOK, Terms
<1> QED BY <1>1, Invariant, PTL

(***************************************************************************)
(* The annotation changes nothing else: every step of the instrumented     *)
(* function is the store or branch the original would do, or changes       *)
(* neither memory nor its place in it.                                     *)
(***************************************************************************)
THEOREM Refinement == Spec => RunsAsBefore
<1>1. Init => Plain!Init
  <2> SUFFICES ASSUME Init PROVE Plain!Init
    OBVIOUS
  <2>1. AtEntry
    BY InitInv, EntryFacts DEF Inv, CodeInv
  <2> QED BY <2>1 DEF AtEntry, Init, Plain!Init
<1>2. Inv /\ [Next]_vars => [Plain!Next]_(Plain!vars)
  BY StepInv
<1> QED BY <1>1, <1>2, Invariant, PTL DEF Spec, RunsAsBefore, Plain!Spec

(***************************************************************************)
(* Each change of the indicator is announced by a call of call_kill since  *)
(* the store before it.                                                    *)
(***************************************************************************)
THEOREM Announcement == Spec => ChangesAreAnnounced
<1>1. ASSUME Inv, [Next]_vars
      PROVE  mem'[Ind] # mem[Ind] => announced > 0
  <2> SUFFICES ASSUME mem'[Ind] # mem[Ind]
               PROVE  announced > 0
    OBVIOUS
  <2>1. Store
    BY <1>1 DEF Next, vars, instrumentStoreInstruction, Run, Branch, Check, CallKill, Returned
  <2>2. /\ ShapeOK /\ CodeInv /\ FlowInv /\ FrontInv
        /\ ~AtEnd /\ \A p \in Places : toDo[p] = 0
        /\ announced \in Nat /\ mem \in [Loc -> Value]
    BY <1>1, <2>1 DEF Inv, CodeInv, RunInv, Store, ShapeOK
  <2>3. PICK k \in Blocks, j \in Nat \ {0} :
          /\ pc = <<k, j>> /\ block = code[k] /\ j \in 1 .. Len(code[k].body)
          /\ Original = OriginalAt(k, j)
    BY <1>1, <2>2, AtInstruction
  <2>4. /\ code[k].term.kind # "kill" /\ code[k].body[j] \in Places
        /\ Original = code[k].body[j]
    BY <2>2, <2>3, StoreFacts
  <2>5. StoreAt(Original) \in [ptr : Loc, val : Value]
    BY <2>2, <2>4, PlaceFacts DEF ShapeOK
  <2>6. mem' = [mem EXCEPT ![StoreAt(Original).ptr] = StoreAt(Original).val]
    BY <2>1, <2>3, <2>4 DEF Store
  <2>7. /\ StoreAt(Original).ptr = Ind
        /\ mem[StoreAt(Original).ptr] # StoreAt(Original).val
    BY <2>2, <2>5, <2>6, IndicatorAssumption
  <2>8. Uses(StoreAt(Original)) > 0
    BY <2>7 DEF Uses
  <2>9. j = 1 /\ k > Len(func)
    BY <2>2, <2>3, <2>4, <2>8 DEF FrontInv
  <2> QED BY <1>1, <2>3, <2>4, <2>7, <2>9 DEF Inv, RunInv, GuardInv
<1>2. Inv /\ [Next]_vars => [mem'[Ind] # mem[Ind] => announced > 0]_vars
  BY <1>1
<1> QED BY <1>2, Invariant, PTL DEF Spec, ChangesAreAnnounced

-----------------------------------------------------------------------------
(***************************************************************************)
(* The trace comparison, count_calls, for every pair of traces: the tree   *)
(* is the trace, the calls reported are topmost, and their weights add up. *)
(***************************************************************************)
(* What a trace t says of calls, whatever has been made of it: how many    *)
(* more calls have been entered than left from position c on, which calls  *)
(* are made during call c, and how deep a call is.                         *)
LeavesIn(t, c, k) == {j \in c .. k : t[j].kind = "Leave"}

Balance(t, c, k) == (k - c + 1) - 2 * Cardinality(LeavesIn(t, c, k))

OpenIn(t, c, i) == \A k \in c .. i : Balance(t, c, k) > 0

CallsOf(t) == {i \in 1 .. Len(t) : t[i].kind = "Enter"}

Extent(t, c) == {i \in CallsOf(t) : i >= c /\ OpenIn(t, c, i)}

Span(t, c) == IF c = 0 THEN {0} \cup CallsOf(t) ELSE Extent(t, c)

DepthIn(t, i) == Cardinality({c \in CallsOf(t) : i \in Extent(t, c)})

(* The sequence s has the calls made directly by c, where c and all calls  *)
(* made during it are S: the last call first, each after the one before it *)
(* has returned.                                                           *)
Nested(t, c, s, S) ==
  /\ s \in Seq(CallsOf(t))
  /\ \A a \in 1 .. Len(s) : s[a] > c
  /\ \A a, b \in 1 .. Len(s) : a < b => s[b] < s[a] /\ s[a] \notin Extent(t, s[b])
  /\ S = {c} \cup UNION {Extent(t, s[a]) : a \in 1 .. Len(s)}

(* The k-th open call's children, the open one included.                   *)
Kids(k) == IF k = 1 THEN context[1] ELSE <<names[k - 1]>> \o context[k]

(* The calls that are open and those that are complete, each with its      *)
(* children, which are complete but for the open ones.                     *)
StackInv ==
  /\ names \in Seq({0} \cup CallsOf(trace)) /\ context \in Seq(Seq(CallsOf(trace)))
  /\ Len(names) = Len(context)
  /\ \A j, k \in 1 .. Len(names) : j < k => names[j] # 0 /\ names[k] < names[j]
  /\ names # << >> => names[Len(names)] = 0
  /\ DOMAIN children = ({0} \cup CallsOf(trace)) \ {names[k] : k \in 1 .. Len(names)}

NestInv ==
  /\ \A c \in DOMAIN children : Nested(trace, c, children[c], Span(trace, c))
  /\ \A k \in 1 .. Len(names) : Nested(trace, names[k], Kids(k), Span(trace, names[k]))
  /\ \A c \in DOMAIN children : \A a \in 1 .. Len(children[c]) : children[c][a] \in DOMAIN children
  /\ \A k \in 1 .. Len(names) : \A a \in 1 .. Len(context[k]) : context[k][a] \in DOMAIN children

(* While the trace is read, the open calls are those not returned from.    *)
OpenInv ==
  stage = "nest" =>
    /\ \A k \in 1 .. Len(names) :
         names[k] # 0 => OpenIn(trace, names[k], Len(trace)) /\ Balance(trace, names[k], Len(trace)) = k
    /\ \A c \in DOMAIN children : c # 0 /\ ~OpenIn(trace, c, Len(trace))

(* A function that was left was entered.                                   *)
LeftInv ==
  \A j \in 1 .. Len(trace) : trace[j].kind = "Leave" =>
    \E i \in CallsOf(trace) : trace[i].name = trace[j].name

TreeInv ==
  stage # "unmatched" =>
    /\ StackInv /\ NestInv /\ OpenInv /\ LeftInv
    /\ names = << >> <=> stage \in {"search", "done"}

(* The search: what the queue has not reached yet and what was reported    *)
(* are apart, every function not accounted for is called below the queue   *)
(* only, and the queue goes down the tree level by level.                  *)
FoundCall(r) == found[r].call

Total(s) == FoldLeft(LAMBDA w, r : w + r.weight, 0, s)

QueueInv ==
  /\ queue \in Seq({0} \cup CallsOf(trace))
  /\ found \in Seq([weight : Nat, call : CallsOf(trace)])
  /\ \A a, b \in 1 .. Len(queue) : a # b => Span(trace, queue[a]) \cap Span(trace, queue[b]) = {}
  /\ \A a \in 1 .. Len(queue) : \A r \in 1 .. Len(found) :
       Span(trace, queue[a]) \cap Extent(trace, FoundCall(r)) = {}
  /\ \A r, q \in 1 .. Len(found) : r # q =>
       Extent(trace, FoundCall(r)) \cap Extent(trace, FoundCall(q)) = {}

LevelInv ==
  /\ \A a, b \in 1 .. Len(queue) : a < b =>
       /\ DepthIn(trace, queue[a]) <= DepthIn(trace, queue[b])
       /\ DepthIn(trace, queue[b]) <= DepthIn(trace, queue[a]) + 1
  /\ \A r \in 1 .. Len(found) : \A i \in CallsOf(trace) :
       trace[i].name = trace[FoundCall(r)].name => DepthIn(trace, FoundCall(r)) <= DepthIn(trace, i)

WeightInv ==
  /\ set \subseteq Candidates
  /\ \A i \in CallsOf(trace) : trace[i].name \in set =>
       \E a \in 1 .. Len(queue) : i \in Span(trace, queue[a])
  /\ Cardinality(set) + Total(found) = Cardinality(Candidates)
  /\ stage = "done" => queue = << >>

SearchInv ==
  /\ stage \in {"search", "done"} => QueueInv /\ LevelInv /\ WeightInv
  /\ stage \in {"nest", "close", "unmatched"} => found = << >> /\ queue = << >> /\ set = {}

CallInv == CallTypeOK /\ TreeInv /\ SearchInv

-----------------------------------------------------------------------------
(* Balances.                                                               *)
LEMMA LeavesFinite ==
  ASSUME NEW t, NEW c \in Nat, NEW k \in Int
  PROVE  IsFiniteSet(LeavesIn(t, c, k)) /\ Cardinality(LeavesIn(t, c, k)) \in Nat
<1>1. IsFiniteSet(c .. k)
  BY FS_Interval
<1>2. LeavesIn(t, c, k) \in SUBSET (c .. k)
  BY DEF LeavesIn
<1> QED BY <1>1, <1>2, FS_Subset, FS_CardinalityType

LEMMA BalanceType ==
  ASSUME NEW t, NEW c \in Nat, NEW k \in Int
  PROVE  Balance(t, c, k) \in Int
BY LeavesFinite DEF Balance

LEMMA BalanceNext ==
  ASSUME NEW t, NEW c \in Nat, NEW k \in Int, c <= k + 1
  PROVE  Balance(t, c, k + 1) = Balance(t, c, k) + (IF t[k + 1].kind = "Leave" THEN -1 ELSE 1)
<1>1. LeavesIn(t, c, k + 1) =
        IF t[k + 1].kind = "Leave" THEN LeavesIn(t, c, k) \cup {k + 1} ELSE LeavesIn(t, c, k)
  BY DEF LeavesIn
<1>2. k + 1 \notin LeavesIn(t, c, k)
  BY DEF LeavesIn
<1>3. Cardinality(LeavesIn(t, c, k + 1)) =
        Cardinality(LeavesIn(t, c, k)) + (IF t[k + 1].kind = "Leave" THEN 1 ELSE 0)
  BY <1>1, <1>2, LeavesFinite, FS_AddElement
<1> QED BY <1>3, LeavesFinite DEF Balance

LEMMA BalanceStarts ==
  ASSUME NEW t, NEW c \in Nat
  PROVE  Balance(t, c, c - 1) = 0
<1>1. LeavesIn(t, c, c - 1) = {}
  BY DEF LeavesIn
<1> QED BY <1>1, FS_EmptySet DEF Balance

LEMMA BalanceSplit ==
  ASSUME NEW t, NEW c \in Nat, NEW p \in Nat, NEW k \in Int, c <= p, p <= k + 1
  PROVE  Balance(t, c, k) = Balance(t, c, p - 1) + Balance(t, p, k)
<1>1. LeavesIn(t, c, k) = LeavesIn(t, c, p - 1) \cup LeavesIn(t, p, k)
  BY DEF LeavesIn
<1>2. LeavesIn(t, c, p - 1) \cap LeavesIn(t, p, k) = {}
  BY DEF LeavesIn
<1>3. Cardinality(LeavesIn(t, c, k)) =
        Cardinality(LeavesIn(t, c, p - 1)) + Cardinality(LeavesIn(t, p, k))
  <2> DEFINE A == LeavesIn(t, c, p - 1)
             B == LeavesIn(t, p, k)
  <2>1. /\ IsFiniteSet(A) /\ Cardinality(A) \in Nat
        /\ IsFiniteSet(B) /\ Cardinality(B) \in Nat
    BY LeavesFinite
  <2>2. Cardinality(A \cup B) = Cardinality(A) + Cardinality(B) - Cardinality(A \cap B)
    BY <2>1, FS_Union
  <2> QED BY <1>1, <1>2, <2>1, <2>2, FS_EmptySet
<1> QED BY <1>3, LeavesFinite DEF Balance

(* More of the trace does not change what has been read.                   *)
LEMMA BalanceKept ==
  ASSUME NEW S, NEW t \in Seq(S), NEW x, NEW c \in Nat \ {0}, NEW k \in Int, k <= Len(t)
  PROVE  Balance(Append(t, x), c, k) = Balance(t, c, k)
<1>1. \A j \in c .. k : Append(t, x)[j] = t[j]
  OBVIOUS
<1>2. LeavesIn(Append(t, x), c, k) = LeavesIn(t, c, k)
  BY <1>1 DEF LeavesIn
<1> QED BY <1>2 DEF Balance

LEMMA OpenNext ==
  ASSUME NEW S, NEW t \in Seq(S), NEW x, NEW c \in 1 .. Len(t)
  PROVE  /\ \A i \in 1 .. Len(t) : OpenIn(Append(t, x), c, i) <=> OpenIn(t, c, i)
         /\ OpenIn(Append(t, x), c, Len(t) + 1) <=>
              /\ OpenIn(t, c, Len(t))
              /\ Balance(Append(t, x), c, Len(t) + 1) > 0
<1>1. \A k \in c .. Len(t) : Balance(Append(t, x), c, k) = Balance(t, c, k)
  BY BalanceKept
<1>2. c .. Len(t) + 1 = (c .. Len(t)) \cup {Len(t) + 1}
  OBVIOUS
<1>3. \A i \in 1 .. Len(t) : \A k \in c .. i : k \in c .. Len(t)
  OBVIOUS
<1> QED BY <1>1, <1>2, <1>3 DEF OpenIn

LEMMA CallsNext ==
  ASSUME NEW S, NEW t \in Seq(S), NEW x
  PROVE  CallsOf(Append(t, x)) =
           CallsOf(t) \cup (IF x.kind = "Enter" THEN {Len(t) + 1} ELSE {})
<1>1. Len(Append(t, x)) = Len(t) + 1 /\ \A i \in 1 .. Len(t) : Append(t, x)[i] = t[i]
  OBVIOUS
<1>2. Append(t, x)[Len(t) + 1] = x
  OBVIOUS
<1>3. 1 .. Len(t) + 1 = (1 .. Len(t)) \cup {Len(t) + 1}
  OBVIOUS
<1> QED BY <1>1, <1>2, <1>3 DEF CallsOf

LEMMA ExtentKept ==
  ASSUME NEW S, NEW t \in Seq(S), NEW x, NEW c \in CallsOf(t),
         x.kind = "Enter" => ~OpenIn(t, c, Len(t))
  PROVE  Extent(Append(t, x), c) = Extent(t, c)
<1>1. c \in 1 .. Len(t)
  BY DEF CallsOf
<1>2. \A i \in CallsOf(t) : i \in 1 .. Len(t)
  BY DEF CallsOf
<1>3. \A i \in CallsOf(t) : OpenIn(Append(t, x), c, i) <=> OpenIn(t, c, i)
  BY <1>1, <1>2, OpenNext
<1>4. x.kind = "Enter" => ~OpenIn(Append(t, x), c, Len(t) + 1)
  BY <1>1, OpenNext
<1> QED BY <1>3, <1>4, CallsNext DEF Extent

LEMMA ExtentNext ==
  ASSUME NEW S, NEW t \in Seq(S), NEW x, x.kind = "Enter", NEW c \in CallsOf(t),
         OpenIn(t, c, Len(t))
  PROVE  /\ Extent(Append(t, x), c) = Extent(t, c) \cup {Len(t) + 1}
         /\ OpenIn(Append(t, x), c, Len(t) + 1)
         /\ Balance(Append(t, x), c, Len(t) + 1) = Balance(t, c, Len(t)) + 1
<1>1. c \in 1 .. Len(t) /\ Len(t) \in Nat
  BY DEF CallsOf
<1>2. \A i \in CallsOf(t) : i \in 1 .. Len(t)
  BY DEF CallsOf
<1>3. \A i \in CallsOf(t) : OpenIn(Append(t, x), c, i) <=> OpenIn(t, c, i)
  BY <1>1, <1>2, OpenNext
<1>4. Balance(t, c, Len(t)) > 0 /\ Balance(t, c, Len(t)) \in Int
  BY <1>1, BalanceType DEF OpenIn
<1>5. Append(t, x)[Len(t) + 1].kind # "Leave"
  OBVIOUS
<1>6. Balance(Append(t, x), c, Len(t) + 1) = Balance(t, c, Len(t)) + 1
  <2>1. c \in Nat /\ Len(t) \in Int /\ c <= Len(t) + 1
    BY <1>1
  <2>2. Balance(Append(t, x), c, Len(t) + 1) = Balance(Append(t, x), c, Len(t)) + 1
    BY <2>1, <1>5, BalanceNext
  <2> QED BY <2>2, <1>1, BalanceKept
<1>7. OpenIn(Append(t, x), c, Len(t) + 1)
  BY <1>1, <1>4, <1>6, OpenNext
<1>8. Len(t) + 1 >= c
  BY <1>1
<1> QED BY <1>3, <1>6, <1>7, <1>8, CallsNext DEF Extent

(* A call that is just entered.                                            *)
LEMMA ExtentEntered ==
  ASSUME NEW S, NEW t \in Seq(S), NEW x, x.kind = "Enter"
  PROVE  /\ Extent(Append(t, x), Len(t) + 1) = {Len(t) + 1}
         /\ OpenIn(Append(t, x), Len(t) + 1, Len(t) + 1)
         /\ Balance(Append(t, x), Len(t) + 1, Len(t) + 1) = 1
<1> DEFINE u == Append(t, x)
           l == Len(t)
<1>1. l \in Nat /\ u[l + 1] = x
  OBVIOUS
<1>2. Balance(u, l + 1, l) = 0
  BY <1>1, BalanceStarts, l + 1 \in Nat, (l + 1) - 1 = l
<1>3. Balance(u, l + 1, l + 1) = 1
  <2>1. u[l + 1].kind # "Leave" /\ l + 1 \in Nat /\ l \in Int /\ l + 1 <= l + 1
    BY <1>1
  <2> HIDE DEF u, l
  <2>2. Balance(u, l + 1, l + 1) = Balance(u, l + 1, l) + 1
    BY <2>1, BalanceNext
  <2> QED BY <1>2, <2>2
<1>4. OpenIn(u, l + 1, l + 1)
  BY <1>1, <1>3 DEF OpenIn
<1>5. CallsOf(u) = CallsOf(t) \cup {l + 1}
  BY CallsNext
<1>6. \A i \in CallsOf(t) : i \in Nat /\ i <= l
  BY DEF CallsOf
<1>7. Extent(u, l + 1) = {l + 1}
  <2> HIDE DEF u, l
  <2> QED BY <1>1, <1>4, <1>5, <1>6 DEF Extent
<1> QED BY <1>3, <1>4, <1>7

(* Extents are intervals of calls, one inside another or apart.            *)
LEMMA ExtentInside ==
  ASSUME NEW t, NEW c \in CallsOf(t)
  PROVE  /\ c \in Extent(t, c) <=> OpenIn(t, c, c)
         /\ Extent(t, c) \subseteq CallsOf(t)
         /\ \A i \in Extent(t, c) : \A j \in CallsOf(t) : c <= j /\ j <= i => j \in Extent(t, c)
         /\ \A p \in Extent(t, c) : Extent(t, p) \subseteq Extent(t, c)
<1>1. c \in Nat \ {0} /\ CallsOf(t) \subseteq Nat
  BY DEF CallsOf
<1>2. ASSUME NEW i \in Extent(t, c), NEW j \in CallsOf(t), c <= j, j <= i
      PROVE  j \in Extent(t, c)
  <2>1. \A k \in c .. j : k \in c .. i
    BY <1>1, <1>2 DEF Extent
  <2> QED BY <2>1, <1>2 DEF Extent, OpenIn
<1>3. ASSUME NEW p \in Extent(t, c), NEW i \in Extent(t, p)
      PROVE  i \in Extent(t, c)
  <2>1. p \in Nat /\ i \in Nat /\ c <= p /\ p <= i /\ i \in CallsOf(t)
    BY <1>1, <1>3 DEF Extent
  <2>2. ASSUME NEW k \in c .. i
        PROVE  Balance(t, c, k) > 0
    <3>1. k \in c .. p => Balance(t, c, k) > 0
      BY <1>3 DEF Extent, OpenIn
    <3>2. CASE k > p
      <4>1. Balance(t, p, k) > 0
        BY <1>3, <2>1, <3>2 DEF Extent, OpenIn
      <4>2. Balance(t, c, k) = Balance(t, c, p - 1) + Balance(t, p, k)
        BY <1>1, <2>1, <3>2, BalanceSplit
      <4>3. Balance(t, c, p - 1) >= 0
        <5>1. CASE p = c
          BY <5>1, <1>1, BalanceStarts
        <5>2. CASE p # c
          <6>1. p - 1 \in c .. p
            BY <1>1, <2>1, <5>2
          <6>2. Balance(t, c, p - 1) > 0
            BY <6>1, <1>3 DEF Extent, OpenIn
          <6> QED BY <6>1, <6>2, <1>1, BalanceType
        <5> QED BY <5>1, <5>2
      <4>4. Balance(t, p, k) \in Int /\ Balance(t, c, p - 1) \in Int
        BY <1>1, <2>1, BalanceType
      <4> QED BY <4>1, <4>2, <4>3, <4>4
    <3> QED BY <3>1, <3>2, <1>1, <2>1
  <2> QED BY <2>1, <2>2, <1>1 DEF Extent, OpenIn
<1> QED BY <1>1, <1>2, <1>3 DEF Extent

(* A call is made during itself.                                           *)
LEMMA ExtentOfItself ==
  ASSUME NEW t, NEW c \in CallsOf(t)
  PROVE  c \in Extent(t, c)
<1>1. c \in Nat \ {0} /\ t[c].kind # "Leave"
  BY DEF CallsOf
<1>2. Balance(t, c, c - 1) = 0
  BY <1>1, BalanceStarts
<1>3. Balance(t, c, c) = 1
  <2>1. c - 1 \in Int /\ (c - 1) + 1 = c
    BY <1>1
  <2>2. Balance(t, c, (c - 1) + 1) = Balance(t, c, c - 1) + 1
    BY <1>1, <2>1, BalanceNext
  <2> QED BY <1>2, <2>1, <2>2
<1> QED BY <1>1, <1>3, ExtentInside DEF OpenIn

-----------------------------------------------------------------------------
(* Nesting.                                                                *)
LEMMA NestedKept ==
  ASSUME NEW S, NEW t \in Seq(S), NEW x, NEW c, NEW s, NEW X, Nested(t, c, s, X),
         \A a \in 1 .. Len(s) : x.kind = "Enter" => ~OpenIn(t, s[a], Len(t))
  PROVE  Nested(Append(t, x), c, s, X)
<1>1. s \in Seq(CallsOf(t)) /\ \A a \in 1 .. Len(s) : s[a] \in CallsOf(t)
  BY DEF Nested
<1>2. \A a \in 1 .. Len(s) : Extent(Append(t, x), s[a]) = Extent(t, s[a])
  BY <1>1, ExtentKept
<1>3. s \in Seq(CallsOf(Append(t, x)))
  <2>1. CallsOf(t) \subseteq CallsOf(Append(t, x))
    BY CallsNext
  <2> QED BY <2>1, <1>1, SeqMonotonic
<1> QED BY <1>2, <1>3 DEF Nested

(* The innermost of the calls directly below c is open and gets x.         *)
LEMMA NestedGrows ==
  ASSUME NEW S, NEW t \in Seq(S), NEW x, NEW c, NEW s, NEW X, Nested(t, c, s, X),
         x.kind = "Enter", s # << >>, OpenIn(t, s[1], Len(t)),
         \A a \in 2 .. Len(s) : ~OpenIn(t, s[a], Len(t))
  PROVE  Nested(Append(t, x), c, s, X \cup {Len(t) + 1})
<1> DEFINE u == Append(t, x)
           l == Len(t) + 1
<1>1. /\ s \in Seq(CallsOf(t)) /\ \A a \in 1 .. Len(s) : s[a] \in CallsOf(t)
      /\ Len(s) \in Nat /\ Len(s) >= 1
      /\ 1 .. Len(s) = {1} \cup 2 .. Len(s)
  BY DEF Nested
<1>2. \A a \in 2 .. Len(s) : Extent(u, s[a]) = Extent(t, s[a])
  BY <1>1, ExtentKept
<1>3. Extent(u, s[1]) = Extent(t, s[1]) \cup {l}
  BY <1>1, ExtentNext
<1>4. s \in Seq(CallsOf(u))
  <2>1. CallsOf(t) \subseteq CallsOf(u)
    BY CallsNext
  <2> QED BY <2>1, <1>1, SeqMonotonic
<1> HIDE DEF u, l
<1>5. UNION {Extent(u, s[a]) : a \in 1 .. Len(s)} =
        (UNION {Extent(t, s[a]) : a \in 1 .. Len(s)}) \cup {l}
  BY <1>1, <1>2, <1>3
<1>6. \A a, b \in 1 .. Len(s) : a < b => s[b] < s[a] /\ s[a] \notin Extent(u, s[b])
  <2> SUFFICES ASSUME NEW a \in 1 .. Len(s), NEW b \in 1 .. Len(s), a < b
               PROVE  s[b] < s[a] /\ s[a] \notin Extent(u, s[b])
    OBVIOUS
  <2>1. b \in 2 .. Len(s)
    BY <1>1
  <2> QED BY <2>1, <1>2 DEF Nested
<1>7. Nested(u, c, s, X \cup {l})
  BY <1>4, <1>5, <1>6 DEF Nested
<1> QED BY <1>7 DEF u, l

LEMMA NestedCons ==
  ASSUME NEW t, NEW c, NEW s, NEW X, Nested(t, c, s, X), NEW d \in CallsOf(t), d > c,
         \A a \in 1 .. Len(s) : s[a] < d /\ d \notin Extent(t, s[a])
  PROVE  Nested(t, c, <<d>> \o s, X \cup Extent(t, d))
<1> DEFINE u == <<d>> \o s
<1>1. s \in Seq(CallsOf(t)) /\ Len(s) \in Nat
  BY DEF Nested
<1>2. <<d>> \in Seq(CallsOf(t)) /\ Len(<<d>>) = 1 /\ <<d>>[1] = d
  OBVIOUS
<1>3. /\ u \in Seq(CallsOf(t)) /\ Len(u) = Len(s) + 1 /\ u[1] = d
      /\ \A a \in 1 .. Len(s) : u[a + 1] = s[a]
  <2>1. /\ u \in Seq(CallsOf(t)) /\ Len(u) = 1 + Len(s)
        /\ \A i \in 1 .. 1 + Len(s) : u[i] = IF i <= 1 THEN <<d>>[i] ELSE s[i - 1]
    BY <1>1, <1>2, ConcatProperties
  <2> HIDE DEF u
  <2> QED BY <2>1, <1>1, <1>2
<1> HIDE DEF u
<1>4. \A a \in 1 .. Len(u) : a = 1 \/ (a - 1 \in 1 .. Len(s) /\ u[a] = s[a - 1])
  BY <1>1, <1>3
<1>5. \A a \in 1 .. Len(u) : u[a] > c
  BY <1>3, <1>4 DEF Nested
<1>6. \A a, b \in 1 .. Len(u) : a < b => u[b] < u[a] /\ u[a] \notin Extent(t, u[b])
  <2> SUFFICES ASSUME NEW a \in 1 .. Len(u), NEW b \in 1 .. Len(u), a < b
               PROVE  u[b] < u[a] /\ u[a] \notin Extent(t, u[b])
    OBVIOUS
  <2>1. b - 1 \in 1 .. Len(s) /\ u[b] = s[b - 1]
    BY <1>3, <1>4
  <2>2. CASE a = 1
    BY <2>1, <2>2, <1>3
  <2>3. CASE a # 1
    <3>1. a - 1 \in 1 .. Len(s) /\ u[a] = s[a - 1] /\ a - 1 < b - 1
      BY <2>3, <1>3, <1>4
    <3> QED BY <2>1, <3>1 DEF Nested
  <2> QED BY <2>2, <2>3
<1>7. UNION {Extent(t, u[a]) : a \in 1 .. Len(u)} =
        (UNION {Extent(t, s[a]) : a \in 1 .. Len(s)}) \cup Extent(t, d)
  <2>1. \A a \in 1 .. Len(s) : a + 1 \in 1 .. Len(u)
    BY <1>1, <1>3
  <2>2. 1 \in 1 .. Len(u)
    BY <1>1, <1>3
  <2> QED BY <1>3, <1>4, <2>1, <2>2
<1>8. Nested(t, c, u, X \cup Extent(t, d))
  BY <1>3, <1>5, <1>6, <1>7 DEF Nested
<1> QED BY <1>8 DEF u

LEMMA NestedNone ==
  ASSUME NEW t, NEW c
  PROVE  Nested(t, c, << >>, {c})
BY DEF Nested

(* Adding a Leave to the trace changes neither calls nor extents.          *)
LEMMA SameCalls ==
  ASSUME NEW t, NEW u, CallsOf(u) = CallsOf(t), \A c \in CallsOf(t) : Extent(u, c) = Extent(t, c)
  PROVE  /\ \A c, s, X : Nested(t, c, s, X) => Nested(u, c, s, X)
         /\ \A c \in {0} \cup CallsOf(t) : Span(u, c) = Span(t, c)
<1>1. ASSUME NEW c, NEW s, NEW X, Nested(t, c, s, X)
      PROVE  Nested(u, c, s, X)
  <2>1. \A a \in 1 .. Len(s) : s[a] \in CallsOf(t)
    BY <1>1 DEF Nested
  <2>2. \A a \in 1 .. Len(s) : Extent(u, s[a]) = Extent(t, s[a])
    BY <2>1
  <2> QED BY <1>1, <2>2 DEF Nested
<1> QED BY <1>1 DEF Span

(* A sequence with an element in front.                                    *)
LEMMA InFront ==
  ASSUME NEW S, NEW s \in Seq(S), NEW e \in S
  PROVE  /\ <<e>> \o s \in Seq(S) /\ Len(<<e>> \o s) = Len(s) + 1
         /\ (<<e>> \o s)[1] = e
         /\ \A k \in 1 .. Len(s) : (<<e>> \o s)[k + 1] = s[k]
         /\ \A k \in 2 .. Len(s) + 1 : (<<e>> \o s)[k] = s[k - 1]
<1>1. <<e>> \in Seq(S) /\ Len(<<e>>) = 1 /\ <<e>>[1] = e /\ Len(s) \in Nat
  OBVIOUS
<1> DEFINE u == <<e>> \o s
<1>2. /\ u \in Seq(S) /\ Len(u) = 1 + Len(s)
      /\ \A i \in 1 .. 1 + Len(s) : u[i] = IF i <= 1 THEN <<e>>[i] ELSE s[i - 1]
  BY <1>1, ConcatProperties
<1> HIDE DEF u
<1>3. /\ Len(u) = Len(s) + 1 /\ u[1] = e
      /\ \A k \in 1 .. Len(s) : u[k + 1] = s[k]
      /\ \A k \in 2 .. Len(s) + 1 : u[k] = s[k - 1]
  BY <1>1, <1>2
<1> QED BY <1>2, <1>3 DEF u

(* The innermost call is complete.                                         *)
LEMMA FinishTree ==
  ASSUME StackInv, NestInv, names # << >>, Finish,
         CallsOf(trace') = CallsOf(trace),
         \A c \in CallsOf(trace) : Extent(trace', c) = Extent(trace, c)
  PROVE  StackInv' /\ NestInv' /\ (names' = << >> <=> names[1] = 0)
<1> DEFINE N == Len(names)
           C == CallsOf(trace)
<1>1. /\ names \in Seq({0} \cup C) /\ context \in Seq(Seq(C)) /\ N = Len(context)
      /\ N \in Nat /\ N >= 1 /\ names[N] = 0
      /\ \A j, k \in 1 .. N : j < k => names[j] # 0 /\ names[k] < names[j]
      /\ DOMAIN children = ({0} \cup C) \ {names[k] : k \in 1 .. N}
  BY DEF StackInv
<1>2. names' = Tail(names) /\ N' = N - 1 /\ N' \in Nat
      /\ names' \in Seq({0} \cup C)
      /\ \A k \in 1 .. N - 1 : names'[k] = names[k + 1] /\ k + 1 \in 1 .. N
  BY <1>1, HeadTailProperties DEF Finish
<1>3. N > 1 => names[1] \in C /\ names[1] # 0
  BY <1>1
<1>4. \A k \in 1 .. N : context[k] \in Seq(C)
  BY <1>1
<1>5. /\ context' \in Seq(Seq(C)) /\ Len(context') = N - 1
      /\ N > 1 => context'[1] = <<names[1]>> \o context[2] /\ context'[1] \in Seq(C)
      /\ \A k \in 2 .. N - 1 : context'[k] = context[k + 1]
  <2>1. CASE N = 1
    <3>1. context' = << >>
      BY <2>1, <1>1 DEF Finish
    <3> QED BY <3>1, <2>1, <1>1
  <2>2. CASE N > 1
    <3> DEFINE top  == <<names[1]>> \o context[2]
               rest == Tail(Tail(context))
    <3>1. context' = <<top>> \o rest
      <4>1. Len(context) # 1
        BY <2>2, <1>1
      <4> QED BY <4>1 DEF Finish
    <3>2. top \in Seq(C)
      BY <2>2, <1>1, <1>3, <1>4, InFront
    <3>3. Tail(context) \in Seq(Seq(C)) /\ Len(Tail(context)) = N - 1
          /\ \A i \in 1 .. N - 1 : Tail(context)[i] = context[i + 1]
      BY <2>2, <1>1, HeadTailProperties
    <3>4. Tail(context) # << >>
      <4>1. Len(<< >>) = 0
        OBVIOUS
      <4>2. Len(Tail(context)) # 0
        BY <3>3, <2>2, <1>1
      <4> QED BY <4>1, <4>2
    <3>5. rest \in Seq(Seq(C)) /\ Len(rest) = N - 2
          /\ \A i \in 1 .. N - 2 : rest[i] = Tail(context)[i + 1]
      BY <3>3, <3>4, HeadTailProperties, <1>1
    <3>6. \A i \in 1 .. N - 2 : rest[i] = context[i + 2]
      BY <3>3, <3>5, <1>1
    <3> HIDE DEF top, rest
    <3>7. /\ context' \in Seq(Seq(C)) /\ Len(context') = N - 1 /\ context'[1] = top
          /\ \A k \in 2 .. N - 1 : context'[k] = rest[k - 1]
      BY <3>1, <3>2, <3>5, InFront, <1>1
    <3>8. \A k \in 2 .. N - 1 : k - 1 \in 1 .. N - 2 /\ (k - 1) + 2 = k + 1
      BY <1>1
    <3>9. \A k \in 2 .. N - 1 : context'[k] = context[k + 1]
      BY <3>6, <3>7, <3>8
    <3> QED BY <3>2, <3>7, <3>9 DEF top
  <2> QED BY <2>1, <2>2, <1>1
<1>6. /\ DOMAIN children' = DOMAIN children \cup {names[1]}
      /\ children'[names[1]] = context[1]
      /\ \A c \in DOMAIN children : children'[c] = children[c]
  <2>1. names[1] \notin DOMAIN children
    BY <1>1
  <2> QED BY <2>1 DEF Finish
<1>7. StackInv'
  <2>1. DOMAIN children' = ({0} \cup C) \ {names'[k] : k \in 1 .. N - 1}
    <3>1. {names'[k] : k \in 1 .. N - 1} = {names[k] : k \in 2 .. N}
      <4>1. \A k \in 2 .. N : k - 1 \in 1 .. N - 1 /\ (k - 1) + 1 = k
        BY <1>1
      <4>2. \A k \in 1 .. N - 1 : k + 1 \in 2 .. N
        BY <1>1
      <4> QED BY <4>1, <4>2, <1>2
    <3>2. {names[k] : k \in 1 .. N} = {names[k] : k \in 2 .. N} \cup {names[1]}
      <4>1. 1 .. N = 2 .. N \cup {1}
        BY <1>1
      <4> QED BY <4>1
    <3>3. names[1] \notin {names[k] : k \in 2 .. N}
      <4>1. \A k \in 1 .. N : names[k] \in Nat
        BY <1>1 DEF CallsOf
      <4>2. \A k \in 2 .. N : names[k] < names[1] /\ k \in 1 .. N
        BY <1>1
      <4> QED BY <1>1, <4>1, <4>2
    <3>4. names[1] \in {0} \cup C
      BY <1>1
    <3> DEFINE X == {names[k] : k \in 2 .. N}
               Y == {names[k] : k \in 1 .. N}
               Z == {names'[k] : k \in 1 .. N - 1}
    <3>5. /\ DOMAIN children = ({0} \cup C) \ Y /\ DOMAIN children' = DOMAIN children \cup {names[1]}
          /\ Z = X /\ Y = X \cup {names[1]} /\ names[1] \notin X /\ names[1] \in {0} \cup C
      BY <1>1, <1>6, <3>1, <3>2, <3>3, <3>4
    <3> HIDE DEF X, Y, Z, C
    <3>6. DOMAIN children' = ({0} \cup C) \ Z
      BY <3>5
    <3> QED BY <3>6 DEF Z
  <2>2. \A j, k \in 1 .. N - 1 : j < k => names'[j] # 0 /\ names'[k] < names'[j]
    BY <1>1, <1>2
  <2>3. names' # << >> => names'[N - 1] = 0
    BY <1>1, <1>2
  <2> QED BY <1>2, <1>5, <2>1, <2>2, <2>3 DEF StackInv
<1>8. \A k \in 1 .. N - 1 : Kids(k)' = Kids(k + 1)
  <2> SUFFICES ASSUME NEW k \in 1 .. N - 1
               PROVE  Kids(k)' = Kids(k + 1)
    OBVIOUS
  <2>1. Kids(k + 1) = <<names[k]>> \o context[k + 1]
    BY <1>1 DEF Kids
  <2>2. CASE k = 1
    BY <2>1, <2>2, <1>5, <1>1 DEF Kids
  <2>3. CASE k # 1
    <3>1. k \in 2 .. N - 1 /\ k - 1 \in 1 .. N - 1 /\ (k - 1) + 1 = k
      BY <2>3, <1>1
    <3>2. Kids(k)' = <<names'[k - 1]>> \o context'[k]
      BY <2>3 DEF Kids
    <3> QED BY <2>1, <3>1, <3>2, <1>2, <1>5
  <2> QED BY <2>2, <2>3
<1>9. \A c \in DOMAIN children' : Nested(trace', c, children'[c], Span(trace', c))
  <2>1. Nested(trace, names[1], context[1], Span(trace, names[1]))
    <3>1. 1 \in 1 .. N /\ Kids(1) = context[1]
      BY <1>1 DEF Kids
    <3> QED BY <3>1 DEF NestInv
  <2>2. \A c \in DOMAIN children' : Nested(trace, c, children'[c], Span(trace, c))
    BY <2>1, <1>6 DEF NestInv
  <2>3. DOMAIN children' \subseteq {0} \cup C
    BY <1>1, <1>6
  <2> QED BY <2>2, <2>3, SameCalls
<1>10. \A k \in 1 .. N - 1 : Nested(trace', names'[k], Kids(k)', Span(trace', names'[k]))
  <2>1. \A k \in 1 .. N - 1 : Nested(trace, names[k + 1], Kids(k + 1), Span(trace, names[k + 1]))
    BY <1>2 DEF NestInv
  <2>2. \A k \in 1 .. N - 1 : Nested(trace, names'[k], Kids(k)', Span(trace, names'[k]))
    BY <2>1, <1>2, <1>8
  <2>3. \A k \in 1 .. N - 1 : names'[k] \in {0} \cup C
    BY <1>1, <1>2
  <2> QED BY <2>2, <2>3, SameCalls
<1>11. \A c \in DOMAIN children' : \A a \in 1 .. Len(children'[c]) : children'[c][a] \in DOMAIN children'
  <2>1. \A a \in 1 .. Len(context[1]) : context[1][a] \in DOMAIN children
    BY <1>1 DEF NestInv
  <2> QED BY <2>1, <1>6 DEF NestInv
<1>12. \A k \in 1 .. N - 1 : \A a \in 1 .. Len(context'[k]) : context'[k][a] \in DOMAIN children'
  <2> SUFFICES ASSUME NEW k \in 1 .. N - 1, NEW a \in 1 .. Len(context'[k])
               PROVE  context'[k][a] \in DOMAIN children'
    OBVIOUS
  <2>0. k + 1 \in 1 .. N /\ N > 1
    BY <1>1
  <2>1. \A b \in 1 .. Len(context[k + 1]) : context[k + 1][b] \in DOMAIN children
    BY <2>0 DEF NestInv
  <2>2. CASE k = 1
    <3>1. context'[1] = <<names[1]>> \o context[2] /\ context[2] \in Seq(C)
      BY <2>0, <2>2, <1>4, <1>5
    <3>2. a = 1 \/ (a - 1 \in 1 .. Len(context[2]) /\ context'[1][a] = context[2][a - 1])
      BY <2>0, <2>2, <3>1, <1>3, InFront
    <3>3. context'[1][1] = names[1]
      BY <2>0, <3>1, <1>3, InFront
    <3> QED BY <2>1, <2>2, <3>2, <3>3, <1>6
  <2>3. CASE k # 1
    <3>1. context'[k] = context[k + 1]
      BY <2>3, <1>1, <1>5
    <3> QED BY <2>1, <3>1, <1>6
  <2> QED BY <2>2, <2>3
<1>13. NestInv'
  BY <1>2, <1>9, <1>10, <1>11, <1>12 DEF NestInv
<1>14. names' = << >> <=> names[1] = 0
  <2>1. N = 1 <=> names[1] = 0
    BY <1>1
  <2>2. names' = << >> <=> N - 1 = 0
    BY <1>2, EmptySeq
  <2> QED BY <2>1, <2>2, <1>1
<1> QED BY <1>7, <1>13, <1>14

LEMMA EnterTree ==
  ASSUME CallTypeOK, TreeInv, NEW sym \in Symbol, Enter(sym)
  PROVE  TreeInv'
<1> DEFINE l == Len(trace)
           N == Len(names)
           C == CallsOf(trace)
<1>1. /\ stage = "nest" /\ stage' = "nest" /\ sym.kind = "Enter"
      /\ StackInv /\ NestInv /\ OpenInv /\ LeftInv /\ names # << >>
      /\ trace \in Seq(Symbol) /\ l \in Nat
      /\ trace' = Append(trace, sym) /\ children' = children
  BY DEF Enter, CallTypeOK, TreeInv
<1>2. /\ Len(trace') = l + 1 /\ trace'[l + 1] = sym
      /\ \A i \in 1 .. l : trace'[i] = trace[i]
  BY <1>1
<1>3. CallsOf(trace') = C \cup {l + 1} /\ C \subseteq Nat /\ \A c \in C : c \in 1 .. l
  BY <1>1, CallsNext DEF CallsOf
<1>4. /\ names \in Seq({0} \cup C) /\ context \in Seq(Seq(C)) /\ N = Len(context)
      /\ N \in Nat /\ N >= 1 /\ names[N] = 0
      /\ \A j, k \in 1 .. N : j < k => names[j] # 0 /\ names[k] < names[j]
      /\ DOMAIN children = ({0} \cup C) \ {names[k] : k \in 1 .. N}
      /\ \A k \in 1 .. N : names[k] \in {0} \cup C /\ context[k] \in Seq(C)
  BY <1>1 DEF StackInv
<1>20. \A k \in 1 .. N : names[k] < l + 1
  <2> SUFFICES ASSUME NEW k \in 1 .. N
               PROVE  names[k] < l + 1
    OBVIOUS
  <2>1. names[k] \in {0} \cup C
    BY <1>4
  <2>2. CASE names[k] = 0
    BY <2>2, <1>1
  <2>3. CASE names[k] # 0
    BY <2>1, <2>3, <1>1, <1>3
  <2> QED BY <2>2, <2>3
<1>5. /\ names' \in Seq({0} \cup CallsOf(trace')) /\ Len(names') = N + 1 /\ names'[1] = l + 1
      /\ \A k \in 1 .. N : names'[k + 1] = names[k]
      /\ \A k \in 2 .. N + 1 : names'[k] = names[k - 1] /\ k - 1 \in 1 .. N
  <2>1. names' = <<l + 1>> \o names
    BY <1>2 DEF Enter
  <2>2. names \in Seq({0} \cup CallsOf(trace'))
    <3>1. {0} \cup C \subseteq {0} \cup CallsOf(trace')
      BY <1>3
    <3> QED BY <3>1, <1>4, SeqMonotonic
  <2>3. \A k \in 2 .. N + 1 : k - 1 \in 1 .. N
    BY <1>4
  <2>4. l + 1 \in {0} \cup CallsOf(trace')
    BY <1>3
  <2>5. /\ <<l + 1>> \o names \in Seq({0} \cup CallsOf(trace')) /\ Len(<<l + 1>> \o names) = N + 1
        /\ (<<l + 1>> \o names)[1] = l + 1
        /\ \A k \in 1 .. N : (<<l + 1>> \o names)[k + 1] = names[k]
        /\ \A k \in 2 .. N + 1 : (<<l + 1>> \o names)[k] = names[k - 1]
    BY <2>2, <2>4, InFront
  <2> QED BY <2>1, <2>3, <2>5
<1>6. /\ context' \in Seq(Seq(CallsOf(trace'))) /\ Len(context') = N + 1 /\ context'[1] = << >>
      /\ \A k \in 2 .. N + 1 : context'[k] = context[k - 1]
  <2>1. context' = << << >> >> \o context
    BY DEF Enter
  <2>2. << >> \in Seq(CallsOf(trace')) /\ context \in Seq(Seq(CallsOf(trace')))
    <3>1. C \subseteq CallsOf(trace')
      BY <1>3
    <3>2. Seq(C) \subseteq Seq(CallsOf(trace'))
      BY <3>1, SeqMonotonic
    <3> QED BY <3>2, <1>4, SeqMonotonic
  <2> QED BY <2>1, <2>2, <1>4, InFront
<1>7. StackInv'
  <2>1. \A j, k \in 1 .. N + 1 : j < k => names'[j] # 0 /\ names'[k] < names'[j]
    <3> SUFFICES ASSUME NEW j \in 1 .. N + 1, NEW k \in 1 .. N + 1, j < k
                 PROVE  names'[j] # 0 /\ names'[k] < names'[j]
      OBVIOUS
    <3>1. k \in 2 .. N + 1 /\ names'[k] = names[k - 1] /\ k - 1 \in 1 .. N
      BY <1>5
    <3>2. CASE j = 1
      <4>1. names[k - 1] < l + 1
        BY <3>1, <1>20
      <4> QED BY <3>1, <3>2, <4>1, <1>1, <1>5
    <3>3. CASE j # 1
      <4>1. j \in 2 .. N + 1 /\ names'[j] = names[j - 1] /\ j - 1 \in 1 .. N /\ j - 1 < k - 1
        BY <3>3, <1>5
      <4> QED BY <3>1, <4>1, <1>4
    <3> QED BY <3>2, <3>3
  <2>2. names'[N + 1] = 0
    <3>1. N \in 1 .. N
      BY <1>4
    <3> QED BY <3>1, <1>4, <1>5
  <2>3. DOMAIN children' = ({0} \cup CallsOf(trace')) \ {names'[k] : k \in 1 .. N + 1}
    <3>1. {names'[k] : k \in 1 .. N + 1} = {names[k] : k \in 1 .. N} \cup {l + 1}
      <4>1. 1 .. N + 1 = {1} \cup (2 .. N + 1)
        BY <1>4
      <4>2. \A k \in 1 .. N : k + 1 \in 2 .. N + 1
        BY <1>4
      <4>3. \A k \in 1 .. N + 1 : names'[k] \in {names[j] : j \in 1 .. N} \cup {l + 1}
        BY <4>1, <1>5
      <4>4. \A j \in 1 .. N : names[j] \in {names'[k] : k \in 1 .. N + 1}
        BY <4>1, <4>2, <1>5
      <4>5. l + 1 \in {names'[k] : k \in 1 .. N + 1}
        BY <4>1, <1>5
      <4> DEFINE X == {names'[k] : k \in 1 .. N + 1}
                 Y == {names[j] : j \in 1 .. N}
      <4>6. X \subseteq Y \cup {l + 1}
        BY <4>3
      <4>7. Y \subseteq X /\ l + 1 \in X
        BY <4>4, <4>5
      <4> HIDE DEF X, Y
      <4>8. X = Y \cup {l + 1}
        BY <4>6, <4>7
      <4> QED BY <4>8 DEF X, Y
    <3>2. l + 1 \notin {0} \cup C
      BY <1>1, <1>3
    <3> QED BY <3>1, <3>2, <1>1, <1>3, <1>4
  <2> QED BY <1>4, <1>5, <1>6, <2>1, <2>2, <2>3 DEF StackInv
<1>8. \A c \in DOMAIN children : c \in C /\ ~OpenIn(trace, c, l)
  BY <1>1, <1>4 DEF OpenInv
<1>9. \A k \in 1 .. N : Span(trace', names[k]) = Span(trace, names[k]) \cup {l + 1}
  <2> SUFFICES ASSUME NEW k \in 1 .. N
               PROVE  Span(trace', names[k]) = Span(trace, names[k]) \cup {l + 1}
    OBVIOUS
  <2>1. CASE names[k] = 0
    BY <2>1, <1>3 DEF Span
  <2>2. CASE names[k] # 0
    <3>1. names[k] \in C /\ OpenIn(trace, names[k], l)
      BY <2>2, <1>1, <1>4 DEF OpenInv
    <3> QED BY <3>1, <2>2, <1>1, ExtentNext DEF Span
  <2> QED BY <2>1, <2>2
<1>10. \A c \in DOMAIN children : Nested(trace', c, children[c], Span(trace', c))
  <2> SUFFICES ASSUME NEW c \in DOMAIN children
               PROVE  Nested(trace', c, children[c], Span(trace', c))
    OBVIOUS
  <2>1. Span(trace', c) = Span(trace, c)
    BY <1>1, <1>3, <1>8, ExtentKept DEF Span
  <2>2. \A a \in 1 .. Len(children[c]) : ~OpenIn(trace, children[c][a], l)
    BY <1>1, <1>8 DEF NestInv
  <2>3. Nested(trace, c, children[c], Span(trace, c))
    BY <1>1 DEF NestInv
  <2> QED BY <1>1, <2>1, <2>2, <2>3, NestedKept
<1>11. \A k \in 1 .. N : \A a \in 1 .. Len(context[k]) : ~OpenIn(trace, context[k][a], l)
  BY <1>1, <1>8 DEF NestInv
<1>12. Nested(trace', l + 1, << >>, Span(trace', l + 1))
  <2>1. l + 1 # 0
    BY <1>1
  <2>2. Span(trace', l + 1) = {l + 1}
    BY <1>1, <2>1, ExtentEntered DEF Span
  <2> QED BY <2>2, NestedNone
<1>13. Nested(trace', names[1], <<l + 1>> \o context[1], Span(trace', names[1]))
  <2>1. 1 \in 1 .. N /\ Kids(1) = context[1]
    BY <1>4 DEF Kids
  <2>2. Nested(trace, names[1], context[1], Span(trace, names[1]))
    BY <1>1, <2>1 DEF NestInv
  <2>3. Nested(trace', names[1], context[1], Span(trace, names[1]))
    BY <1>1, <1>11, <2>1, <2>2, NestedKept
  <2>4. \A a \in 1 .. Len(context[1]) : context[1][a] \in C
    BY <2>2 DEF Nested
  <2>5. \A a \in 1 .. Len(context[1]) : context[1][a] < l + 1 /\ l + 1 \notin Extent(trace', context[1][a])
    <3>1. \A a \in 1 .. Len(context[1]) : Extent(trace', context[1][a]) = Extent(trace, context[1][a])
      BY <1>1, <1>11, <2>1, <2>4, ExtentKept
    <3>2. \A c \in C : l + 1 \notin Extent(trace, c) /\ c < l + 1
      BY <1>1, <1>3 DEF Extent
    <3> QED BY <2>4, <3>1, <3>2
  <2>6. l + 1 > names[1]
    BY <2>1, <1>20
  <2>7. Extent(trace', l + 1) = {l + 1}
    BY <1>1, ExtentEntered
  <2>8. Nested(trace', names[1], <<l + 1>> \o context[1], Span(trace, names[1]) \cup {l + 1})
    BY <1>3, <2>3, <2>5, <2>6, <2>7, NestedCons
  <2> QED BY <2>1, <2>8, <1>9
<1>14. \A k \in 2 .. N : Nested(trace', names[k], <<names[k - 1]>> \o context[k], Span(trace', names[k]))
  <2> SUFFICES ASSUME NEW k \in 2 .. N
               PROVE  Nested(trace', names[k], <<names[k - 1]>> \o context[k], Span(trace', names[k]))
    OBVIOUS
  <2> DEFINE s == <<names[k - 1]>> \o context[k]
  <2>1. k \in 1 .. N /\ k - 1 \in 1 .. N /\ k # 1 /\ names[k - 1] # 0
    <3>1. k \in 1 .. N /\ k - 1 \in 1 .. N /\ k # 1 /\ k - 1 < k
      BY <1>4
    <3> QED BY <3>1, <1>4
  <2>2. names[k - 1] \in C /\ OpenIn(trace, names[k - 1], l)
    BY <1>1, <1>4, <2>1 DEF OpenInv
  <2>3. Nested(trace, names[k], s, Span(trace, names[k]))
    BY <1>1, <2>1 DEF NestInv, Kids
  <2>4. context[k] \in Seq(C)
    BY <1>4, <2>1
  <2>5. /\ s[1] = names[k - 1] /\ Len(s) = Len(context[k]) + 1 /\ Len(context[k]) \in Nat
        /\ \A a \in 2 .. Len(context[k]) + 1 : s[a] = context[k][a - 1]
    BY <2>2, <2>4, InFront
  <2>6. s # << >>
    <3>1. Len(<< >>) = 0
      OBVIOUS
    <3> HIDE DEF s
    <3> QED BY <2>5, <3>1
  <2> HIDE DEF s
  <2>7. \A a \in 2 .. Len(s) : ~OpenIn(trace, s[a], l)
    <3>1. \A a \in 2 .. Len(s) : a - 1 \in 1 .. Len(context[k]) /\ s[a] = context[k][a - 1]
      BY <2>5
    <3> QED BY <3>1, <2>1, <1>11
  <2>8. Nested(trace', names[k], s, Span(trace, names[k]) \cup {l + 1})
    BY <1>1, <2>2, <2>3, <2>5, <2>6, <2>7, NestedGrows
  <2> QED BY <2>1, <2>8, <1>9 DEF s
<1>15. \A k \in 1 .. N + 1 : Nested(trace', names'[k], Kids(k)', Span(trace', names'[k]))
  <2> SUFFICES ASSUME NEW k \in 1 .. N + 1
               PROVE  Nested(trace', names'[k], Kids(k)', Span(trace', names'[k]))
    OBVIOUS
  <2>1. CASE k = 1
    BY <2>1, <1>5, <1>6, <1>12 DEF Kids
  <2>2. CASE k = 2
    <3>1. Kids(2)' = <<names'[1]>> \o context'[2]
      BY DEF Kids
    <3>2. 2 \in 2 .. N + 1 /\ 2 - 1 = 1
      BY <2>2
    <3>3. names'[2] = names[1] /\ context'[2] = context[1]
      BY <3>2, <1>5, <1>6
    <3> QED BY <2>2, <3>1, <3>3, <1>5, <1>13
  <2>3. CASE k \in 3 .. N + 1
    <3>1. k - 1 \in 2 .. N /\ k \in 2 .. N + 1 /\ k - 1 \in 2 .. N + 1 /\ k # 1
      BY <2>3, <1>4
    <3>2. names'[k - 1] = names[(k - 1) - 1] /\ context'[k] = context[k - 1] /\ names'[k] = names[k - 1]
      BY <3>1, <1>5, <1>6
    <3>3. Kids(k)' = <<names[(k - 1) - 1]>> \o context[k - 1]
      BY <3>1, <3>2 DEF Kids
    <3> QED BY <3>1, <3>2, <3>3, <1>14
  <2> QED BY <2>1, <2>2, <2>3, <1>4
<1>16. \A k \in 1 .. N + 1 : \A a \in 1 .. Len(context'[k]) : context'[k][a] \in DOMAIN children
  <2> SUFFICES ASSUME NEW k \in 1 .. N + 1, NEW a \in 1 .. Len(context'[k])
               PROVE  context'[k][a] \in DOMAIN children
    OBVIOUS
  <2>1. CASE k = 1
    <3>1. Len(<< >>) = 0
      OBVIOUS
    <3> QED BY <2>1, <3>1, <1>6
  <2>2. CASE k # 1
    <3>1. k \in 2 .. N + 1 /\ k - 1 \in 1 .. N
      BY <2>2, <1>5
    <3>2. context'[k] = context[k - 1]
      BY <3>1, <1>6
    <3> QED BY <3>1, <3>2, <1>1 DEF NestInv
  <2> QED BY <2>1, <2>2
<1>17. NestInv'
  BY <1>1, <1>5, <1>10, <1>15, <1>16 DEF NestInv
<1>18. OpenInv'
  <2>1. ASSUME NEW k \in 1 .. N + 1, names'[k] # 0
        PROVE  OpenIn(trace', names'[k], l + 1) /\ Balance(trace', names'[k], l + 1) = k
    <3>1. CASE k = 1
      BY <3>1, <1>1, <1>5, ExtentEntered
    <3>2. CASE k # 1
      <4>1. k - 1 \in 1 .. N /\ names'[k] = names[k - 1]
        BY <3>2, <1>5
      <4>2. names[k - 1] \in C /\ OpenIn(trace, names[k - 1], l)
            /\ Balance(trace, names[k - 1], l) = k - 1
        BY <4>1, <2>1, <1>1, <1>4 DEF OpenInv
      <4>3. OpenIn(trace', names[k - 1], l + 1) /\ Balance(trace', names[k - 1], l + 1) = (k - 1) + 1
        BY <4>2, <1>1, ExtentNext
      <4> QED BY <4>1, <4>3
    <3> QED BY <3>1, <3>2
  <2>2. \A c \in DOMAIN children : c # 0 /\ ~OpenIn(trace', c, l + 1)
    BY <1>1, <1>3, <1>8, OpenNext
  <2> QED BY <2>1, <2>2, <1>1, <1>2, <1>5 DEF OpenInv
<1>19. LeftInv'
  <2>1. sym.kind # "Leave"
    BY <1>1
  <2>2. 1 .. l + 1 = (1 .. l) \cup {l + 1}
    BY <1>1
  <2>3. \A i \in C : trace'[i] = trace[i] /\ i \in CallsOf(trace')
    BY <1>2, <1>3
  <2>4. ASSUME NEW j \in 1 .. l + 1, trace'[j].kind = "Leave"
        PROVE  \E i \in CallsOf(trace') : trace'[i].name = trace'[j].name
    <3>1. j \in 1 .. l /\ trace'[j] = trace[j]
      BY <1>2, <2>1, <2>2, <2>4
    <3>2. PICK i \in C : trace[i].name = trace[j].name
      BY <3>1, <2>4, <1>1 DEF LeftInv
    <3> QED BY <3>1, <3>2, <2>3
  <2> QED BY <1>2, <2>4 DEF LeftInv
<1>21. names' # << >>
  <2>1. Len(<< >>) = 0
    OBVIOUS
  <2> QED BY <2>1, <1>4, <1>5
<1> QED BY <1>1, <1>7, <1>17, <1>18, <1>19, <1>21 DEF TreeInv

LEMMA LeaveTree ==
  ASSUME CallTypeOK, TreeInv, NEW sym \in Symbol, Leave(sym)
  PROVE  TreeInv'
<1> DEFINE l == Len(trace)
           C == CallsOf(trace)
<1>1. /\ stage = "nest" /\ sym.kind = "Leave"
      /\ StackInv /\ NestInv /\ OpenInv /\ LeftInv /\ names # << >>
      /\ trace \in Seq(Symbol) /\ l \in Nat
      /\ trace' = Append(trace, sym)
  BY DEF Leave, CallTypeOK, TreeInv
<1> SUFFICES ASSUME Matches(names[1], sym), stage' = "nest", Finish
             PROVE  TreeInv'
  BY <1>1 DEF Leave, TreeInv
<1>2. /\ Len(trace') = l + 1 /\ trace'[l + 1] = sym
      /\ \A i \in 1 .. l : trace'[i] = trace[i]
      /\ names[1] # 0 /\ trace[names[1]].name = sym.name
  BY <1>1 DEF Matches
<1>3. sym.kind # "Enter"
  BY <1>1
<1>4. CallsOf(trace') = C /\ \A c \in C : c \in 1 .. l
  BY <1>1, <1>3, CallsNext DEF CallsOf
<1>5. \A c \in C : Extent(trace', c) = Extent(trace, c)
  BY <1>1, <1>3, ExtentKept
<1>6. StackInv' /\ NestInv' /\ names' # << >>
  BY <1>1, <1>2, <1>4, <1>5, FinishTree
<1>7. /\ Len(names) \in Nat /\ Len(names) >= 1 /\ Len(names') = Len(names) - 1
      /\ \A k \in 1 .. Len(names') : names'[k] = names[k + 1] /\ k + 1 \in 1 .. Len(names)
      /\ \A k \in 1 .. Len(names) : names[k] \in {0} \cup C
      /\ DOMAIN children \subseteq {0} \cup C
  <2>1. names \in Seq({0} \cup C) /\ DOMAIN children \subseteq {0} \cup C
    BY <1>1 DEF StackInv
  <2>2. names' = Tail(names)
    BY DEF Finish
  <2> QED BY <2>1, <2>2, <1>1, HeadTailProperties
<1>8. \A k \in 1 .. Len(names) : names[k] # 0 =>
        /\ Balance(trace', names[k], l + 1) = k - 1
        /\ OpenIn(trace', names[k], l + 1) <=> k - 1 > 0
  <2> SUFFICES ASSUME NEW k \in 1 .. Len(names), names[k] # 0
               PROVE  /\ Balance(trace', names[k], l + 1) = k - 1
                      /\ OpenIn(trace', names[k], l + 1) <=> k - 1 > 0
    OBVIOUS
  <2>1. /\ names[k] \in 1 .. l /\ OpenIn(trace, names[k], l)
        /\ Balance(trace, names[k], l) = k
    BY <1>1, <1>4, <1>7 DEF OpenInv
  <2>2. Balance(trace', names[k], l) = k
    BY <1>1, <2>1, BalanceKept
  <2>3. names[k] \in Nat /\ l \in Int /\ names[k] <= l + 1 /\ trace'[l + 1].kind = "Leave"
    BY <1>1, <1>2, <2>1
  <2>4. Balance(trace', names[k], l + 1) = k - 1
    <3>1. Balance(trace', names[k], l + 1) = Balance(trace', names[k], l) + (-1)
      BY <2>3, BalanceNext
    <3> QED BY <3>1, <2>2
  <2>5. OpenIn(trace', names[k], l + 1) <=> Balance(trace', names[k], l + 1) > 0
    BY <1>1, <2>1, OpenNext
  <2> QED BY <2>4, <2>5
<1>9. OpenInv'
  <2>1. \A k \in 1 .. Len(names') : names'[k] # 0 =>
          OpenIn(trace', names'[k], l + 1) /\ Balance(trace', names'[k], l + 1) = k
    <3> SUFFICES ASSUME NEW k \in 1 .. Len(names'), names'[k] # 0
                 PROVE  OpenIn(trace', names'[k], l + 1) /\ Balance(trace', names'[k], l + 1) = k
      OBVIOUS
    <3>1. k + 1 \in 1 .. Len(names) /\ names[k + 1] # 0 /\ names'[k] = names[k + 1]
      BY <1>7
    <3>2. (k + 1) - 1 = k /\ k > 0
      BY <1>7
    <3> QED BY <3>1, <3>2, <1>8
  <2>2. DOMAIN children' = DOMAIN children \cup {names[1]}
    BY DEF Finish
  <2>3. ~OpenIn(trace', names[1], l + 1)
    <3>1. 1 \in 1 .. Len(names) /\ ~(1 - 1 > 0)
      BY <1>7
    <3> QED BY <3>1, <1>2, <1>8
  <2>4. \A c \in DOMAIN children : c # 0 /\ ~OpenIn(trace', c, l + 1)
    <3>1. \A c \in DOMAIN children : c # 0 /\ c \in 1 .. l /\ ~OpenIn(trace, c, l)
      BY <1>1, <1>4, <1>7 DEF OpenInv
    <3> QED BY <3>1, <1>1, OpenNext
  <2> QED BY <1>2, <2>1, <2>2, <2>3, <2>4 DEF OpenInv
<1>10. LeftInv'
  <2>1. names[1] \in C
    BY <1>2, <1>7
  <2>2. 1 .. l + 1 = (1 .. l) \cup {l + 1}
    BY <1>1
  <2>3. \A i \in C : trace'[i] = trace[i]
    BY <1>2, <1>4
  <2> QED BY <1>1, <1>2, <1>4, <2>1, <2>2, <2>3 DEF LeftInv
<1> QED BY <1>6, <1>9, <1>10 DEF TreeInv

LEMMA TreeStep ==
  ASSUME CallTypeOK, TreeInv, [CallNext]_callVars
  PROVE  TreeInv'
<1>1. ASSUME NEW sym \in Symbol, Enter(sym) \/ Leave(sym)
      PROVE  TreeInv'
  BY <1>1, EnterTree, LeaveTree
<1>2. ASSUME EndOfTrace
      PROVE  TreeInv'
  <2>1. /\ stage = "nest" /\ stage' = "close" /\ trace' = trace /\ names' = names
        /\ context' = context /\ children' = children
    BY <1>2 DEF EndOfTrace
  <2> QED BY <2>1 DEF TreeInv, StackInv, NestInv, OpenInv, LeftInv, Kids
<1>3. ASSUME Close
      PROVE  TreeInv'
  <2>1. /\ stage = "close" /\ Finish /\ trace' = trace
        /\ stage' = IF names[1] = 0 THEN "search" ELSE "close"
    BY <1>3 DEF Close
  <2>2. StackInv /\ NestInv /\ names # << >> /\ LeftInv
    BY <2>1 DEF TreeInv
  <2>3. StackInv' /\ NestInv' /\ (names' = << >> <=> names[1] = 0)
    BY <2>1, <2>2, FinishTree
  <2> QED BY <2>1, <2>2, <2>3 DEF TreeInv, OpenInv, LeftInv
<1>4. ASSUME Search
      PROVE  TreeInv'
  <2>1. /\ stage' = stage /\ trace' = trace /\ names' = names
        /\ context' = context /\ children' = children
    BY <1>4 DEF Search
  <2> QED BY <2>1 DEF TreeInv, StackInv, NestInv, OpenInv, LeftInv, Kids
<1>5. ASSUME Report
      PROVE  TreeInv'
  <2>1. /\ stage = "search" /\ stage' = "done" /\ trace' = trace /\ names' = names
        /\ context' = context /\ children' = children
    BY <1>5 DEF Report
  <2> QED BY <2>1 DEF TreeInv, StackInv, NestInv, OpenInv, LeftInv, Kids
<1>6. ASSUME UNCHANGED callVars
      PROVE  TreeInv'
  <2>1. /\ stage' = stage /\ trace' = trace /\ names' = names
        /\ context' = context /\ children' = children
    BY <1>6 DEF callVars
  <2> QED BY <2>1 DEF TreeInv, StackInv, NestInv, OpenInv, LeftInv, Kids
<1>7. CallNext \/ UNCHANGED callVars
  OBVIOUS
<1>8. ASSUME Exited
      PROVE  TreeInv'
  BY <1>6, <1>8 DEF Exited
<1> QED BY <1>1, <1>2, <1>3, <1>4, <1>5, <1>6, <1>7, <1>8 DEF CallNext

-----------------------------------------------------------------------------
(* The tree.                                                               *)
LEMMA LeastPosition ==
  ASSUME NEW X, X \subseteq Nat, X # {}
  PROVE  \E i \in X : \A j \in X : i <= j
<1>1. PICK i \in X : \A j \in X : <<j, i>> \notin OpToRel(<, Nat)
  BY NatLessThanWellFounded, WFMin
<1>2. \A j \in X : ~(j < i)
  BY <1>1 DEF OpToRel
<1> QED BY <1>2

(* In the search the tree is complete, and what Below computes is the      *)
(* extent of a call.                                                       *)
LEMMA TreeComplete ==
  ASSUME TreeInv, stage \in {"search", "done"}
  PROVE  /\ DOMAIN children = {0} \cup CallsOf(trace)
         /\ \A c \in DOMAIN children : Nested(trace, c, children[c], Span(trace, c))
         /\ LeftInv
<1>1. StackInv /\ NestInv /\ LeftInv /\ names = << >>
  BY DEF TreeInv
<1>2. 1 .. Len(names) = {}
  BY <1>1
<1> QED BY <1>1, <1>2 DEF StackInv, NestInv

LEMMA BelowIsExtent ==
  ASSUME TreeInv, stage \in {"search", "done"}
  PROVE  \A c \in {0} \cup CallsOf(trace) : Below(c) = Span(trace, c)
<1> DEFINE D == DOMAIN children
           Down(f, i) == {i} \cup UNION {f[d] : d \in Range(children[i])}
           g == CHOOSE f : f = [i \in D |-> Down(f, i)]
           h == [i \in D |-> Span(trace, i)]
<1>1. D = {0} \cup CallsOf(trace) /\ D \subseteq Nat
  BY TreeComplete DEF CallsOf
<1>2. ASSUME NEW i \in D
      PROVE  /\ \A d \in Range(children[i]) : d \in D /\ d > i
             /\ Span(trace, i) = {i} \cup UNION {Span(trace, d) : d \in Range(children[i])}
  <2> DEFINE s == children[i]
  <2>1. Nested(trace, i, s, Span(trace, i))
    BY TreeComplete
  <2> HIDE DEF s
  <2>2. s \in Seq(CallsOf(trace)) /\ DOMAIN s = 1 .. Len(s)
    BY <2>1 DEF Nested
  <2>3. Range(s) = {s[a] : a \in 1 .. Len(s)}
    BY <2>2 DEF Range
  <2>4. \A a \in 1 .. Len(s) : s[a] \in CallsOf(trace) /\ s[a] # 0 /\ s[a] > i
    BY <2>1, <2>2 DEF Nested, CallsOf
  <2>5. \A a \in 1 .. Len(s) : Span(trace, s[a]) = Extent(trace, s[a])
    BY <2>4 DEF Span
  <2>6. Span(trace, i) = {i} \cup UNION {Span(trace, d) : d \in Range(s)}
    BY <2>1, <2>3, <2>5 DEF Nested
  <2> QED BY <1>1, <2>3, <2>4, <2>6 DEF s
<1>3. h = [i \in D |-> Down(h, i)]
  <2>1. \A i \in D : h[i] = Span(trace, i)
    OBVIOUS
  <2>2. ASSUME NEW i \in D
        PROVE  Down(h, i) = Span(trace, i)
    <3> HIDE DEF h, D
    <3>1. {h[d] : d \in Range(children[i])} = {Span(trace, d) : d \in Range(children[i])}
      BY <1>2, <2>1
    <3> QED BY <1>2, <3>1
  <2> QED BY <2>2
<1>4. g = [i \in D |-> Down(g, i)]
  <2> HIDE DEF h, D, Down
  <2> QED BY <1>3
<1>5. \A i \in D : Below(i) = g[i]
  BY DEF Below
<1>6. ASSUME NEW c \in D, g[c] # Span(trace, c)
      PROVE  FALSE
  <2> HIDE DEF g
  <2> DEFINE bad == {i \in D : g[i] # Span(trace, i)}
             X == {Len(trace) - i : i \in bad}
  <2>1. \A i \in D : i \in Nat /\ Len(trace) - i \in Nat
    <3>1. CASE trace = << >>
      <4>1. CallsOf(trace) = {} /\ Len(trace) = 0
        BY <3>1 DEF CallsOf
      <4> QED BY <4>1, <1>1
    <3>2. CASE trace # << >>
      BY <1>1 DEF CallsOf
    <3> QED BY <3>1, <3>2
  <2>2. X \subseteq Nat /\ X # {}
    BY <1>6, <2>1
  <2>3. PICK x \in X : \A y \in X : x <= y
    <3> HIDE DEF X
    <3> QED BY <2>2, LeastPosition
  <2>4. PICK i \in bad : x = Len(trace) - i
    BY <2>3
  <2>5. \A d \in Range(children[i]) : d \in D /\ d > i /\ g[d] = Span(trace, d)
    <3> SUFFICES ASSUME NEW d \in Range(children[i])
                 PROVE  d \in D /\ d > i /\ g[d] = Span(trace, d)
      OBVIOUS
    <3>1. d \in D /\ d > i
      BY <1>2
    <3>2. CASE d \in bad
      <4>1. Len(trace) - d \in X
        BY <3>2
      <4>2. Len(trace) - i <= Len(trace) - d
        BY <4>1, <2>3, <2>4
      <4>3. i \in Nat /\ d \in Nat /\ Len(trace) \in Int
        BY <1>1, <2>4, <3>1
      <4> QED BY <4>2, <4>3, <3>1
    <3> QED BY <3>1, <3>2
  <2>6. g[i] = Down(g, i)
    <3> HIDE DEF Down, D
    <3> QED BY <1>4, <2>4
  <2>7. Down(g, i) = {i} \cup UNION {Span(trace, d) : d \in Range(children[i])}
    BY <2>5
  <2> QED BY <2>4, <2>6, <2>7, <1>2
<1> QED BY <1>1, <1>5, <1>6

(* Siblings are apart, and one level deeper than their caller.             *)
LEMMA NestedApart ==
  ASSUME NEW t, NEW c, NEW s, NEW X, Nested(t, c, s, X)
  PROVE  \A a, b \in 1 .. Len(s) : a # b => Extent(t, s[a]) \cap Extent(t, s[b]) = {}
<1>1. s \in Seq(CallsOf(t)) /\ \A a \in 1 .. Len(s) : s[a] \in CallsOf(t)
  BY DEF Nested
<1>2. ASSUME NEW a \in 1 .. Len(s), NEW b \in 1 .. Len(s), a < b, NEW i \in Extent(t, s[a]),
             i \in Extent(t, s[b])
      PROVE  FALSE
  <2>1. s[b] < s[a] /\ s[a] \notin Extent(t, s[b])
    BY <1>2 DEF Nested
  <2>2. s[a] \in Nat /\ s[b] \in Nat /\ s[a] <= i /\ i \in Nat
    BY <1>1, <1>2 DEF Extent, CallsOf
  <2> QED BY <1>1, <1>2, <2>1, <2>2, ExtentInside
<1>3. ASSUME NEW a \in 1 .. Len(s), NEW b \in 1 .. Len(s), a # b
      PROVE  Extent(t, s[a]) \cap Extent(t, s[b]) = {}
  <2>1. a < b \/ b < a
    BY <1>3
  <2> QED BY <2>1, <1>2
<1> QED BY <1>3

LEMMA DepthFinite ==
  ASSUME NEW t, Len(t) \in Nat, NEW i
  PROVE  /\ IsFiniteSet({c \in CallsOf(t) : i \in Extent(t, c)})
         /\ DepthIn(t, i) \in Nat
<1>1. IsFiniteSet(1 .. Len(t))
  BY FS_Interval
<1>2. {c \in CallsOf(t) : i \in Extent(t, c)} \in SUBSET (1 .. Len(t))
  BY DEF CallsOf
<1> QED BY <1>1, <1>2, FS_Subset, FS_CardinalityType DEF DepthIn

LEMMA DepthDown ==
  ASSUME NEW t, Len(t) \in Nat, NEW c \in {0} \cup CallsOf(t), NEW i \in Span(t, c)
  PROVE  DepthIn(t, c) <= DepthIn(t, i)
<1>1. {d \in CallsOf(t) : c \in Extent(t, d)} \subseteq {d \in CallsOf(t) : i \in Extent(t, d)}
  <2> SUFFICES ASSUME NEW d \in CallsOf(t), c \in Extent(t, d)
               PROVE  i \in Extent(t, d)
    OBVIOUS
  <2>1. c # 0
    BY DEF Extent, CallsOf
  <2>2. i \in Extent(t, c)
    BY <2>1 DEF Span
  <2> QED BY <2>2, ExtentInside
<1> QED BY <1>1, DepthFinite, FS_Subset DEF DepthIn

LEMMA ChildDepth ==
  ASSUME NEW t, Len(t) \in Nat, NEW c \in {0} \cup CallsOf(t), NEW s, Nested(t, c, s, Span(t, c)),
         NEW a \in 1 .. Len(s)
  PROVE  /\ Extent(t, s[a]) \subseteq Span(t, c)
         /\ s[a] \in CallsOf(t)
         /\ DepthIn(t, s[a]) = DepthIn(t, c) + 1
<1> DEFINE d == s[a]
           Above(i) == {e \in CallsOf(t) : i \in Extent(t, e)}
<1>1. d \in CallsOf(t) /\ d > c /\ Extent(t, d) \subseteq Span(t, c) /\ CallsOf(t) \subseteq Nat \ {0}
  BY DEF Nested, CallsOf
<1>2. d \in Extent(t, d)
  BY <1>1, ExtentOfItself
<1>3. d \in Span(t, c)
  BY <1>1, <1>2
<1>4. ASSUME NEW e \in CallsOf(t), d \in Extent(t, e), e # d
      PROVE  c \in Extent(t, e)
  <2>1. e < d
    BY <1>1, <1>4 DEF Extent
  <2>2. CASE c = e
    BY <2>2, <1>4, ExtentOfItself
  <2>3. CASE c < e
    <3>1. e \in Span(t, c)
      <4>1. CASE c = 0
        BY <4>1 DEF Span
      <4>2. CASE c # 0
        BY <4>2, <1>1, <1>3, <1>4, <2>1, <2>3, ExtentInside DEF Span
      <4> QED BY <4>1, <4>2
    <3>2. PICK b \in 1 .. Len(s) : e \in Extent(t, s[b])
      BY <3>1, <2>3, <1>1 DEF Nested
    <3>3. s[b] \in CallsOf(t)
      BY DEF Nested
    <3>4. d \in Extent(t, s[b])
      BY <1>4, <3>2, <3>3, ExtentInside
    <3>5. a = b
      BY <1>2, <3>4, NestedApart
    <3>6. d <= e
      BY <3>2, <3>5 DEF Extent
    <3> QED BY <1>1, <2>1, <3>6
  <2>4. CASE c > e
    <3>1. c \in CallsOf(t)
      BY <1>1, <2>4
    <3> QED BY <3>1, <1>1, <1>4, <2>4, ExtentInside
  <2> QED BY <1>1, <2>2, <2>3, <2>4
<1>5. ASSUME NEW e \in CallsOf(t), c \in Extent(t, e)
      PROVE  d \in Extent(t, e)
  <2>1. c # 0
    BY <1>1, <1>5 DEF Extent
  <2> QED BY <2>1, <1>3, <1>5, ExtentInside DEF Span
<1>6. Above(d) = Above(c) \cup {d}
  BY <1>1, <1>2, <1>4, <1>5
<1>7. d \notin Above(c)
  BY <1>1 DEF Extent
<1>8. IsFiniteSet(Above(c)) /\ Cardinality(Above(c)) \in Nat
  BY DepthFinite DEF DepthIn
<1>9. Cardinality(Above(d)) = Cardinality(Above(c)) + 1
  <2> HIDE DEF Above, d
  <2> QED BY <1>6, <1>7, <1>8, FS_AddElement
<1>10. DepthIn(t, d) = DepthIn(t, c) + 1
  BY <1>9 DEF DepthIn
<1> QED BY <1>1, <1>10

-----------------------------------------------------------------------------
(* Folding a sequence from the left: there is a function that gives, for   *)
(* each set of its positions, the fold of the elements there.              *)
LEMMA IsOfAllNaturals ==
  ASSUME NEW T, T \subseteq Nat, 0 \in T, \A i \in T : i + 1 \in T
  PROVE  T = Nat
<1> SUFFICES ASSUME T # Nat PROVE FALSE
  OBVIOUS
<1>1. PICK x \in Nat \ T : \A y \in Nat \ T : x <= y
  BY LeastPosition
<1>2. x - 1 \in Nat /\ x - 1 \in T
  BY <1>1
<1> QED BY <1>1, <1>2

LastOf(T) == CHOOSE x \in T : \A y \in T : x >= y

FoldOver(m, V, base, step, f) ==
  /\ f \in [SUBSET (1 .. m) -> V]
  /\ \A T \in SUBSET (1 .. m) :
       f[T] = IF T = {} THEN base ELSE step[<<f[T \ {LastOf(T)}], LastOf(T)>>]

LEMMA FoldExists ==
  ASSUME NEW V, NEW base \in V, NEW m \in Nat, NEW step \in [V \X (1 .. m) -> V]
  PROVE  \E f : FoldOver(m, V, base, step, f)
<1> DEFINE P == {k \in Nat : k <= m => \E f : FoldOver(k, V, base, step, f)}
<1>1. 0 \in P
  <2> DEFINE f == [T \in SUBSET (1 .. 0) |-> base]
  <2>1. SUBSET (1 .. 0) = {{}}
    OBVIOUS
  <2>2. FoldOver(0, V, base, step, f)
    BY <2>1 DEF FoldOver
  <2> QED BY <2>2
<1>2. ASSUME NEW k \in P, k + 1 <= m
      PROVE  \E f : FoldOver(k + 1, V, base, step, f)
  <2>1. PICK f : FoldOver(k, V, base, step, f)
    BY <1>2
  <2> DEFINE g == [T \in SUBSET (1 .. k + 1) |->
                     IF k + 1 \in T THEN step[<<f[T \ {k + 1}], k + 1>>] ELSE f[T]]
  <2>2. \A T \in SUBSET (1 .. k + 1) : k + 1 \notin T => T \in SUBSET (1 .. k)
    BY <1>2
  <2>3. \A T \in SUBSET (1 .. k + 1) :
          k + 1 \in T => T # {} /\ LastOf(T) = k + 1 /\ T \ {k + 1} \in SUBSET (1 .. k)
    <3> SUFFICES ASSUME NEW T \in SUBSET (1 .. k + 1), k + 1 \in T
                 PROVE  LastOf(T) = k + 1 /\ T \ {k + 1} \in SUBSET (1 .. k)
      OBVIOUS
    <3>1. \A x \in T : x \in Nat /\ (x # k + 1 => x \in 1 .. k)
      BY <1>2
    <3>2. \A y \in T : k + 1 >= y
      BY <1>2
    <3>3. LastOf(T) \in T /\ \A y \in T : LastOf(T) >= y
      BY <3>2 DEF LastOf
    <3>4. LastOf(T) = k + 1
      <4>1. LastOf(T) \in Nat /\ LastOf(T) >= k + 1 /\ k + 1 >= LastOf(T)
        BY <3>1, <3>2, <3>3
      <4> QED BY <4>1, <1>2
    <3> QED BY <3>1, <3>4
  <2>4. k + 1 \in 1 .. m
    BY <1>2
  <2>5. \A T \in SUBSET (1 .. k) : f[T] \in V
    BY <2>1 DEF FoldOver
  <2>6. \A T \in SUBSET (1 .. k + 1) : g[T] \in V
    BY <2>2, <2>3, <2>4, <2>5
  <2>7. \A T \in SUBSET (1 .. k) : T # {} => T \ {LastOf(T)} \in SUBSET (1 .. k)
    OBVIOUS
  <2>8. \A T \in SUBSET (1 .. k) : T \in SUBSET (1 .. k + 1) /\ k + 1 \notin T
    BY <1>2
  <2>9. \A T \in SUBSET (1 .. k) : g[T] = f[T]
    BY <2>8
  <2>10. ASSUME NEW T \in SUBSET (1 .. k + 1)
         PROVE  g[T] = IF T = {} THEN base ELSE step[<<g[T \ {LastOf(T)}], LastOf(T)>>]
    <3>1. CASE k + 1 \in T
      <4>1. g[T] = step[<<f[T \ {k + 1}], k + 1>>]
        BY <3>1
      <4>2. T # {} /\ LastOf(T) = k + 1 /\ T \ {k + 1} \in SUBSET (1 .. k)
        BY <2>3, <3>1
      <4> HIDE DEF g
      <4> QED BY <4>1, <4>2, <2>9
    <3>2. CASE k + 1 \notin T
      <4>1. T \in SUBSET (1 .. k)
        BY <2>2, <3>2
      <4>2. f[T] = IF T = {} THEN base ELSE step[<<f[T \ {LastOf(T)}], LastOf(T)>>]
        BY <2>1, <4>1 DEF FoldOver
      <4> HIDE DEF g
      <4> QED BY <4>1, <4>2, <2>7, <2>9
    <3> QED BY <3>1, <3>2
  <2>11. g \in [SUBSET (1 .. k + 1) -> V]
    BY <2>6
  <2>12. FoldOver(k + 1, V, base, step, g)
    <3> HIDE DEF g
    <3> QED BY <2>10, <2>11 DEF FoldOver
  <2> QED BY <2>12
<1>3. P = Nat
  <2>1. \A k \in P : k + 1 \in P
    <3> SUFFICES ASSUME NEW k \in P
                 PROVE  k + 1 \in P
      OBVIOUS
    <3>1. k + 1 <= m => \E f : FoldOver(k + 1, V, base, step, f)
      BY <1>2
    <3> QED BY <3>1
  <2>2. P \subseteq Nat
    OBVIOUS
  <2> HIDE DEF P
  <2> QED BY <1>1, <2>1, <2>2, IsOfAllNaturals
<1>4. m \in P
  BY <1>3
<1> QED BY <1>4

(* The sum of the weights, one call after the other.                       *)
Weights == [weight : Nat, call : Nat]

SumFor(s, f) ==
  f = [T \in SUBSET DOMAIN s |->
         IF T = {} THEN 0 ELSE f[T \ {LastOf(T)}] + s[LastOf(T)].weight]

LEMMA TotalIs ==
  ASSUME NEW s \in Seq(Weights)
  PROVE  /\ SumFor(s, CHOOSE f : SumFor(s, f))
         /\ Total(s) = (CHOOSE f : SumFor(s, f))[1 .. Len(s)]
<1> DEFINE step == [p \in Nat \X (1 .. Len(s)) |-> p[1] + s[p[2]].weight]
<1>1. DOMAIN s = 1 .. Len(s) /\ Len(s) \in Nat /\ \A i \in 1 .. Len(s) : s[i].weight \in Nat
  <2>1. \A w \in Weights : w.weight \in Nat
    BY DEF Weights
  <2> QED BY <2>1
<1>2. step \in [Nat \X (1 .. Len(s)) -> Nat]
  BY <1>1
<1>3. PICK f : FoldOver(Len(s), Nat, 0, step, f)
  <2> HIDE DEF step
  <2> QED BY <1>1, <1>2, FoldExists
<1>4. SumFor(s, f)
  <2>1. ASSUME NEW T \in SUBSET (1 .. Len(s)), T # {}
        PROVE  f[T] = f[T \ {LastOf(T)}] + s[LastOf(T)].weight
    <3>1. LastOf(T) \in 1 .. Len(s)
      <4>1. T \subseteq Nat
        BY <1>1
      <4>2. \E x \in T : \A y \in T : x >= y
        <5> DEFINE X == {Len(s) - y : y \in T}
        <5>1. X \subseteq Nat /\ X # {}
          <6>1. \A y \in T : Len(s) - y \in Nat
            BY <1>1
          <6>2. \E y \in T : TRUE
            BY <2>1
          <6> QED BY <6>1, <6>2
        <5>2. PICK z \in X : \A y \in X : z <= y
          <6> HIDE DEF X
          <6> QED BY <5>1, LeastPosition
        <5>3. PICK x \in T : z = Len(s) - x
          BY <5>2
        <5>4. \A y \in T : Len(s) - x <= Len(s) - y
          BY <5>2, <5>3
        <5> QED BY <5>4, <4>1, <1>1
      <4> QED BY <4>2 DEF LastOf
    <3>2. f[T \ {LastOf(T)}] \in Nat
      BY <1>3 DEF FoldOver
    <3>3. f[T] = step[<<f[T \ {LastOf(T)}], LastOf(T)>>]
      BY <1>3, <2>1 DEF FoldOver
    <3> QED BY <3>1, <3>2, <3>3
  <2>2. f[{}] = 0
    BY <1>3 DEF FoldOver
  <2>3. f = [T \in SUBSET (1 .. Len(s)) |-> f[T]]
    BY <1>3 DEF FoldOver
  <2> HIDE DEF step
  <2> QED BY <1>1, <2>1, <2>2, <2>3 DEF SumFor
<1>5. SumFor(s, CHOOSE h : SumFor(s, h))
  BY <1>4
<1>6. Total(s) = (CHOOSE h : SumFor(s, h))[DOMAIN s]
  BY DEF Total, FoldLeft, MapThenFoldSet, Max, SumFor, LastOf
<1> QED BY <1>1, <1>5, <1>6

LEMMA SumNext ==
  ASSUME NEW s \in Seq(Weights), NEW f, SumFor(s, f)
  PROVE  /\ f[1 .. 0] = 0
         /\ \A k \in Nat : k + 1 <= Len(s) => f[1 .. k + 1] = f[1 .. k] + s[k + 1].weight
<1>1. DOMAIN s = 1 .. Len(s) /\ Len(s) \in Nat
  OBVIOUS
<1>2. f[1 .. 0] = 0
  <2>1. 1 .. 0 = {}
    OBVIOUS
  <2> QED BY <2>1, <1>1 DEF SumFor
<1>3. ASSUME NEW k \in Nat, k + 1 <= Len(s)
      PROVE  f[1 .. k + 1] = f[1 .. k] + s[k + 1].weight
  <2> DEFINE T == 1 .. k + 1
  <2>1. LastOf(T) = k + 1
    <3>1. k + 1 \in T /\ \A y \in T : y \in Nat /\ k + 1 >= y
      OBVIOUS
    <3>2. LastOf(T) \in T /\ \A y \in T : LastOf(T) >= y
      BY <3>1 DEF LastOf
    <3>3. LastOf(T) \in Nat /\ LastOf(T) >= k + 1 /\ k + 1 >= LastOf(T)
      BY <3>1, <3>2
    <3> QED BY <3>3
  <2>2. T \in SUBSET (1 .. Len(s)) /\ T # {} /\ T \ {k + 1} = 1 .. k
    <3>1. T \in SUBSET (1 .. Len(s)) /\ k + 1 \in T
      BY <1>1, <1>3
    <3>2. T \ {k + 1} = 1 .. k
      OBVIOUS
    <3> QED BY <3>1, <3>2
  <2> HIDE DEF T
  <2>3. f[T] = f[T \ {LastOf(T)}] + s[LastOf(T)].weight
    BY <2>2, <1>1 DEF SumFor
  <2>4. f[T] = f[1 .. k] + s[k + 1].weight
    BY <2>1, <2>2, <2>3
  <2> QED BY <2>4 DEF T
<1> QED BY <1>2, <1>3

LEMMA TotalOfNone == Total(<< >>) = 0
<1> DEFINE f == CHOOSE h : SumFor(<< >>, h)
<1>1. << >> \in Seq(Weights) /\ Len(<< >>) = 0
  OBVIOUS
<1>2. SumFor(<< >>, f) /\ Total(<< >>) = f[1 .. 0]
  BY <1>1, TotalIs
<1> HIDE DEF f
<1> QED BY <1>1, <1>2, SumNext

LEMMA TotalOfAppend ==
  ASSUME NEW s \in Seq(Weights), NEW r \in Weights
  PROVE  Total(Append(s, r)) = Total(s) + r.weight
<1> DEFINE u == Append(s, r)
           f == CHOOSE h : SumFor(s, h)
           g == CHOOSE h : SumFor(u, h)
           P == {k \in Nat : k <= Len(s) => f[1 .. k] = g[1 .. k]}
<1>1. /\ u \in Seq(Weights) /\ Len(u) = Len(s) + 1 /\ u[Len(s) + 1] = r /\ Len(s) \in Nat
      /\ \A k \in 1 .. Len(s) : u[k] = s[k]
  OBVIOUS
<1>2. SumFor(s, f) /\ Total(s) = f[1 .. Len(s)]
  BY TotalIs
<1>3. SumFor(u, g) /\ Total(u) = g[1 .. Len(u)]
  <2> HIDE DEF u
  <2> QED BY <1>1, TotalIs
<1> HIDE DEF u, f, g
<1>4. 0 \in P
  BY <1>1, <1>2, <1>3, SumNext
<1>5. \A k \in P : k + 1 \in P
  <2> SUFFICES ASSUME NEW k \in P, k + 1 <= Len(s)
               PROVE  f[1 .. k + 1] = g[1 .. k + 1]
    OBVIOUS
  <2>1. k \in Nat /\ k <= Len(s) /\ k + 1 <= Len(u) /\ k + 1 \in 1 .. Len(s)
    BY <1>1
  <2>2. f[1 .. k + 1] = f[1 .. k] + s[k + 1].weight
    BY <2>1, <1>2, SumNext
  <2>3. g[1 .. k + 1] = g[1 .. k] + u[k + 1].weight
    BY <2>1, <1>1, <1>3, SumNext
  <2>4. f[1 .. k] = g[1 .. k]
    BY <2>1
  <2> QED BY <2>1, <2>2, <2>3, <2>4, <1>1
<1>6. Len(s) \in P
  <2>1. P \subseteq Nat
    OBVIOUS
  <2> HIDE DEF P
  <2> QED BY <2>1, <1>1, <1>4, <1>5, IsOfAllNaturals
<1>7. f[1 .. Len(s)] = g[1 .. Len(s)]
  BY <1>6, <1>1
<1>8. g[1 .. Len(s) + 1] = g[1 .. Len(s)] + u[Len(s) + 1].weight
  BY <1>1, <1>3, SumNext
<1>9. Total(u) = Total(s) + r.weight
  BY <1>1, <1>2, <1>3, <1>7, <1>8
<1> QED BY <1>9 DEF u

LEMMA TotalIsNatural ==
  ASSUME NEW s \in Seq(Weights)
  PROVE  Total(s) \in Nat
<1> DEFINE f == CHOOSE h : SumFor(s, h)
           P == {k \in Nat : k <= Len(s) => f[1 .. k] \in Nat}
<1>1. SumFor(s, f) /\ Total(s) = f[1 .. Len(s)]
  BY TotalIs
<1>2. Len(s) \in Nat /\ \A k \in 1 .. Len(s) : s[k].weight \in Nat
  <2>1. \A w \in Weights : w.weight \in Nat
    BY DEF Weights
  <2> QED BY <2>1
<1> HIDE DEF f
<1>3. 0 \in P
  BY <1>1, SumNext
<1>4. \A k \in P : k + 1 \in P
  <2> SUFFICES ASSUME NEW k \in P, k + 1 <= Len(s)
               PROVE  f[1 .. k + 1] \in Nat
    BY <1>2
  <2>1. k \in Nat /\ k <= Len(s) /\ k + 1 \in 1 .. Len(s)
    BY <1>2
  <2>2. f[1 .. k + 1] = f[1 .. k] + s[k + 1].weight
    BY <2>1, <1>1, SumNext
  <2> QED BY <2>1, <2>2, <1>2
<1>5. Len(s) \in P
  <2>1. P \subseteq Nat
    OBVIOUS
  <2> HIDE DEF P
  <2> QED BY <2>1, <1>2, <1>3, <1>4, IsOfAllNaturals
<1> QED BY <1>1, <1>2, <1>5

-----------------------------------------------------------------------------
(* The search.                                                             *)
LEMMA CandidatesFinite ==
  ASSUME CallTypeOK
  PROVE  /\ IsFiniteSet(Candidates)
         /\ \A f \in Candidates : \E j \in 1 .. Len(trace) :
              trace[j].kind = "Leave" /\ trace[j].name = f
<1> DEFINE by(f) == {i \in 1 .. Len(trace) : trace[i].kind = "Leave" /\ trace[i].name = f}
           all == {trace[i].name : i \in 1 .. Len(trace)}
<1>1. IsFiniteSet(1 .. Len(trace)) /\ base_num \in Nat
  BY FS_Interval DEF CallTypeOK
<1>2. ASSUME NEW f \in Candidates
      PROVE  \E j \in 1 .. Len(trace) : trace[j].kind = "Leave" /\ trace[j].name = f
  <2>1. Cardinality(by(f)) = base_num + 1
    <3>1. Count2(f) = Cardinality(by(f))
      BY DEF Count2
    <3>2. Count2(f) = base_num + 1
      BY DEF Candidates
    <3> QED BY <3>1, <3>2
  <2>2. by(f) # {}
    <3>1. Cardinality(by(f)) # 0
      BY <2>1, <1>1
    <3> HIDE DEF by
    <3> QED BY <3>1, FS_EmptySet
  <2> QED BY <2>2
<1>3. IsFiniteSet(all)
  <2> DEFINE h == [i \in 1 .. Len(trace) |-> trace[i].name]
  <2>1. h \in Surjection(1 .. Len(trace), all)
    BY DEF Surjection
  <2> HIDE DEF h, all
  <2> QED BY <2>1, <1>1, FS_Surjection
<1>4. Candidates \in SUBSET all
  BY <1>2
<1> QED BY <1>2, <1>3, <1>4, FS_Subset

LEMMA SearchBegins ==
  ASSUME CallTypeOK, TreeInv, SearchInv, Close, names[1] = 0
  PROVE  SearchInv'
<1>1. /\ stage = "close" /\ stage' = "search" /\ queue' = <<0>> /\ set' = Candidates
      /\ trace' = trace /\ found' = found /\ counts1' = counts1 /\ base_num' = base_num
  BY DEF Close
<1>2. found' = << >> /\ trace \in Seq(Symbol)
  BY <1>1 DEF SearchInv, CallTypeOK
<1>3. Candidates' = Candidates
  BY <1>1 DEF Candidates, Count2
<1>4. Len(<< >>) = 0 /\ Len(<<0>>) = 1 /\ <<0>>[1] = 0 /\ 1 .. 0 = {} /\ 1 .. 1 = {1}
  OBVIOUS
<1>5. QueueInv'
  <2>1. queue' \in Seq({0} \cup CallsOf(trace')) /\ found' \in Seq([weight : Nat, call : CallsOf(trace')])
    BY <1>1, <1>2
  <2>2. \A a, b \in 1 .. Len(queue') : a = b
    BY <1>1, <1>4
  <2>3. \A r \in 1 .. Len(found') : FALSE
    BY <1>2, <1>4
  <2> QED BY <2>1, <2>2, <2>3 DEF QueueInv
<1>6. LevelInv'
  <2>1. \A a, b \in 1 .. Len(queue') : ~(a < b)
    BY <1>1, <1>4
  <2>2. \A r \in 1 .. Len(found') : FALSE
    BY <1>2, <1>4
  <2> QED BY <2>1, <2>2 DEF LevelInv
<1>7. WeightInv'
  <2>1. \A i \in CallsOf(trace') : i \in Span(trace', queue'[1])
    BY <1>1, <1>4 DEF Span
  <2>2. 1 \in 1 .. Len(queue')
    BY <1>1, <1>4
  <2>3. Cardinality(set') + Total(found') = Cardinality(Candidates')
    <3>1. Cardinality(Candidates) \in Nat
      BY CandidatesFinite, FS_CardinalityType
    <3>2. Total(found') = 0
      BY <1>2, TotalOfNone
    <3> QED BY <3>1, <3>2, <1>1, <1>3
  <2> QED BY <1>1, <1>3, <2>1, <2>2, <2>3 DEF WeightInv
<1> QED BY <1>1, <1>5, <1>6, <1>7 DEF SearchInv

(* A sequence without its first element.                                   *)
LEMMA WithoutFirst ==
  ASSUME NEW S, NEW q \in Seq(S), q # << >>
  PROVE  /\ Tail(q) \in Seq(S) /\ Len(Tail(q)) = Len(q) - 1 /\ Len(Tail(q)) \in Nat
         /\ 1 \in 1 .. Len(q)
         /\ \A a \in 1 .. Len(Tail(q)) : Tail(q)[a] = q[a + 1] /\ a + 1 \in 1 .. Len(q) /\ a + 1 # 1
         /\ \A a \in 1 .. Len(q) : a = 1 \/ (a - 1 \in 1 .. Len(Tail(q)) /\ Tail(q)[a - 1] = q[a])
<1>1. /\ Tail(q) \in Seq(S) /\ Len(Tail(q)) = Len(q) - 1 /\ Len(q) \in Nat
      /\ \A a \in 1 .. Len(Tail(q)) : Tail(q)[a] = q[a + 1]
  BY HeadTailProperties
<1>2. Len(q) # 0
  BY EmptySeq
<1>3. \A a \in 1 .. Len(Tail(q)) : a + 1 \in 1 .. Len(q) /\ a + 1 # 1
  BY <1>1
<1>4. ASSUME NEW a \in 1 .. Len(q), a # 1
      PROVE  a - 1 \in 1 .. Len(Tail(q)) /\ Tail(q)[a - 1] = q[a]
  <2>1. a - 1 \in 1 .. Len(Tail(q)) /\ (a - 1) + 1 = a
    BY <1>1, <1>4
  <2> QED BY <2>1, <1>1
<1> QED BY <1>1, <1>2, <1>3, <1>4

LEMMA CallReported ==
  ASSUME CallTypeOK, TreeInv, SearchInv, Search,
         queue[1] # 0, trace[queue[1]].name \in set
  PROVE  SearchInv'
<1> DEFINE c == queue[1]
           T == Tail(queue)
           new == [weight |-> Cardinality(set) - Cardinality(set'), call |-> c]
           X == [weight : Nat, call : CallsOf(trace)]
<1>1. /\ stage = "search" /\ stage' = stage /\ queue # << >> /\ trace' = trace
      /\ counts1' = counts1 /\ base_num' = base_num
      /\ set' = RemoveMatches(set, c)
      /\ found' = Append(found, new) /\ queue' = T
  BY DEF Search
<1>2. QueueInv /\ LevelInv /\ WeightInv /\ trace \in Seq(Symbol) /\ Len(trace) \in Nat
  BY <1>1 DEF SearchInv, CallTypeOK
<1>3. /\ queue \in Seq({0} \cup CallsOf(trace)) /\ found \in Seq(X) /\ Len(found) \in Nat
      /\ \A a \in 1 .. Len(queue) : queue[a] \in {0} \cup CallsOf(trace)
  BY <1>2 DEF QueueInv
<1>4. /\ T \in Seq({0} \cup CallsOf(trace)) /\ Len(T) \in Nat /\ 1 \in 1 .. Len(queue)
      /\ \A a \in 1 .. Len(T) : T[a] = queue[a + 1] /\ a + 1 \in 1 .. Len(queue) /\ a + 1 # 1
      /\ \A a \in 1 .. Len(queue) : a = 1 \/ (a - 1 \in 1 .. Len(T) /\ T[a - 1] = queue[a])
  BY <1>1, <1>3, WithoutFirst
<1>5. c \in CallsOf(trace) /\ Span(trace, c) = Extent(trace, c)
  BY <1>3, <1>4 DEF Span
<1>6. set' = set \ {trace[i].name : i \in Extent(trace, c)}
  <2>1. Below(c) = Extent(trace, c)
    BY <1>1, <1>5, BelowIsExtent
  <2> QED BY <1>1, <2>1 DEF RemoveMatches
<1>7. /\ IsFiniteSet(set) /\ IsFiniteSet(set')
      /\ Cardinality(set) \in Nat /\ Cardinality(set') \in Nat
      /\ Cardinality(set') <= Cardinality(set)
  <2>1. IsFiniteSet(set)
    BY <1>2, CandidatesFinite, FS_Subset DEF WeightInv
  <2>2. set' \in SUBSET set
    BY <1>6
  <2> QED BY <2>1, <2>2, FS_Subset, FS_CardinalityType
<1>8. new \in X /\ new.call = c /\ new.weight = Cardinality(set) - Cardinality(set')
  BY <1>5, <1>7
<1>9. /\ found' \in Seq(X) /\ Len(found') = Len(found) + 1 /\ found'[Len(found) + 1] = new
      /\ \A r \in 1 .. Len(found) : found'[r] = found[r]
  <2> HIDE DEF new, X
  <2> QED BY <1>1, <1>3, <1>8, AppendProperties
<1>10. /\ \A r \in 1 .. Len(found') : r \in 1 .. Len(found) \/ r = Len(found) + 1
       /\ found'[Len(found) + 1].call = c
       /\ \A r \in 1 .. Len(found) : found'[r].call = FoundCall(r)
  <2> HIDE DEF new, c, X
  <2>1. \A r \in 1 .. Len(found') : r \in 1 .. Len(found) \/ r = Len(found) + 1
    BY <1>3, <1>9
  <2>2. \A r \in 1 .. Len(found) : found'[r].call = FoundCall(r)
    BY <1>9 DEF FoundCall
  <2> QED BY <2>1, <2>2, <1>8, <1>9
<1> HIDE DEF new, c, T, X
<1>11. QueueInv'
  <2>1. \A a, b \in 1 .. Len(T) : a # b => Span(trace, T[a]) \cap Span(trace, T[b]) = {}
    <3> SUFFICES ASSUME NEW a \in 1 .. Len(T), NEW b \in 1 .. Len(T), a # b
                 PROVE  Span(trace, T[a]) \cap Span(trace, T[b]) = {}
      OBVIOUS
    <3>1. /\ T[a] = queue[a + 1] /\ T[b] = queue[b + 1]
          /\ a + 1 \in 1 .. Len(queue) /\ b + 1 \in 1 .. Len(queue)
      BY <1>4
    <3>2. a + 1 # b + 1
      OBVIOUS
    <3> QED BY <3>1, <3>2, <1>2 DEF QueueInv
  <2>2. \A a \in 1 .. Len(T) : Span(trace, T[a]) \cap Extent(trace, c) = {}
    <3> SUFFICES ASSUME NEW a \in 1 .. Len(T)
                 PROVE  Span(trace, T[a]) \cap Extent(trace, c) = {}
      OBVIOUS
    <3>1. T[a] = queue[a + 1] /\ a + 1 \in 1 .. Len(queue) /\ a + 1 # 1
      BY <1>4
    <3>2. Span(trace, queue[a + 1]) \cap Span(trace, queue[1]) = {}
      BY <3>1, <1>2, <1>4 DEF QueueInv
    <3> QED BY <3>1, <3>2, <1>5 DEF c
  <2>3. \A a \in 1 .. Len(T) : \A r \in 1 .. Len(found) :
          Span(trace, T[a]) \cap Extent(trace, FoundCall(r)) = {}
    BY <1>2, <1>4 DEF QueueInv
  <2>4. \A r \in 1 .. Len(found) : Extent(trace, c) \cap Extent(trace, FoundCall(r)) = {}
    BY <1>2, <1>4, <1>5 DEF QueueInv, c
  <2>5. \A a \in 1 .. Len(T) : \A r \in 1 .. Len(found') :
          Span(trace, T[a]) \cap Extent(trace, found'[r].call) = {}
    <3> SUFFICES ASSUME NEW a \in 1 .. Len(T), NEW r \in 1 .. Len(found')
                 PROVE  Span(trace, T[a]) \cap Extent(trace, found'[r].call) = {}
      OBVIOUS
    <3>1. CASE r \in 1 .. Len(found)
      BY <3>1, <2>3, <1>10
    <3>2. CASE r = Len(found) + 1
      BY <3>2, <2>2, <1>10
    <3> QED BY <3>1, <3>2, <1>10
  <2>6. \A r, q \in 1 .. Len(found') : r # q =>
          Extent(trace, found'[r].call) \cap Extent(trace, found'[q].call) = {}
    <3> SUFFICES ASSUME NEW r \in 1 .. Len(found'), NEW q \in 1 .. Len(found'), r # q
                 PROVE  Extent(trace, found'[r].call) \cap Extent(trace, found'[q].call) = {}
      OBVIOUS
    <3>1. CASE r \in 1 .. Len(found) /\ q \in 1 .. Len(found)
      BY <3>1, <1>2, <1>10 DEF QueueInv
    <3>2. CASE r = Len(found) + 1 /\ q \in 1 .. Len(found)
      BY <3>2, <2>4, <1>10
    <3>3. CASE q = Len(found) + 1 /\ r \in 1 .. Len(found)
      BY <3>3, <2>4, <1>10
    <3> QED BY <3>1, <3>2, <3>3, <1>10
  <2>7. queue' \in Seq({0} \cup CallsOf(trace')) /\ found' \in Seq([weight : Nat, call : CallsOf(trace')])
    BY <1>1, <1>4, <1>9 DEF X
  <2> QED BY <1>1, <2>1, <2>5, <2>6, <2>7 DEF QueueInv, FoundCall
<1>12. LevelInv'
  <2>1. \A a, b \in 1 .. Len(T) : a < b =>
          /\ DepthIn(trace, T[a]) <= DepthIn(trace, T[b])
          /\ DepthIn(trace, T[b]) <= DepthIn(trace, T[a]) + 1
    <3> SUFFICES ASSUME NEW a \in 1 .. Len(T), NEW b \in 1 .. Len(T), a < b
                 PROVE  /\ DepthIn(trace, T[a]) <= DepthIn(trace, T[b])
                        /\ DepthIn(trace, T[b]) <= DepthIn(trace, T[a]) + 1
      OBVIOUS
    <3>1. /\ T[a] = queue[a + 1] /\ T[b] = queue[b + 1]
          /\ a + 1 \in 1 .. Len(queue) /\ b + 1 \in 1 .. Len(queue)
      BY <1>4
    <3>2. a + 1 < b + 1
      OBVIOUS
    <3> QED BY <3>1, <3>2, <1>2 DEF LevelInv
  <2>2. ASSUME NEW i \in CallsOf(trace), trace[i].name = trace[c].name
        PROVE  DepthIn(trace, c) <= DepthIn(trace, i)
    <3>1. PICK a \in 1 .. Len(queue) : i \in Span(trace, queue[a])
      <4>1. trace[i].name \in set
        BY <2>2 DEF c
      <4> QED BY <4>1, <1>2 DEF WeightInv
    <3>2. DepthIn(trace, queue[a]) <= DepthIn(trace, i)
      BY <3>1, <1>2, <1>3, DepthDown
    <3>3. DepthIn(trace, c) <= DepthIn(trace, queue[a])
      <4>1. a = 1 \/ 1 < a
        OBVIOUS
      <4>2. DepthIn(trace, queue[a]) \in Nat
        BY <1>2, DepthFinite
      <4> QED BY <4>1, <4>2, <1>2, <1>4 DEF LevelInv, c
    <3>4. /\ DepthIn(trace, c) \in Nat /\ DepthIn(trace, queue[a]) \in Nat
          /\ DepthIn(trace, i) \in Nat
      BY <1>2, DepthFinite
    <3> QED BY <3>2, <3>3, <3>4
  <2>3. ASSUME NEW r \in 1 .. Len(found'), NEW i \in CallsOf(trace),
               trace[i].name = trace[found'[r].call].name
        PROVE  DepthIn(trace, found'[r].call) <= DepthIn(trace, i)
    <3>1. CASE r = Len(found) + 1
      BY <3>1, <2>2, <2>3, <1>10
    <3>2. CASE r \in 1 .. Len(found)
      BY <3>2, <2>3, <1>2, <1>10 DEF LevelInv
    <3> QED BY <3>1, <3>2, <1>10
  <2> QED BY <1>1, <2>1, <2>3 DEF LevelInv, FoundCall
<1>13. WeightInv'
  <2>1. Candidates' = Candidates
    BY <1>1 DEF Candidates, Count2
  <2>2. \A i \in CallsOf(trace) : trace[i].name \in set' =>
          \E a \in 1 .. Len(T) : i \in Span(trace, T[a])
    <3> SUFFICES ASSUME NEW i \in CallsOf(trace), trace[i].name \in set'
                 PROVE  \E a \in 1 .. Len(T) : i \in Span(trace, T[a])
      OBVIOUS
    <3>1. PICK a \in 1 .. Len(queue) : i \in Span(trace, queue[a])
      BY <1>2, <1>6 DEF WeightInv
    <3>2. a # 1
      BY <3>1, <1>5, <1>6 DEF c
    <3> QED BY <3>1, <3>2, <1>4
  <2>3. Cardinality(set') + Total(found') = Cardinality(Candidates)
    <3>1. found \in Seq(Weights) /\ new \in Weights
      <4>1. X \subseteq Weights
        BY DEF Weights, CallsOf, X
      <4> HIDE DEF X
      <4> QED BY <4>1, <1>3, <1>8, SeqMonotonic
    <3>2. Total(found') = Total(found) + new.weight
      BY <3>1, <1>1, TotalOfAppend
    <3>3. Total(found) \in Nat
      BY <3>1, TotalIsNatural
    <3>4. Cardinality(set) + Total(found) = Cardinality(Candidates)
      BY <1>2 DEF WeightInv
    <3> QED BY <3>2, <3>3, <3>4, <1>7, <1>8
  <2>4. set' \subseteq Candidates /\ stage' # "done"
    BY <1>1, <1>2, <1>6 DEF WeightInv
  <2> QED BY <1>1, <2>1, <2>2, <2>3, <2>4 DEF WeightInv
<1> QED BY <1>1, <1>11, <1>12, <1>13 DEF SearchInv

LEMMA CallPassed ==
  ASSUME CallTypeOK, TreeInv, SearchInv, Search,
         ~(queue[1] # 0 /\ trace[queue[1]].name \in set)
  PROVE  SearchInv'
<1> DEFINE c == queue[1]
           T == Tail(queue)
           s == children[c]
           q == T \o s
           C == CallsOf(trace)
           t == Len(T)
<1>1. /\ stage = "search" /\ stage' = stage /\ queue # << >> /\ trace' = trace
      /\ counts1' = counts1 /\ base_num' = base_num
      /\ set' = set /\ found' = found /\ queue' = q
  BY DEF Search
<1>2. QueueInv /\ LevelInv /\ WeightInv /\ trace \in Seq(Symbol) /\ Len(trace) \in Nat
  BY <1>1 DEF SearchInv, CallTypeOK
<1>3. /\ queue \in Seq({0} \cup C)
      /\ \A a \in 1 .. Len(queue) : queue[a] \in {0} \cup C
  BY <1>2 DEF QueueInv
<1>4. /\ T \in Seq({0} \cup C) /\ t \in Nat /\ 1 \in 1 .. Len(queue)
      /\ \A a \in 1 .. t : T[a] = queue[a + 1] /\ a + 1 \in 1 .. Len(queue) /\ a + 1 # 1
      /\ \A a \in 1 .. Len(queue) : a = 1 \/ (a - 1 \in 1 .. t /\ T[a - 1] = queue[a])
  BY <1>1, <1>3, WithoutFirst
<1>5. c \in {0} \cup C /\ Nested(trace, c, s, Span(trace, c))
  BY <1>1, <1>3, <1>4, TreeComplete
<1>6. s \in Seq(C) /\ Len(s) \in Nat /\ \A a \in 1 .. Len(s) : s[a] \in C /\ s[a] # 0
  BY <1>5 DEF Nested, CallsOf
<1>7. /\ q \in Seq({0} \cup C) /\ Len(q) = t + Len(s)
      /\ \A a \in 1 .. t : q[a] = T[a]
      /\ \A a \in 1 .. Len(q) : a > t => q[a] = s[a - t] /\ a - t \in 1 .. Len(s)
      /\ \A a \in 1 .. Len(s) : q[a + t] = s[a] /\ a + t \in 1 .. Len(q)
  <2>1. s \in Seq({0} \cup C)
    <3>1. C \subseteq {0} \cup C
      OBVIOUS
    <3> QED BY <3>1, <1>6, SeqMonotonic
  <2>2. /\ q \in Seq({0} \cup C) /\ Len(q) = Len(T) + Len(s)
        /\ \A a \in 1 .. Len(T) + Len(s) : q[a] = IF a <= Len(T) THEN T[a] ELSE s[a - Len(T)]
    BY <2>1, <1>4, ConcatProperties
  <2> HIDE DEF q, T, s
  <2>3. \A a \in 1 .. t : a \in 1 .. t + Len(s) /\ a <= t
    BY <1>4, <1>6
  <2>4. \A a \in 1 .. Len(q) : a > t => a - t \in 1 .. Len(s) /\ ~(a <= t)
    BY <2>2, <1>4, <1>6
  <2>5. \A a \in 1 .. Len(s) : a + t \in 1 .. Len(q) /\ ~(a + t <= t) /\ (a + t) - t = a
    BY <2>2, <1>4, <1>6
  <2>6. \A a \in 1 .. t : q[a] = T[a]
    BY <2>2, <2>3
  <2>7. \A a \in 1 .. Len(q) : a > t => q[a] = s[a - t]
    BY <2>2, <2>4
  <2>8. \A a \in 1 .. Len(s) : q[a + t] = s[a]
    BY <2>2, <2>5
  <2> QED BY <2>2, <2>4, <2>5, <2>6, <2>7, <2>8
<1>8. \A a \in 1 .. Len(s) :
        /\ Span(trace, s[a]) = Extent(trace, s[a])
        /\ Extent(trace, s[a]) \subseteq Span(trace, c)
        /\ DepthIn(trace, s[a]) = DepthIn(trace, c) + 1
  <2> HIDE DEF q, T, s, c
  <2> SUFFICES ASSUME NEW a \in 1 .. Len(s)
               PROVE  /\ Span(trace, s[a]) = Extent(trace, s[a])
                      /\ Extent(trace, s[a]) \subseteq Span(trace, c)
                      /\ DepthIn(trace, s[a]) = DepthIn(trace, c) + 1
    OBVIOUS
  <2>1. Span(trace, s[a]) = Extent(trace, s[a])
    BY <1>6 DEF Span
  <2>2. Extent(trace, s[a]) \subseteq Span(trace, c)
    BY <1>5 DEF Nested
  <2>3. DepthIn(trace, s[a]) = DepthIn(trace, c) + 1
    BY <1>2, <1>5, ChildDepth
  <2> QED BY <2>1, <2>2, <2>3
<1>9. \A a \in 1 .. t : Span(trace, T[a]) \cap Span(trace, c) = {}
  <2> HIDE DEF q, T, s
  <2> SUFFICES ASSUME NEW a \in 1 .. t
               PROVE  Span(trace, T[a]) \cap Span(trace, c) = {}
    OBVIOUS
  <2>1. T[a] = queue[a + 1] /\ a + 1 \in 1 .. Len(queue) /\ a + 1 # 1
    BY <1>4
  <2> QED BY <2>1, <1>2, <1>4 DEF QueueInv
<1> HIDE DEF q, T, s, t
<1>10. \A a, b \in 1 .. Len(q) : a < b => Span(trace, q[a]) \cap Span(trace, q[b]) = {}
  <2> SUFFICES ASSUME NEW a \in 1 .. Len(q), NEW b \in 1 .. Len(q), a < b
               PROVE  Span(trace, q[a]) \cap Span(trace, q[b]) = {}
    OBVIOUS
  <2>1. CASE b <= t
    <3>1. a \in 1 .. t /\ b \in 1 .. t /\ a + 1 # b + 1
      BY <2>1, <1>4
    <3>2. /\ q[a] = queue[a + 1] /\ a + 1 \in 1 .. Len(queue)
          /\ q[b] = queue[b + 1] /\ b + 1 \in 1 .. Len(queue)
      BY <3>1, <1>4, <1>7
    <3> QED BY <3>1, <3>2, <1>2 DEF QueueInv
  <2>2. CASE a <= t /\ b > t
    <3>1. a \in 1 .. t /\ q[a] = T[a] /\ q[b] = s[b - t] /\ b - t \in 1 .. Len(s)
      BY <2>2, <1>4, <1>7
    <3> QED BY <3>1, <1>8, <1>9
  <2>3. CASE a > t
    <3>1. b > t
      BY <2>3, <1>4
    <3>2. /\ q[a] = s[a - t] /\ a - t \in 1 .. Len(s) /\ q[b] = s[b - t] /\ b - t \in 1 .. Len(s)
          /\ a - t # b - t
      BY <2>3, <3>1, <1>4, <1>7
    <3>3. Extent(trace, s[a - t]) \cap Extent(trace, s[b - t]) = {}
      BY <3>2, <1>5, NestedApart
    <3> QED BY <3>2, <3>3, <1>8
  <2> QED BY <2>1, <2>2, <2>3, <1>4
<1>11. QueueInv'
  <2>1. \A a, b \in 1 .. Len(q) : a # b => Span(trace, q[a]) \cap Span(trace, q[b]) = {}
    <3> SUFFICES ASSUME NEW a \in 1 .. Len(q), NEW b \in 1 .. Len(q), a # b
                 PROVE  Span(trace, q[a]) \cap Span(trace, q[b]) = {}
      OBVIOUS
    <3>1. a < b \/ b < a
      OBVIOUS
    <3> QED BY <3>1, <1>10
  <2>2. ASSUME NEW a \in 1 .. Len(q), NEW r \in 1 .. Len(found)
        PROVE  Span(trace, q[a]) \cap Extent(trace, FoundCall(r)) = {}
    <3>1. CASE a <= t
      <4>1. a \in 1 .. t
        BY <3>1, <1>4
      <4>2. q[a] = queue[a + 1] /\ a + 1 \in 1 .. Len(queue)
        BY <4>1, <1>4, <1>7
      <4> QED BY <4>2, <1>2 DEF QueueInv
    <3>2. CASE a > t
      <4>1. Span(trace, q[a]) \subseteq Span(trace, c)
        <5>1. q[a] = s[a - t] /\ a - t \in 1 .. Len(s)
          BY <3>2, <1>7
        <5> QED BY <5>1, <1>8
      <4> QED BY <4>1, <1>2, <1>4 DEF QueueInv
    <3> QED BY <3>1, <3>2, <1>4
  <2>3. \A r \in 1 .. Len(found) : FoundCall(r)' = FoundCall(r)
    BY <1>1 DEF FoundCall
  <2> QED BY <1>1, <1>2, <1>7, <2>1, <2>2, <2>3 DEF QueueInv
<1>12. LevelInv'
  <2>1. \A i : DepthIn(trace, i) \in Nat
    BY <1>2, DepthFinite
  <2>2. \A a \in 1 .. t : /\ DepthIn(trace, c) <= DepthIn(trace, T[a])
                          /\ DepthIn(trace, T[a]) <= DepthIn(trace, c) + 1
    <3> SUFFICES ASSUME NEW a \in 1 .. t
                 PROVE  /\ DepthIn(trace, c) <= DepthIn(trace, T[a])
                        /\ DepthIn(trace, T[a]) <= DepthIn(trace, c) + 1
      OBVIOUS
    <3>1. T[a] = queue[a + 1] /\ a + 1 \in 1 .. Len(queue) /\ 1 < a + 1
      BY <1>4
    <3> QED BY <3>1, <1>2, <1>4 DEF LevelInv
  <2>3. ASSUME NEW a \in 1 .. Len(q), NEW b \in 1 .. Len(q), a < b
        PROVE  /\ DepthIn(trace, q[a]) <= DepthIn(trace, q[b])
               /\ DepthIn(trace, q[b]) <= DepthIn(trace, q[a]) + 1
    <3>1. CASE b <= t
      <4>1. a \in 1 .. t /\ b \in 1 .. t /\ a + 1 < b + 1
        BY <2>3, <3>1, <1>4
      <4>2. /\ q[a] = queue[a + 1] /\ a + 1 \in 1 .. Len(queue)
            /\ q[b] = queue[b + 1] /\ b + 1 \in 1 .. Len(queue)
        BY <4>1, <1>4, <1>7
      <4> QED BY <4>1, <4>2, <1>2 DEF LevelInv
    <3>2. CASE a <= t /\ b > t
      <4>1. a \in 1 .. t /\ q[a] = T[a] /\ q[b] = s[b - t] /\ b - t \in 1 .. Len(s)
        BY <3>2, <1>4, <1>7
      <4>2. DepthIn(trace, q[b]) = DepthIn(trace, c) + 1
        BY <4>1, <1>8
      <4> QED BY <4>1, <4>2, <2>1, <2>2
    <3>3. CASE a > t
      <4>1. b > t
        BY <3>3, <2>3, <1>4
      <4>2. DepthIn(trace, q[a]) = DepthIn(trace, c) + 1 /\ DepthIn(trace, q[b]) = DepthIn(trace, c) + 1
        BY <3>3, <4>1, <1>7, <1>8
      <4> QED BY <4>2, <2>1
    <3> QED BY <3>1, <3>2, <3>3, <1>4
  <2>4. \A r \in 1 .. Len(found) : FoundCall(r)' = FoundCall(r)
    BY <1>1 DEF FoundCall
  <2> QED BY <1>1, <1>2, <2>3, <2>4 DEF LevelInv
<1>13. WeightInv'
  <2>1. Candidates' = Candidates
    BY <1>1 DEF Candidates, Count2
  <2>2. ASSUME NEW i \in C, trace[i].name \in set
        PROVE  \E a \in 1 .. Len(q) : i \in Span(trace, q[a])
    <3>1. PICK a \in 1 .. Len(queue) : i \in Span(trace, queue[a])
      BY <2>2, <1>2 DEF WeightInv
    <3>2. CASE a # 1
      <4>1. a - 1 \in 1 .. t /\ T[a - 1] = queue[a]
        BY <3>2, <1>4
      <4>2. a - 1 \in 1 .. Len(q) /\ q[a - 1] = T[a - 1]
        <5>1. a - 1 \in 1 .. Len(q)
          BY <4>1, <1>4, <1>6, <1>7
        <5> QED BY <5>1, <4>1, <1>7
      <4> QED BY <3>1, <4>1, <4>2
    <3>3. CASE a = 1
      <4>1. i # c
        <5>1. i # 0
          BY DEF CallsOf
        <5> QED BY <5>1, <2>2
      <4>2. PICK b \in 1 .. Len(s) : i \in Extent(trace, s[b])
        BY <3>1, <3>3, <4>1, <1>5 DEF Nested
      <4> QED BY <4>2, <1>7, <1>8
    <3> QED BY <3>2, <3>3
  <2> QED BY <1>1, <1>2, <2>1, <2>2 DEF WeightInv
<1> QED BY <1>1, <1>11, <1>12, <1>13 DEF SearchInv

LEMMA SearchStep ==
  ASSUME CallTypeOK, TreeInv, SearchInv, [CallNext]_callVars
  PROVE  SearchInv'
<1>1. ASSUME /\ trace' = trace /\ counts1' = counts1 /\ base_num' = base_num
             /\ queue' = queue /\ set' = set /\ found' = found,
             stage \in {"search", "done"}, stage' = "done" => queue = << >>,
             stage' \in {"search", "done"}
      PROVE  SearchInv'
  <2>1. QueueInv /\ LevelInv /\ WeightInv
    BY <1>1 DEF SearchInv
  <2>2. QueueInv'
    BY <1>1, <2>1 DEF QueueInv, FoundCall
  <2>3. LevelInv'
    BY <1>1, <2>1 DEF LevelInv, FoundCall
  <2>4. Candidates' = Candidates
    BY <1>1 DEF Candidates, Count2
  <2>5. WeightInv'
    BY <1>1, <2>1, <2>4 DEF WeightInv
  <2> QED BY <1>1, <2>2, <2>3, <2>5 DEF SearchInv
<1>2. ASSUME stage \in {"nest", "close"}, stage' \in {"nest", "close", "unmatched"},
             queue' = queue /\ set' = set /\ found' = found
      PROVE  SearchInv'
  BY <1>2 DEF SearchInv
<1>3. ASSUME NEW sym \in Symbol, Enter(sym) \/ Leave(sym)
      PROVE  SearchInv'
  <2>1. stage = "nest" /\ stage' \in {"nest", "unmatched"}
    BY <1>3 DEF Enter, Leave
  <2>2. queue' = queue /\ set' = set /\ found' = found
    BY <1>3 DEF Enter, Leave
  <2> QED BY <2>1, <2>2, <1>2
<1>4. ASSUME EndOfTrace
      PROVE  SearchInv'
  BY <1>2, <1>4 DEF EndOfTrace
<1>5. ASSUME Close
      PROVE  SearchInv'
  <2>1. CASE names[1] = 0
    BY <1>5, <2>1, SearchBegins
  <2>2. CASE names[1] # 0
    BY <1>2, <1>5, <2>2 DEF Close
  <2> QED BY <2>1, <2>2
<1>6. ASSUME Search
      PROVE  SearchInv'
  BY <1>6, CallReported, CallPassed
<1>7. ASSUME Report
      PROVE  SearchInv'
  BY <1>1, <1>7 DEF Report
<1>8. ASSUME UNCHANGED callVars
      PROVE  SearchInv'
  <2>1. /\ trace' = trace /\ counts1' = counts1 /\ base_num' = base_num /\ stage' = stage
        /\ queue' = queue /\ set' = set /\ found' = found
    BY <1>8 DEF callVars
  <2>2. CASE stage \in {"search", "done"}
    <3>1. stage' = "done" => queue = << >>
      BY <2>1, <2>2 DEF SearchInv, WeightInv
    <3> QED BY <2>1, <2>2, <3>1, <1>1
  <2>3. CASE stage \notin {"search", "done"}
    BY <2>1, <2>3 DEF SearchInv
  <2> QED BY <2>2, <2>3
<1>9. ASSUME Exited
      PROVE  SearchInv'
  BY <1>8, <1>9 DEF Exited
<1> QED BY <1>3, <1>4, <1>5, <1>6, <1>7, <1>8, <1>9 DEF CallNext

LEMMA TypesOfTrace ==
  ASSUME CallTypeOK, [CallNext]_callVars
  PROVE  /\ trace' \in Seq(Symbol) /\ Len(trace') <= MaxTrace
         /\ counts1' = counts1 /\ base_num' = base_num
         /\ stage' \in {"nest", "close", "search", "done", "unmatched"}
<1>1. trace \in Seq(Symbol) /\ Len(trace) \in Nat /\ Len(trace) <= MaxTrace
  BY DEF CallTypeOK
<1>2. ASSUME NEW sym \in Symbol, Enter(sym) \/ Leave(sym)
      PROVE  trace' \in Seq(Symbol) /\ Len(trace') <= MaxTrace
  <2>1. trace' = Append(trace, sym) /\ Len(trace) < MaxTrace
    BY <1>2 DEF Enter, Leave
  <2>2. Append(trace, sym) \in Seq(Symbol) /\ Len(Append(trace, sym)) = Len(trace) + 1
    BY <1>1, AppendProperties
  <2> QED
    <3>1. MaxTrace \in Nat
      BY TraceAssumption
    <3> QED BY <2>1, <2>2, <3>1, <1>1
<1>3. /\ counts1' = counts1 /\ base_num' = base_num
      /\ (\A sym \in Symbol : ~Enter(sym) /\ ~Leave(sym)) => trace' = trace
  BY DEF CallNext, callVars, EndOfTrace, Enter, Leave, Close, Search, Report, Exited
<1>4. stage' \in {"nest", "close", "search", "done", "unmatched"}
  <2>1. stage \in {"nest", "close", "search", "done", "unmatched"}
    BY DEF CallTypeOK
  <2> QED BY <2>1 DEF CallNext, callVars, EndOfTrace, Enter, Leave, Close, Search,
                    Report, Exited
<1> QED BY <1>1, <1>2, <1>3, <1>4

LEMMA CallTypes ==
  ASSUME CallTypeOK, TreeInv, SearchInv, [CallNext]_callVars, TreeInv', SearchInv'
  PROVE  CallTypeOK'
<1> DEFINE C == CallsOf(trace')
           I == 0 .. Len(trace')
<1>1. /\ trace' \in Seq(Symbol) /\ Len(trace') <= MaxTrace /\ Len(trace') \in Nat
      /\ counts1' = counts1 /\ base_num' = base_num
      /\ stage' \in {"nest", "close", "search", "done", "unmatched"}
  BY TypesOfTrace
<1>2. C \subseteq I /\ {0} \cup C \subseteq I
  BY <1>1 DEF CallsOf
<1>3. Calls' = C /\ CallId' = I
  BY DEF Calls, CallId, CallsOf
<1>4. /\ counts1' \in [Name -> 0 .. MaxCount] /\ base_num' \in 0 .. MaxCount
  BY <1>1 DEF CallTypeOK
<1>5. queue' \in Seq(I) /\ set' \subseteq Name /\ found' \in Seq([weight : Nat, call : C])
  <2>1. CASE stage' \in {"search", "done"}
    <3>1. queue' \in Seq({0} \cup C) /\ found' \in Seq([weight : Nat, call : C])
      BY <2>1 DEF SearchInv, QueueInv
    <3>2. set' \subseteq Candidates'
      BY <2>1 DEF SearchInv, WeightInv
    <3>3. Candidates' \subseteq Name
      BY DEF Candidates
    <3> HIDE DEF C, I
    <3> QED BY <3>1, <3>2, <3>3, <1>2, SeqMonotonic
  <2>2. CASE stage' \notin {"search", "done"}
    <3>1. queue' = << >> /\ set' = {} /\ found' = << >>
      BY <1>1, <2>2 DEF SearchInv
    <3> HIDE DEF C, I
    <3> QED BY <3>1
  <2> QED BY <2>1, <2>2
<1>6. /\ names' \in Seq(I) /\ context' \in Seq(Seq(C)) /\ Len(names') = Len(context')
      /\ DOMAIN children' \subseteq I /\ \A i \in DOMAIN children' : children'[i] \in Seq(C)
  <2>1. CASE stage' # "unmatched"
    <3>1. StackInv' /\ NestInv'
      BY <2>1 DEF TreeInv
    <3>2. /\ names' \in Seq({0} \cup C) /\ context' \in Seq(Seq(C)) /\ Len(names') = Len(context')
          /\ DOMAIN children' \subseteq {0} \cup C
      BY <3>1 DEF StackInv
    <3>3. \A i \in DOMAIN children' : children'[i] \in Seq(C)
      BY <3>1 DEF NestInv, Nested
    <3> HIDE DEF C, I
    <3> QED BY <3>2, <3>3, <1>2, SeqMonotonic
  <2>2. CASE stage' = "unmatched"
    <3>1. CASE stage = "unmatched"
      <4>1. /\ trace' = trace /\ names' = names /\ context' = context /\ children' = children
        BY <3>1 DEF CallNext, callVars, EndOfTrace, Enter, Leave, Close, Search,
                    Report, Exited
      <4> QED BY <4>1 DEF CallTypeOK, Calls, CallId, CallsOf
    <3>2. CASE stage # "unmatched"
      <4>1. PICK sym \in Symbol : Leave(sym)
        BY <2>2, <3>2 DEF CallNext, callVars, EndOfTrace, Enter, Close, Search,
                          Report, Exited
      <4>2. /\ trace' = Append(trace, sym) /\ names' = names /\ context' = context
            /\ children' = children
        <5>1. stage' # stage
          BY <2>2, <3>2
        <5> QED BY <4>1, <5>1 DEF Leave
      <4>3. /\ trace \in Seq(Symbol) /\ Len(trace) \in Nat
            /\ Len(trace') = Len(trace) + 1
            /\ \A i \in 1 .. Len(trace) : trace'[i] = trace[i]
        <5>1. trace \in Seq(Symbol)
          BY DEF CallTypeOK
        <5> QED BY <4>2, <5>1, AppendProperties
      <4>4. Calls \subseteq C /\ CallId \subseteq I
        BY <4>3 DEF Calls, CallId, CallsOf
      <4>5. /\ names \in Seq(CallId) /\ context \in Seq(Seq(Calls))
            /\ Len(names) = Len(context) /\ DOMAIN children \subseteq CallId
            /\ \A i \in DOMAIN children : children[i] \in Seq(Calls)
        BY DEF CallTypeOK
      <4>6. Seq(Calls) \subseteq Seq(C) /\ Seq(CallId) \subseteq Seq(I)
        BY <4>4, SeqMonotonic
      <4>7. Seq(Seq(Calls)) \subseteq Seq(Seq(C))
        BY <4>6, SeqMonotonic
      <4> HIDE DEF C, I
      <4> QED BY <4>2, <4>4, <4>5, <4>6, <4>7
    <3> QED BY <3>1, <3>2
  <2> QED BY <2>1, <2>2
<1> HIDE DEF C, I
<1> QED BY <1>1, <1>3, <1>4, <1>5, <1>6 DEF CallTypeOK

LEMMA CallInitInv ==
  ASSUME CallInit
  PROVE  CallInv
<1>1. /\ counts1 \in [Name -> 0 .. MaxCount] /\ base_num \in 0 .. MaxCount
      /\ trace = << >> /\ stage = "nest" /\ names = <<0>> /\ context = << << >> >>
      /\ children = [i \in {} |-> << >>] /\ queue = << >> /\ set = {} /\ found = << >>
  BY DEF CallInit
<1>2. /\ Len(<< >>) = 0 /\ Len(<<0>>) = 1 /\ Len(<< << >> >>) = 1 /\ 1 .. 0 = {} /\ 1 .. 1 = {1}
      /\ <<0>>[1] = 0 /\ << << >> >>[1] = << >> /\ <<0>> # << >>
  OBVIOUS
<1>3. CallsOf(trace) = {} /\ Calls = {} /\ CallId = {0} /\ DOMAIN children = {}
  BY <1>1, <1>2 DEF CallsOf, Calls, CallId
<1>4. CallTypeOK
  <2>1. Len(trace) <= MaxTrace
    BY <1>1, <1>2, TraceAssumption
  <2>2. << << >> >> \in Seq(Seq({})) /\ <<0>> \in Seq({0})
    OBVIOUS
  <2>3. /\ names \in Seq(CallId) /\ context \in Seq(Seq(Calls)) /\ Len(names) = Len(context)
    BY <1>1, <1>2, <1>3, <2>2
  <2> QED BY <1>1, <1>3, <2>1, <2>3 DEF CallTypeOK
<1>5. StackInv
  <2>1. names \in Seq({0} \cup CallsOf(trace)) /\ context \in Seq(Seq(CallsOf(trace)))
    BY <1>1, <1>3
  <2>2. {names[k] : k \in 1 .. Len(names)} = {0}
    BY <1>1, <1>2
  <2> QED BY <2>1, <2>2, <1>1, <1>2, <1>3 DEF StackInv
<1>6. NestInv
  <2>1. Span(trace, 0) = {0}
    BY <1>3 DEF Span
  <2>2. Nested(trace, 0, << >>, {0})
    BY NestedNone
  <2>3. Kids(1) = << >>
    BY <1>1, <1>2 DEF Kids
  <2> QED BY <2>1, <2>2, <2>3, <1>1, <1>2, <1>3 DEF NestInv
<1>7. OpenInv /\ LeftInv
  BY <1>1, <1>2, <1>3 DEF OpenInv, LeftInv
<1> QED BY <1>1, <1>2, <1>4, <1>5, <1>6, <1>7 DEF CallInv, TreeInv, SearchInv

LEMMA CallInvariance == CallSpec => []CallInv
<1>1. CallInit => CallInv
  BY CallInitInv
<1>2. CallInv /\ [CallNext]_callVars => CallInv'
  <2> SUFFICES ASSUME CallTypeOK, TreeInv, SearchInv, [CallNext]_callVars
               PROVE  CallInv'
    BY DEF CallInv
  <2>1. TreeInv' /\ SearchInv'
    BY TreeStep, SearchStep
  <2> QED BY <2>1, CallTypes DEF CallInv
<1> QED BY <1>1, <1>2, PTL DEF CallSpec

(***************************************************************************)
(* The theorems about count_calls.                                         *)
(***************************************************************************)
(* The comparison of traces is type correct, for traces of any length and  *)
(* any functions: calls in the queue, in the tree and among the reported   *)
(* ones are calls of the trace, and weights are never negative.            *)
THEOREM CallTraceTypeCorrect == CallSpec => []CallTypeOK
<1>1. CallInv => CallTypeOK
  BY DEF CallInv
<1> QED BY <1>1, CallInvariance, PTL

LEMMA CallsAreCalls == Calls = CallsOf(trace)
BY DEF Calls, CallsOf

LEMMA OpenIsOpen ==
  ASSUME trace \in Seq(Symbol), NEW c \in CallsOf(trace), NEW i \in CallsOf(trace)
  PROVE  Open(c, i) <=> OpenIn(trace, c, i)
<1>1. c \in Int /\ i \in Int
  BY DEF CallsOf
<1>2. ASSUME NEW k \in c .. i
      PROVE  Balance(trace, c, k) > 0
               <=> Cardinality(LeavesIn(trace, c, k)) < (k - c + 1) - Cardinality(LeavesIn(trace, c, k))
  <2>1. Cardinality(LeavesIn(trace, c, k)) \in Nat
    <3>1. c \in Nat /\ k \in Int
      BY <1>1 DEF CallsOf
    <3> QED BY <3>1, LeavesFinite
  <2>2. Cardinality(LeavesIn(trace, c, k)) = Cardinality(LeavesIn(trace, c, k))
    OBVIOUS
  <2> QED BY <1>1, <2>1, <2>2 DEF Balance
<1> QED BY <1>2 DEF Open, OpenIn, LeavesIn

(* The tree of calls that Util.nested builds and finish completes says     *)
(* what the trace says: the calls below c are those entered after c and    *)
(* before c has returned, cut off calls included.                          *)
THEOREM CallTreeIsTrace == CallSpec => []TreeIsTrace
<1>1. ASSUME CallInv
      PROVE  TreeIsTrace
  <2> SUFFICES ASSUME stage \in {"search", "done"}, NEW c \in Calls
               PROVE  Below(c) = {i \in Calls : i >= c /\ Open(c, i)}
    BY DEF TreeIsTrace
  <2>1. TreeInv /\ trace \in Seq(Symbol) /\ c \in CallsOf(trace)
    BY <1>1, CallsAreCalls DEF CallInv, CallTypeOK
  <2>2. Below(c) = Span(trace, c)
    BY <2>1, BelowIsExtent
  <2>3. Span(trace, c) = Extent(trace, c)
    BY <2>1 DEF Span, CallsOf
  <2>4. Extent(trace, c) = {i \in Calls : i >= c /\ Open(c, i)}
    BY <2>1, OpenIsOpen, CallsAreCalls DEF Extent
  <2> QED BY <2>2, <2>3, <2>4
<1> QED BY <1>1, CallInvariance, PTL

(* Every candidate is accounted for by exactly one reported call: when the *)
(* search has ended no candidate is left, and the weights add up to the    *)
(* number of candidates.                                                   *)
THEOREM CallWeightsAddUp == CallSpec => []WeightsAddUp
<1>1. ASSUME CallInv
      PROVE  WeightsAddUp
  <2> SUFFICES ASSUME stage = "done"
               PROVE  /\ set = {}
                      /\ Total(found) = Cardinality(Candidates)
    BY DEF WeightsAddUp, Total
  <2>1. CallTypeOK /\ LeftInv /\ WeightInv /\ QueueInv /\ trace \in Seq(Symbol)
    BY <1>1 DEF CallInv, TreeInv, SearchInv, CallTypeOK
  <2>2. queue = << >> /\ 1 .. Len(queue) = {}
    <3>1. Len(<< >>) = 0 /\ 1 .. 0 = {}
      OBVIOUS
    <3> QED BY <3>1, <2>1 DEF WeightInv
  <2>3. ASSUME NEW f \in set
        PROVE  FALSE
    <3>1. f \in Candidates
      BY <2>1 DEF WeightInv
    <3>2. PICK j \in 1 .. Len(trace) : trace[j].kind = "Leave" /\ trace[j].name = f
      BY <2>1, <3>1, CandidatesFinite
    <3>3. PICK i \in CallsOf(trace) : trace[i].name = f
      BY <2>1, <3>2 DEF LeftInv
    <3> QED BY <2>1, <2>2, <3>3 DEF WeightInv
  <2>4. set = {} /\ Cardinality(set) = 0
    BY <2>3, FS_EmptySet
  <2>5. Total(found) \in Nat
    <3>1. [weight : Nat, call : CallsOf(trace)] \subseteq Weights
      BY DEF Weights, CallsOf
    <3>2. found \in Seq(Weights)
      BY <2>1, <3>1, SeqMonotonic DEF QueueInv
    <3> QED BY <3>2, TotalIsNatural
  <2>6. Cardinality(set) + Total(found) = Cardinality(Candidates)
    BY <2>1 DEF WeightInv
  <2> QED BY <2>4, <2>5, <2>6
<1> QED BY <1>1, CallInvariance, PTL

(* The calls reported are topmost: none is part of another one, and no     *)
(* call of the same function is closer to the root of the tree, since the  *)
(* search goes down the tree level by level.                               *)
THEOREM CallsReportedAreTopmost == CallSpec => []ReportedAreTopmost
<1>1. ASSUME CallInv
      PROVE  ReportedAreTopmost
  <2> SUFFICES ASSUME stage = "done", NEW r \in Range(found)
               PROVE  /\ \A q \in Range(found) : r # q => r.call \notin Below(q.call)
                      /\ \A i \in Calls : trace[i].name = trace[r.call].name =>
                           Depth(i) >= Depth(r.call)
    BY DEF ReportedAreTopmost
  <2>1. TreeInv /\ QueueInv /\ LevelInv /\ trace \in Seq(Symbol) /\ Len(trace) \in Nat
    BY <1>1 DEF CallInv, SearchInv, CallTypeOK
  <2>2. \A q \in Range(found) : \E a \in 1 .. Len(found) : q = found[a] /\ q.call \in CallsOf(trace)
    <3>1. found \in Seq([weight : Nat, call : CallsOf(trace)])
      BY <2>1 DEF QueueInv
    <3>2. /\ DOMAIN found = 1 .. Len(found)
          /\ \A a \in 1 .. Len(found) : found[a] \in [weight : Nat, call : CallsOf(trace)]
      BY <3>1, LenProperties, ElementOfSeq
    <3>3. \A a \in 1 .. Len(found) : found[a].call \in CallsOf(trace)
      BY <3>2
    <3> QED BY <3>2, <3>3 DEF Range
  <2>3. PICK a \in 1 .. Len(found) : r = found[a] /\ r.call \in CallsOf(trace)
    BY <2>2
  <2>4. \A c \in CallsOf(trace) : Below(c) = Extent(trace, c)
    <3>1. \A c \in CallsOf(trace) : Below(c) = Span(trace, c) /\ c # 0
      BY <2>1, BelowIsExtent DEF CallsOf
    <3> QED BY <3>1 DEF Span
  <2>5. \A i : Depth(i) = DepthIn(trace, i)
    <3> SUFFICES ASSUME NEW i
                 PROVE  Depth(i) = DepthIn(trace, i)
      OBVIOUS
    <3>1. {c \in Calls : i \in Below(c)} = {c \in CallsOf(trace) : i \in Extent(trace, c)}
      BY <2>4, CallsAreCalls
    <3> QED BY <3>1 DEF Depth, DepthIn
  <2>6. ASSUME NEW q \in Range(found), r # q
        PROVE  r.call \notin Below(q.call)
    <3>1. PICK b \in 1 .. Len(found) : q = found[b] /\ q.call \in CallsOf(trace)
      BY <2>2
    <3>2. Extent(trace, r.call) \cap Extent(trace, q.call) = {}
      BY <2>1, <2>3, <2>6, <3>1 DEF QueueInv, FoundCall
    <3>3. r.call \in Extent(trace, r.call)
      BY <2>1, <2>3, ExtentOfItself
    <3> QED BY <2>4, <3>1, <3>2, <3>3
  <2>7. ASSUME NEW i \in Calls, trace[i].name = trace[r.call].name
        PROVE  Depth(i) >= Depth(r.call)
    <3>1. DepthIn(trace, r.call) <= DepthIn(trace, i)
      BY <2>1, <2>3, <2>7, CallsAreCalls DEF LevelInv, FoundCall
    <3>2. DepthIn(trace, r.call) \in Nat /\ DepthIn(trace, i) \in Nat
      BY <2>1, DepthFinite
    <3> QED BY <2>5, <3>1, <3>2
  <2> QED BY <2>6, <2>7
<1> QED BY <1>1, CallInvariance, PTL

-----------------------------------------------------------------------------
(***************************************************************************)
(* Memory SSA.                                                             *)
(*                                                                         *)
(* While phis are placed: where a definition is, the frontier of its block *)
(* has phis or is still to get them, and a region that has a phi in a      *)
(* block has a chi that reaches the block.                                 *)
(***************************************************************************)
ChiReaches(b, i, r) == \E d \in ReachingDefs(b, i, r) : d[2] # 0

EndOfBlock(b) == Len(prog.code[b]) + 1

HasDef(b, r) == r \in Defined(b) \/ <<b, r>> \in phis

PlacingInv ==
  /\ pass = "collect" => phis = {} /\ todo = {} /\ usedRegs = {}
  /\ pass # "collect" => usedRegs = UNION {Used(b) : b \in Live}
  /\ phis \subseteq Live \X usedRegs /\ todo \subseteq Live \X usedRegs
  /\ pass # "collect" =>
       \A b \in Live, r \in Region : HasDef(b, r) =>
         <<b, r>> \in todo \/ \A c \in Frontier(b) : <<c, r>> \in phis
  /\ pass \in {"rename", "done"} => todo = {}
  /\ \A d \in todo : HasDef(d[1], d[2])
  /\ \A d \in phis : ChiReaches(d[1], 1, d[2])
  /\ \A d \in phis : d[1] # prog.entry

(***************************************************************************)
(* The points of a block that define a region are its phi, 0, and the      *)
(* statements with a chi.  Made has what renaming has made of them.        *)
(***************************************************************************)
DefPoints(b, r) == {i \in {0} : <<b, r>> \in phis} \cup DefsIn(b, r)

Made == {<<p[1], 0, p[2], p[3]>> : p \in phiRes} \cup {<<w[1], w[2], w[3], w[5]>> : w \in writes}

StrictlyDominates(a, b) == a # b /\ Dominates(a, b)

(* v is the version of r made last in b before point i.                    *)
MadeBefore(b, i, r, v) ==
  \E j \in DefPoints(b, r) :
    /\ j < i
    /\ \A k \in DefPoints(b, r) : k < i => k <= j
    /\ <<b, j, r, v>> \in Made

MadeAbove(c, b, r, v) ==
  /\ StrictlyDominates(c, b)
  /\ MadeBefore(c, EndOfBlock(c), r, v)
  /\ \A x \in Live : StrictlyDominates(c, x) /\ StrictlyDominates(x, b) => DefPoints(x, r) = {}

(* b gets version v of r from the blocks that dominate it: from the last   *)
(* of them that defines r, or from the entry chi if none does.             *)
Inherits(b, r, v) ==
  \/ \E c \in Live : MadeAbove(c, b, r, v)
  \/ v = 1 /\ \A x \in Live : StrictlyDominates(x, b) => DefPoints(x, r) = {}

(* v is the version of r at point i of b.                                  *)
Arrives(b, i, r, v) ==
  \/ MadeBefore(b, i, r, v)
  \/ (\A j \in DefPoints(b, r) : ~(j < i)) /\ Inherits(b, r, v)

(***************************************************************************)
(* What is recorded: versions are made once and recorded where they        *)
(* arrive.                                                                 *)
(***************************************************************************)
IsRead(u) ==
  /\ u[1] \in Live /\ u[2] \in DOMAIN prog.code[u[1]] /\ u[3] \in usedRegs
  /\ u[4] \in Nat /\ u[4] < counter[u[3]]
  /\ Arrives(u[1], u[2], u[3], u[4])

IsReturn(u) ==
  /\ u = <<u[1], u[2]>> /\ u[1] \in usedRegs /\ u[2] \in Nat
  /\ \E b \in prog.ret \cap Live : Arrives(b, EndOfBlock(b), u[1], u[2])

IsPhiOp(o) ==
  /\ o[3] \in Live /\ o[1] \in prog.succ[o[3]] /\ <<o[1], o[2]>> \in phis
  /\ o[4] \in Nat /\ o[4] < counter[o[2]]
  /\ Arrives(o[3], EndOfBlock(o[3]), o[2], o[4])

ReadsInv ==
  /\ \A u \in reads : IsRead(u)
  /\ \A u \in returns : IsReturn(u)
  /\ \A o \in phiOps : IsPhiOp(o)

IsWrite(w) ==
  /\ w[1] \in Live /\ w[2] \in DefsIn(w[1], w[3]) /\ w[3] \in usedRegs
  /\ w[4] \in Nat /\ w[5] \in Nat /\ w[4] < w[5]
  /\ Arrives(w[1], w[2], w[3], w[4])

IsMade(m) == m[3] \in usedRegs /\ m[4] \in Nat /\ m[4] > 1 /\ m[4] < counter[m[3]]

WritesInv ==
  /\ \A w \in writes : IsWrite(w)
  /\ \A p \in phiRes : <<p[1], p[2]>> \in phis
  /\ \A m \in Made : IsMade(m)
  /\ \A m, n \in Made : m[3] = n[3] /\ m[4] = n[4] => m = n

(***************************************************************************)
(* The walk.  NamedUpTo: block b is finished before point i; two past the  *)
(* statements it has also filled the phis of its successors.               *)
(***************************************************************************)
NamedUpTo(b, i) ==
  /\ \A r \in Region : \A j \in DefPoints(b, r) : j < i => \E m \in Made : m[1] = b /\ m[2] = j /\ m[3] = r
  /\ i > EndOfBlock(b) =>
       /\ \A s \in prog.succ[b] : \A r \in PhisOf(s) : \E o \in phiOps : o[1] = s /\ o[2] = r /\ o[3] = b
       /\ b \in prog.ret => \A r \in usedRegs : \E u \in returns : u[1] = r

SubtreeNamed(b) == \A x \in Live : Dominates(b, x) => NamedUpTo(x, EndOfBlock(x) + 1)

FramesInv ==
  /\ frames \in Seq([bb : Live, at : Nat, memRegs : [Region -> Nat], children : SUBSET Live])
  /\ pass = "rename" <=> frames # <<>>
  /\ frames # <<>> => frames[1].bb = prog.entry
  /\ \A k \in 1 .. Len(frames) :
       /\ frames[k].at <= EndOfBlock(frames[k].bb) + 1
       /\ frames[k].children \subseteq Children(frames[k].bb)
       /\ NamedUpTo(frames[k].bb, frames[k].at)
       /\ frames[k].at = EndOfBlock(frames[k].bb) + 1 =>
            \A c \in Children(frames[k].bb) :
              \/ c \in frames[k].children
              \/ k < Len(frames) /\ c = frames[k + 1].bb
              \/ SubtreeNamed(c)
       /\ k < Len(frames) =>
            /\ frames[k].at = EndOfBlock(frames[k].bb) + 1
            /\ frames[k + 1].bb \in Children(frames[k].bb)
  /\ pass = "done" => SubtreeNamed(prog.entry)

(***************************************************************************)
(* The stacks.  h[k] is the height of r's stack when the k-th call of      *)
(* SSARenameBB began: what was on top then was the version its block       *)
(* inherits.                                                               *)
(***************************************************************************)
Heights(r, h) ==
  /\ h \in [1 .. Len(frames) + 1 -> 1 .. Len(stack[r])]
  /\ h[Len(frames) + 1] = Len(stack[r])
  /\ \A k \in 1 .. Len(frames) :
       /\ h[k + 1] = h[k] + frames[k].memRegs[r]
       /\ Inherits(frames[k].bb, r, stack[r][h[k]])
       /\ Arrives(frames[k].bb, frames[k].at, r, stack[r][h[k + 1]])

StacksInv ==
  /\ stack \in [Region -> Seq(Nat)] /\ counter \in [Region -> Nat]
  /\ pass = "phi" => \A r \in usedRegs : stack[r] = <<0, 1>> /\ counter[r] = 2
  /\ \A r \in Region : \A i \in 1 .. Len(stack[r]) : stack[r][i] < counter[r]
  /\ pass = "rename" => \A r \in usedRegs : counter[r] > 1 /\ \E h : Heights(r, h)

NothingNamed == reads \cup writes \cup phiRes \cup phiOps \cup returns = {}

SSAInv ==
  /\ prog \in Bodies
  /\ pass \in {"collect", "phi", "rename", "done"}
  /\ pass \in {"collect", "phi"} => NothingNamed
  /\ PlacingInv /\ ReadsInv /\ WritesInv /\ FramesInv /\ StacksInv

-----------------------------------------------------------------------------
(***************************************************************************)
(* Closures.  Three definitions repeat a step that adds elements of a      *)
(* finite set until nothing is added: they make the least set the step     *)
(* keeps.                                                                  *)
(***************************************************************************)
Repeats(V, N, f) == f = [B \in SUBSET V |-> IF N[B] = B THEN B ELSE f[N[B]]]

Closes(V, K, N) ==
  /\ N \in [SUBSET V -> SUBSET V]
  /\ K \subseteq V /\ IsFiniteSet(K)
  /\ \A B \in SUBSET V : B \subseteq N[B] /\ N[B] \subseteq B \cup K
  /\ \A A, B \in SUBSET V : A \subseteq B => N[A] \subseteq N[B]

IsClosure(V, N, B, C) ==
  /\ C \subseteq V /\ B \subseteq C /\ N[C] = C
  /\ \A D \in SUBSET V : B \subseteq D /\ N[D] \subseteq D => C \subseteq D

LEMMA ClosureExists ==
  ASSUME NEW V, NEW K, NEW N, Closes(V, K, N)
  PROVE  \E f : Repeats(V, N, f)
<1> DEFINE Closed(B) == {D \in SUBSET V : B \subseteq D /\ N[D] \subseteq D}
           f == [B \in SUBSET V |-> {x \in V : \A D \in Closed(B) : x \in D}]
<1>1. ASSUME NEW B \in SUBSET V, N[B] = B
      PROVE  f[B] = B
  <2>1. B \in Closed(B)
    BY <1>1
  <2> QED BY <2>1
<1>2. ASSUME NEW B \in SUBSET V
      PROVE  N[B] \in SUBSET V /\ f[B] = f[N[B]]
  <2>1. N[B] \in SUBSET V
    BY DEF Closes
  <2>2. ASSUME NEW D \in Closed(B)
        PROVE  D \in Closed(N[B])
    <3>1. N[B] \subseteq N[D]
      BY DEF Closes
    <3> QED BY <3>1
  <2>3. ASSUME NEW D \in Closed(N[B])
        PROVE  D \in Closed(B)
    BY DEF Closes
  <2>4. Closed(B) = Closed(N[B])
    <3> HIDE DEF Closed
    <3> QED BY <2>2, <2>3
  <2> QED BY <2>1, <2>4
<1>3. f = [B \in SUBSET V |-> IF N[B] = B THEN B ELSE f[N[B]]]
  <2>1. \A B \in SUBSET V : f[B] = IF N[B] = B THEN B ELSE f[N[B]]
    <3> HIDE DEF f
    <3> QED BY <1>1, <1>2
  <2>2. f = [B \in SUBSET V |-> f[B]]
    OBVIOUS
  <2> HIDE DEF f
  <2> QED BY <2>1, <2>2
<1> QED
  <2> HIDE DEF f
  <2> QED BY <1>3 DEF Repeats

(* By induction on the number of elements of K that are still missing.     *)
LEMMA ClosureIs ==
  ASSUME NEW V, NEW K, NEW N, NEW f, Closes(V, K, N), Repeats(V, N, f)
  PROVE  \A B \in SUBSET V : IsClosure(V, N, B, f[B])
<1>1. \A B \in SUBSET V : f[B] = IF N[B] = B THEN B ELSE f[N[B]]
  BY DEF Repeats
<1>2. SUFFICES ASSUME NEW B0 \in SUBSET V, ~ IsClosure(V, N, B0, f[B0])
               PROVE  FALSE
  OBVIOUS
<1> DEFINE bad == {B \in SUBSET V : ~ IsClosure(V, N, B, f[B])}
           X == {Cardinality(K \ B) : B \in bad}
<1>3. \A B \in SUBSET V : IsFiniteSet(K \ B) /\ Cardinality(K \ B) \in Nat
  BY FS_Difference, FS_CardinalityType DEF Closes
<1>4. X \subseteq Nat /\ X # {}
  BY <1>2, <1>3
<1>5. PICK x \in X : \A y \in X : x <= y
  <2> HIDE DEF X
  <2> QED BY <1>4, LeastPosition
<1>6. PICK B \in bad : x = Cardinality(K \ B)
  BY <1>5
<1>7. N[B] # B
  <2> SUFFICES ASSUME N[B] = B
               PROVE  IsClosure(V, N, B, f[B])
    BY <1>6
  <2>1. f[B] = B
    BY <1>1
  <2>2. \A D \in SUBSET V : B \subseteq D => B \subseteq D
    OBVIOUS
  <2> QED BY <2>1, <2>2 DEF IsClosure
<1>8. N[B] \in SUBSET V /\ B \subseteq N[B] /\ N[B] \subseteq B \cup K
  BY DEF Closes
<1>9. N[B] \notin bad
  <2>1. PICK y \in N[B] : y \notin B
    BY <1>7, <1>8
  <2>2. K \ N[B] \subseteq K \ B /\ K \ N[B] # K \ B
    BY <1>8, <2>1
  <2>3. Cardinality(K \ N[B]) < Cardinality(K \ B)
    <3>1. IsFiniteSet(K \ B) /\ Cardinality(K \ B) \in Nat
      BY <1>3, <1>6
    <3>2. Cardinality(K \ N[B]) \in Nat
      BY <1>3, <1>8
    <3>3. /\ Cardinality(K \ N[B]) <= Cardinality(K \ B)
          /\ Cardinality(K \ B) = Cardinality(K \ N[B]) => K \ B = K \ N[B]
      BY <3>1, <2>2, FS_Subset
    <3> QED BY <3>1, <3>2, <3>3, <2>2
  <2>4. ASSUME N[B] \in bad
        PROVE  FALSE
    <3>1. Cardinality(K \ N[B]) \in X
      BY <2>4
    <3>2. x <= Cardinality(K \ N[B])
      BY <3>1, <1>5
    <3>3. x \in Nat /\ Cardinality(K \ N[B]) \in Nat
      BY <1>3, <1>6, <1>8
    <3> QED BY <3>2, <3>3, <2>3, <1>6
  <2> QED BY <2>4
<1>10. IsClosure(V, N, N[B], f[N[B]]) /\ f[B] = f[N[B]]
  BY <1>1, <1>7, <1>8, <1>9
<1>11. \A D \in SUBSET V : B \subseteq D /\ N[D] \subseteq D => N[B] \subseteq D
  BY DEF Closes
<1>12. IsClosure(V, N, B, f[B])
  BY <1>8, <1>10, <1>11 DEF IsClosure
<1> QED BY <1>6, <1>12

(* What the definitions choose is the closure.                             *)
LEMMA ChosenCloses ==
  ASSUME NEW V, NEW K, NEW N, Closes(V, K, N)
  PROVE  \A B \in SUBSET V : IsClosure(V, N, B, (CHOOSE f : Repeats(V, N, f))[B])
<1>1. Repeats(V, N, CHOOSE f : Repeats(V, N, f))
  BY ClosureExists
<1> QED BY <1>1, ClosureIs

-----------------------------------------------------------------------------
(* Blocks, successors and statements.                                      *)
LEMMA BodyFacts ==
  ASSUME prog \in Bodies
  PROVE  /\ IsFiniteSet(Block) /\ prog.entry \in Block
         /\ \A b \in Block : prog.succ[b] \in SUBSET (Block \ {prog.entry})
         /\ \A b \in Block : prog.code[b] \in Seq([mu : SUBSET Region, chi : SUBSET Region])
         /\ \A a, b \in prog.ret : a = b
BY BodiesAssumption

(* Avoiding(S) is the least set with the entry that the edges to blocks    *)
(* outside S keep.                                                         *)
LEMMA AvoidingIs ==
  ASSUME prog \in Bodies, NEW S
  PROVE  /\ Avoiding(S) \subseteq Block \ S
         /\ prog.entry \notin S => prog.entry \in Avoiding(S)
         /\ \A b \in Avoiding(S) : \A c \in prog.succ[b] : c \notin S => c \in Avoiding(S)
         /\ \A C : /\ prog.entry \notin S => prog.entry \in C
                   /\ \A b \in C \cap Avoiding(S) : \A c \in prog.succ[b] : c \notin S => c \in C
                   => Avoiding(S) \subseteq C
<1> DEFINE After(B) == B \cup ((UNION {prog.succ[b] : b \in B}) \ S)
           N == [B \in SUBSET Block |-> After(B)]
           P(f) == f = [B \in SUBSET Block |-> LET next == After(B) IN IF next = B THEN B ELSE f[next]]
           base == {prog.entry} \ S
           A == Avoiding(S)
<1>1. base \in SUBSET Block /\ IsFiniteSet(Block)
  BY BodyFacts
<1>2. \A B \in SUBSET Block : N[B] = After(B) /\ After(B) \in SUBSET Block
  BY BodyFacts
<1>3. Closes(Block, Block, N)
  <2>1. N \in [SUBSET Block -> SUBSET Block]
    <3> HIDE DEF After
    <3> QED BY <1>2
  <2>2. \A B \in SUBSET Block : B \subseteq N[B] /\ N[B] \subseteq B \cup Block
    BY <1>2
  <2>3. ASSUME NEW B \in SUBSET Block, NEW C \in SUBSET Block, B \subseteq C
        PROVE  N[B] \subseteq N[C]
    <3>1. After(B) \subseteq After(C)
      BY <2>3
    <3> QED BY <3>1, <1>2
  <2> QED BY <1>1, <2>1, <2>2, <2>3 DEF Closes
<1>4. \A f : P(f) <=> Repeats(Block, N, f)
  <2> SUFFICES ASSUME NEW f PROVE P(f) <=> Repeats(Block, N, f)
    OBVIOUS
  <2>1. \A B \in SUBSET Block : N[B] = After(B)
    BY <1>2
  <2> HIDE DEF N, After
  <2> QED BY <2>1 DEF Repeats
<1>5. (CHOOSE f : P(f)) = (CHOOSE f : Repeats(Block, N, f))
  <2> HIDE DEF P, N
  <2> QED BY <1>4
<1>6. A = (CHOOSE f : P(f))[base]
  BY DEF Avoiding
<1>7. IsClosure(Block, N, base, A)
  <2> HIDE DEF P, N, base, A
  <2> QED BY <1>1, <1>3, <1>5, <1>6, ChosenCloses
<1>8. A \subseteq Block /\ base \subseteq A /\ After(A) = A
  BY <1>7, <1>2 DEF IsClosure
<1>9. \A b \in A : \A c \in prog.succ[b] : c \notin S => c \in A
  BY <1>8
<1>10. ASSUME NEW C, prog.entry \notin S => prog.entry \in C,
              \A b \in C \cap A : \A c \in prog.succ[b] : c \notin S => c \in C
       PROVE  A \subseteq C
  <2> DEFINE D == C \cap A
  <2>1. D \in SUBSET Block /\ base \subseteq D
    BY <1>8, <1>10
  <2>2. After(D) \subseteq D
    BY <1>9, <1>10
  <2>3. A \subseteq D
    <3> HIDE DEF D, A, N, base
    <3> QED BY <2>1, <2>2, <1>2, <1>7 DEF IsClosure
  <2> QED BY <2>3
<1>11. A \subseteq Block \ S
  <2> DEFINE C == Block \ S
  <2>1. \A b \in C \cap A : \A c \in prog.succ[b] : c \notin S => c \in C
    BY BodyFacts
  <2>2. prog.entry \notin S => prog.entry \in C
    BY <1>1
  <2> HIDE DEF C, A
  <2>3. A \subseteq C
    BY <2>1, <2>2, <1>10
  <2> QED BY <2>3 DEF C
<1> QED
  <2>1. prog.entry \notin S => prog.entry \in A
    BY <1>8
  <2> HIDE DEF A
  <2>2. A = Avoiding(S)
    BY DEF A
  <2> QED BY <2>1, <2>2, <1>9, <1>10, <1>11

LEMMA LiveFacts ==
  ASSUME prog \in Bodies
  PROVE  /\ Live \subseteq Block /\ prog.entry \in Live
         /\ \A b \in Live : \A c \in prog.succ[b] : c \in Live /\ c # prog.entry
         /\ \A C : /\ prog.entry \in C
                   /\ \A b \in C \cap Live : \A c \in prog.succ[b] : c \in C
                   => Live \subseteq C
<1>1. /\ Live \subseteq Block /\ prog.entry \in Live
      /\ \A b \in Live : \A c \in prog.succ[b] : c \in Live
  BY AvoidingIs DEF Live
<1>2. \A b \in Live : \A c \in prog.succ[b] : c # prog.entry
  BY <1>1, BodyFacts
<1>3. ASSUME NEW C, prog.entry \in C, \A b \in C \cap Live : \A c \in prog.succ[b] : c \in C
      PROVE  Live \subseteq C
  BY <1>3, AvoidingIs DEF Live
<1> QED BY <1>1, <1>2, <1>3

(* A(a) is what is reached without a.                                      *)
LEMMA Bypassing ==
  ASSUME prog \in Bodies, NEW a
  PROVE  /\ \A b : Dominates(a, b) <=> b \notin Avoiding({a})
         /\ Avoiding({a}) \subseteq Live
         /\ a # prog.entry => prog.entry \in Avoiding({a})
         /\ \A b \in Avoiding({a}) : \A c \in prog.succ[b] : c # a => c \in Avoiding({a})
         /\ \A C : /\ a # prog.entry => prog.entry \in C
                   /\ \A b \in C \cap Avoiding({a}) : \A c \in prog.succ[b] : c # a => c \in C
                   => Avoiding({a}) \subseteq C
<1>1. /\ a # prog.entry => prog.entry \in Avoiding({a})
      /\ \A b \in Avoiding({a}) : \A c \in prog.succ[b] : c # a => c \in Avoiding({a})
  BY AvoidingIs
<1>2. ASSUME NEW C, a # prog.entry => prog.entry \in C,
             \A b \in C \cap Avoiding({a}) : \A c \in prog.succ[b] : c # a => c \in C
      PROVE  Avoiding({a}) \subseteq C
  <2>1. prog.entry \notin {a} => prog.entry \in C
    BY <1>2
  <2>2. \A b \in C \cap Avoiding({a}) : \A c \in prog.succ[b] : c \notin {a} => c \in C
    BY <1>2
  <2> QED BY <2>1, <2>2, AvoidingIs
<1>3. Avoiding({a}) \subseteq Live
  <2>1. prog.entry \in Live /\ \A b \in Live : \A c \in prog.succ[b] : c \in Live
    BY LiveFacts
  <2> QED BY <2>1, <1>2
<1> QED BY <1>1, <1>2, <1>3 DEF Dominates

LEMMA DomReflexive == ASSUME prog \in Bodies, NEW a PROVE Dominates(a, a)
BY AvoidingIs DEF Dominates

LEMMA DomEntry == ASSUME prog \in Bodies, NEW b PROVE Dominates(prog.entry, b)
<1> DEFINE C == {}
<1>1. \A x \in C \cap Avoiding({prog.entry}) : \A y \in prog.succ[x] : y # prog.entry => y \in C
  OBVIOUS
<1>2. Avoiding({prog.entry}) \subseteq C
  <2> HIDE DEF C
  <2> QED BY <1>1, Bypassing
<1> QED BY <1>2 DEF Dominates

LEMMA DomLive ==
  ASSUME prog \in Bodies, NEW a, NEW b \in Live, Dominates(a, b)
  PROVE  a \in Live
<1> SUFFICES ASSUME a \notin Live PROVE FALSE
  OBVIOUS
<1>1. prog.entry \in Avoiding({a})
  BY Bypassing, LiveFacts
<1>2. ASSUME NEW c \in Avoiding({a}) \cap Live, NEW d \in prog.succ[c]
      PROVE  d \in Avoiding({a})
  <2>1. d # a
    BY LiveFacts
  <2> QED BY <2>1, Bypassing
<1>3. Live \subseteq Avoiding({a})
  BY <1>1, <1>2, LiveFacts
<1> QED BY <1>3, Bypassing

LEMMA DomTransitive ==
  ASSUME prog \in Bodies, NEW a, NEW b, NEW c, Dominates(a, b), Dominates(b, c)
  PROVE  Dominates(a, c)
<1>1. b \notin Avoiding({a}) /\ c \notin Avoiding({b})
  BY DEF Dominates
<1>2. a # prog.entry => prog.entry \in Avoiding({b})
  BY <1>1, Bypassing
<1>3. \A x \in Avoiding({b}) \cap Avoiding({a}) : \A y \in prog.succ[x] : y # a => y \in Avoiding({b})
  BY <1>1, Bypassing
<1>4. Avoiding({a}) \subseteq Avoiding({b})
  BY <1>2, <1>3, Bypassing
<1> QED BY <1>1, <1>4 DEF Dominates

(* What dominates the same block dominates one another.                    *)
LEMMA DomComparable ==
  ASSUME prog \in Bodies, NEW a, NEW c, NEW b \in Live, Dominates(a, b), Dominates(c, b)
  PROVE  Dominates(a, c) \/ Dominates(c, a)
<1> SUFFICES ASSUME c \in Avoiding({a}), a \in Avoiding({c}) PROVE FALSE
  BY DEF Dominates
<1> DEFINE C == Avoiding({a}) \cup Avoiding({c})
<1>1. a # c
  BY AvoidingIs
<1>2. prog.entry \in C
  BY <1>1, Bypassing
<1>3. \A x \in C \cap Live : \A y \in prog.succ[x] : y \in C
  BY Bypassing
<1>4. Live \subseteq C
  BY <1>2, <1>3, LiveFacts
<1> QED BY <1>4 DEF Dominates

LEMMA DomAntisymmetric ==
  ASSUME prog \in Bodies, NEW a \in Live, NEW c, Dominates(a, c), Dominates(c, a)
  PROVE  a = c
<1> SUFFICES ASSUME a # c PROVE FALSE
  OBVIOUS
<1>1. c \notin Avoiding({a}) /\ a \notin Avoiding({c})
  BY DEF Dominates
<1>2. a # prog.entry /\ c # prog.entry
  BY <1>1, Bypassing
<1>3. \A x \in Avoiding({c}) \cap Avoiding({a}) : \A y \in prog.succ[x] : y # a => y \in Avoiding({c})
  BY <1>1, Bypassing
<1>4. prog.entry \in Avoiding({c})
  BY <1>2, Bypassing
<1>5. Avoiding({a}) \subseteq Avoiding({c})
  BY <1>3, <1>4, Bypassing
<1> DEFINE E == Avoiding({a})
<1>6. ASSUME NEW x \in E, NEW y \in prog.succ[x]
      PROVE  y \in E
  <2>1. y \in Avoiding({c}) \/ y = c
    BY <1>5, Bypassing
  <2>2. y # a
    BY <2>1, <1>1
  <2> QED BY <2>2, Bypassing
<1>7. prog.entry \in E
  BY <1>2, Bypassing
<1>8. Live \subseteq E
  <2> HIDE DEF E
  <2> QED BY <1>6, <1>7, LiveFacts
<1> QED BY <1>8, Bypassing, DomReflexive

(* What dominates a block strictly dominates its predecessors.             *)
LEMMA DomBefore ==
  ASSUME prog \in Bodies, NEW a, NEW b, NEW p \in Live, b \in prog.succ[p], StrictlyDominates(a, b)
  PROVE  Dominates(a, p)
BY Bypassing DEF StrictlyDominates

(* Below a, the blocks that dominate x begin with a child of a.            *)
LEMMA ChildAbove ==
  ASSUME prog \in Bodies, NEW a \in Live, NEW x \in Live, StrictlyDominates(a, x)
  PROVE  \E c \in Children(a) : Dominates(c, x)
<1> DEFINE S == {c \in Live : StrictlyDominates(a, c) /\ Dominates(c, x)}
           doms(c) == {d \in Live : Dominates(d, c)}
           X == {Cardinality(doms(c)) : c \in S}
<1>1. IsFiniteSet(Live)
  BY LiveFacts, BodyFacts, FS_Subset
<1>2. \A c \in Live : IsFiniteSet(doms(c)) /\ Cardinality(doms(c)) \in Nat
  <2> SUFFICES ASSUME NEW c \in Live PROVE IsFiniteSet(doms(c)) /\ Cardinality(doms(c)) \in Nat
    OBVIOUS
  <2>1. doms(c) \in SUBSET Live
    OBVIOUS
  <2> HIDE DEF doms
  <2> QED BY <1>1, <2>1, FS_Subset, FS_CardinalityType
<1>3. x \in S
  BY DomReflexive
<1>4. X \subseteq Nat /\ X # {}
  <2> HIDE DEF doms
  <2> QED BY <1>2, <1>3
<1>5. PICK n \in X : \A m \in X : n <= m
  <2> HIDE DEF X
  <2> QED BY <1>4, LeastPosition
<1>6. PICK c \in S : n = Cardinality(doms(c))
  <2> HIDE DEF doms
  <2> QED BY <1>5
<1>7. c \in Live /\ a # c /\ Dominates(a, c) /\ Dominates(c, x)
  BY <1>6 DEF StrictlyDominates
<1>8. ASSUME NEW d \in Live \ {c}, Dominates(d, c)
      PROVE  Dominates(d, a)
  <2> SUFFICES ASSUME Dominates(a, d), a # d PROVE FALSE
    BY <1>7, <1>8, DomComparable, DomReflexive
  <2>1. d \in S
    BY <1>7, <1>8, DomTransitive DEF StrictlyDominates
  <2>2. doms(d) \subseteq doms(c)
    BY <1>8, DomTransitive
  <2>3. c \in doms(c)
    BY <1>7, DomReflexive
  <2>4. c \notin doms(d)
    BY <1>7, <1>8, DomAntisymmetric
  <2> HIDE DEF doms
  <2>5. Cardinality(doms(d)) <= Cardinality(doms(c)) /\ Cardinality(doms(d)) # Cardinality(doms(c))
    BY <1>2, <1>7, <2>2, <2>3, <2>4, FS_Subset
  <2>6. n <= Cardinality(doms(d))
    BY <1>5, <2>1
  <2>7. n \in Nat /\ Cardinality(doms(d)) \in Nat
    BY <1>2, <1>6, <1>7, <1>8
  <2> QED BY <1>6, <2>5, <2>6, <2>7
<1>9. c \in Children(a)
  BY <1>7, <1>8 DEF Children
<1> QED BY <1>7, <1>9

-----------------------------------------------------------------------------
(* Clear(b, r) is the least set with b that the predecessors without a chi *)
(* of r keep.                                                              *)
LEMMA ClearIs ==
  ASSUME prog \in Bodies, NEW b \in Live, NEW r
  PROVE  /\ b \in Clear(b, r) /\ Clear(b, r) \subseteq Live
         /\ \A c \in Clear(b, r) : \A p \in Before(c) : DefsIn(p, r) = {} => p \in Clear(b, r)
         /\ \A C : /\ b \in C
                   /\ \A c \in C \cap Clear(b, r) : \A p \in Before(c) : DefsIn(p, r) = {} => p \in C
                   => Clear(b, r) \subseteq C
<1> DEFINE After(B) == B \cup {p \in UNION {Before(c) : c \in B} : DefsIn(p, r) = {}}
           N == [B \in SUBSET Block |-> After(B)]
           P(f) == f = [B \in SUBSET Block |-> LET next == After(B) IN IF next = B THEN B ELSE f[next]]
           A == Clear(b, r)
<1>1. b \in Block /\ {b} \in SUBSET Block /\ IsFiniteSet(Block) /\ \A c : Before(c) \subseteq Live
  BY BodyFacts, LiveFacts DEF Before
<1>2. \A B \in SUBSET Block : N[B] = After(B) /\ After(B) \in SUBSET Block
  <2>1. Live \subseteq Block
    BY LiveFacts
  <2> QED BY <1>1, <2>1
<1>3. Closes(Block, Block, N)
  <2>1. N \in [SUBSET Block -> SUBSET Block]
    <3> HIDE DEF After
    <3> QED BY <1>2
  <2>2. \A B \in SUBSET Block : B \subseteq N[B] /\ N[B] \subseteq B \cup Block
    BY <1>2
  <2>3. ASSUME NEW B \in SUBSET Block, NEW C \in SUBSET Block, B \subseteq C
        PROVE  N[B] \subseteq N[C]
    <3>1. After(B) \subseteq After(C)
      BY <2>3
    <3> QED BY <3>1, <1>2
  <2> QED BY <1>1, <2>1, <2>2, <2>3 DEF Closes
<1>4. \A f : P(f) <=> Repeats(Block, N, f)
  <2> SUFFICES ASSUME NEW f PROVE P(f) <=> Repeats(Block, N, f)
    OBVIOUS
  <2>1. \A B \in SUBSET Block : N[B] = After(B)
    BY <1>2
  <2> HIDE DEF N, After
  <2> QED BY <2>1 DEF Repeats
<1>5. (CHOOSE f : P(f)) = (CHOOSE f : Repeats(Block, N, f))
  <2> HIDE DEF P, N
  <2> QED BY <1>4
<1>6. A = (CHOOSE f : P(f))[{b}]
  BY DEF Clear
<1>7. IsClosure(Block, N, {b}, A)
  <2> HIDE DEF P, N, A
  <2> QED BY <1>1, <1>3, <1>5, <1>6, ChosenCloses
<1>8. A \subseteq Block /\ b \in A /\ After(A) = A
  BY <1>7, <1>2 DEF IsClosure
<1>9. \A c \in A : \A p \in Before(c) : DefsIn(p, r) = {} => p \in A
  BY <1>8
<1>10. ASSUME NEW C, b \in C,
              \A c \in C \cap A : \A p \in Before(c) : DefsIn(p, r) = {} => p \in C
       PROVE  A \subseteq C
  <2> DEFINE D == C \cap A
  <2>1. D \in SUBSET Block /\ {b} \subseteq D
    BY <1>8, <1>10
  <2>2. After(D) \subseteq D
    BY <1>9, <1>10
  <2>3. A \subseteq D
    <3> HIDE DEF D, A, N
    <3> QED BY <2>1, <2>2, <1>2, <1>7 DEF IsClosure
  <2> QED BY <2>3
<1>11. A \subseteq Live
  <2>1. \A c \in Live \cap A : \A p \in Before(c) : DefsIn(p, r) = {} => p \in Live
    BY <1>1
  <2> HIDE DEF A
  <2> QED BY <2>1, <1>10
<1> QED
  <2> HIDE DEF A
  <2>1. A = Clear(b, r)
    BY DEF A
  <2> QED BY <2>1, <1>8, <1>9, <1>10, <1>11

(* Through(r, V) is the least set with V that phis of r keep.              *)
LEMMA ThroughIs ==
  ASSUME NEW r, NEW n \in Nat, NEW V \in SUBSET Nat,
         \A o \in phiOps : o[2] = r => o[4] \in Nat /\ o[4] < n
  PROVE  /\ V \subseteq Through(r, V) /\ Through(r, V) \subseteq Nat
         /\ \A s \in phiRes : \A o \in phiOps :
              s[2] = r /\ o[2] = r /\ s[1] = o[1] /\ s[3] \in Through(r, V) => o[4] \in Through(r, V)
         /\ \A C : /\ V \subseteq C
                   /\ \A s \in phiRes : \A o \in phiOps :
                        s[2] = r /\ o[2] = r /\ s[1] = o[1] /\ s[3] \in C => o[4] \in C
                   => Through(r, V) \subseteq C
<1> DEFINE After(W) == W \cup {o[4] : o \in {p \in phiOps : p[2] = r /\ <<p[1], r>> \in
                              {<<q[1], q[2]>> : q \in {s \in phiRes : s[3] \in W}}}}
           N == [W \in SUBSET Nat |-> After(W)]
           P(f) == f = [W \in SUBSET Nat |-> LET next == After(W) IN IF next = W THEN W ELSE f[next]]
           A == Through(r, V)
           K == 0 .. n
<1>1. K \in SUBSET Nat /\ IsFiniteSet(K)
  BY FS_Interval
<1>2. \A W : \A i : i \in After(W) <=>
        \/ i \in W
        \/ \E s \in phiRes : \E o \in phiOps :
             s[2] = r /\ o[2] = r /\ s[1] = o[1] /\ s[3] \in W /\ i = o[4]
  OBVIOUS
<1>3. \A W \in SUBSET Nat : N[W] = After(W) /\ After(W) \in SUBSET Nat /\ After(W) \subseteq W \cup K
  <2> SUFFICES ASSUME NEW W \in SUBSET Nat, NEW i \in After(W)
               PROVE  i \in W \cup K /\ i \in Nat
    BY <1>1
  <2>1. CASE i \in W
    BY <2>1
  <2>2. CASE \E o \in phiOps : o[2] = r /\ i = o[4]
    BY <2>2
  <2> HIDE DEF After
  <2>3. i \in W \/ \E o \in phiOps : o[2] = r /\ i = o[4]
    BY <1>2
  <2> QED BY <2>1, <2>2, <2>3
<1>4. Closes(Nat, K, N)
  <2>1. N \in [SUBSET Nat -> SUBSET Nat]
    <3> HIDE DEF After
    <3> QED BY <1>3
  <2>2. \A W \in SUBSET Nat : W \subseteq N[W] /\ N[W] \subseteq W \cup K
    <3> HIDE DEF After, N, K
    <3> QED BY <1>2, <1>3
  <2>3. ASSUME NEW W \in SUBSET Nat, NEW C \in SUBSET Nat, W \subseteq C
        PROVE  N[W] \subseteq N[C]
    <3> HIDE DEF After, N, K
    <3>1. ASSUME NEW i \in After(W)
          PROVE  i \in After(C)
      <4>1. CASE i \in W
        BY <4>1, <1>2, <2>3
      <4>2. CASE \E s \in phiRes : \E o \in phiOps :
                   s[2] = r /\ o[2] = r /\ s[1] = o[1] /\ s[3] \in W /\ i = o[4]
        <5>1. PICK s \in phiRes, o \in phiOps :
                s[2] = r /\ o[2] = r /\ s[1] = o[1] /\ s[3] \in W /\ i = o[4]
          BY <4>2
        <5>2. s[3] \in C
          BY <5>1, <2>3
        <5> QED BY <5>1, <5>2, <1>2
      <4> QED BY <4>1, <4>2, <1>2
    <3> QED BY <3>1, <1>3
  <2> HIDE DEF K, N
  <2> QED BY <1>1, <2>1, <2>2, <2>3 DEF Closes
<1>5. \A f : P(f) <=> Repeats(Nat, N, f)
  <2> SUFFICES ASSUME NEW f PROVE P(f) <=> Repeats(Nat, N, f)
    OBVIOUS
  <2>1. \A W \in SUBSET Nat : N[W] = After(W)
    BY <1>3
  <2> HIDE DEF N, After
  <2> QED BY <2>1 DEF Repeats
<1>6. (CHOOSE f : P(f)) = (CHOOSE f : Repeats(Nat, N, f))
  <2> HIDE DEF P, N
  <2> QED BY <1>5
<1>7. A = (CHOOSE f : P(f))[V]
  BY DEF Through
<1>8. IsClosure(Nat, N, V, A)
  <2> HIDE DEF P, N, A, K
  <2> QED BY <1>4, <1>6, <1>7, ChosenCloses
<1>9. A \subseteq Nat /\ V \subseteq A /\ After(A) = A
  <2> HIDE DEF A, After, N
  <2> QED BY <1>8, <1>3 DEF IsClosure
<1>10. \A s \in phiRes : \A o \in phiOps :
         s[2] = r /\ o[2] = r /\ s[1] = o[1] /\ s[3] \in A => o[4] \in A
  <2> HIDE DEF A, After
  <2> QED BY <1>2, <1>9
<1>11. ASSUME NEW C, V \subseteq C,
              \A s \in phiRes : \A o \in phiOps :
                s[2] = r /\ o[2] = r /\ s[1] = o[1] /\ s[3] \in C => o[4] \in C
       PROVE  A \subseteq C
  <2> DEFINE D == C \cap A
  <2>1. D \in SUBSET Nat /\ V \subseteq D
    BY <1>9, <1>11
  <2>2. After(D) \subseteq D
    <3> SUFFICES ASSUME NEW i \in After(D), i \notin D PROVE FALSE
      OBVIOUS
    <3>1. PICK s \in phiRes, o \in phiOps : s[2] = r /\ o[2] = r /\ s[1] = o[1] /\ s[3] \in D /\ i = o[4]
      <4> HIDE DEF A, After, D
      <4> QED BY <1>2
    <3> HIDE DEF A, After
    <3> QED BY <3>1, <1>10, <1>11
  <2>3. A \subseteq D
    <3> HIDE DEF D, A, N, After
    <3> QED BY <2>1, <2>2, <1>3, <1>8 DEF IsClosure
  <2> QED BY <2>3
<1> QED
  <2> HIDE DEF A
  <2>1. A = Through(r, V)
    BY DEF A
  <2> QED BY <2>1, <1>9, <1>10, <1>11

-----------------------------------------------------------------------------
(* Definitions.                                                            *)
LEMMA GreatestPosition ==
  ASSUME NEW n \in Nat, NEW X, X \subseteq 0 .. n, X # {}
  PROVE  \E i \in X : \A j \in X : j <= i
<1> DEFINE Y == {n - x : x \in X}
<1>1. \A x \in X : x \in Nat /\ n - x \in Nat
  OBVIOUS
<1>2. Y \subseteq Nat /\ Y # {}
  BY <1>1
<1>3. PICK y \in Y : \A z \in Y : y <= z
  <2> HIDE DEF Y
  <2> QED BY <1>2, LeastPosition
<1>4. PICK i \in X : y = n - i
  BY <1>3
<1>5. ASSUME NEW j \in X
      PROVE  j <= i
  <2>1. n - j \in Y
    OBVIOUS
  <2>2. n - i <= n - j
    BY <2>1, <1>3, <1>4
  <2> QED BY <2>2, <1>1
<1> QED BY <1>5

LEMMA DefFacts ==
  ASSUME prog \in Bodies, NEW b \in Live, NEW r
  PROVE  /\ EndOfBlock(b) \in Nat /\ EndOfBlock(b) > 0
         /\ DOMAIN prog.code[b] = 1 .. EndOfBlock(b) - 1
         /\ \A i \in DefsIn(b, r) : i \in Nat /\ 0 < i /\ i < EndOfBlock(b)
         /\ r \in Defined(b) <=> DefsIn(b, r) # {}
<1>1. prog.code[b] \in Seq([mu : SUBSET Region, chi : SUBSET Region])
  BY BodyFacts, LiveFacts
<1>2. Len(prog.code[b]) \in Nat /\ DOMAIN prog.code[b] = 1 .. Len(prog.code[b])
  BY <1>1
<1>3. EndOfBlock(b) = Len(prog.code[b]) + 1
  BY DEF EndOfBlock
<1>4. \A i \in DefsIn(b, r) : i \in 1 .. Len(prog.code[b])
  BY <1>2 DEF DefsIn
<1>5. r \in Defined(b) <=> DefsIn(b, r) # {}
  BY DEF Defined, DefsIn
<1> QED BY <1>2, <1>3, <1>4, <1>5

LEMMA LastInIs ==
  ASSUME prog \in Bodies, NEW b \in Live, NEW r, NEW D, D \subseteq DefsIn(b, r), D # {}
  PROVE  LastIn(D) \in D /\ \A j \in D : j <= LastIn(D)
<1>1. EndOfBlock(b) \in Nat /\ D \subseteq 0 .. EndOfBlock(b)
  BY DefFacts
<1>2. \E i \in D : \A j \in D : j <= i
  BY <1>1, GreatestPosition
<1> QED BY <1>2 DEF LastIn

(* Definitions of r reach the start of b from the end of the blocks before *)
(* those it is clear back to.                                              *)
LEMMA ReachStart ==
  ASSUME prog \in Bodies, NEW b \in Live, NEW r, NEW d
  PROVE  d \in ReachingDefs(b, 1, r) <=>
           \/ \E c \in Clear(b, r) : \E p \in Before(c) :
                DefsIn(p, r) # {} /\ d = <<p, LastIn(DefsIn(p, r))>>
           \/ prog.entry \in Clear(b, r) /\ d = <<prog.entry, 0>>
<1>1. {j \in DefsIn(b, r) : j < 1} = {}
  BY DefFacts
<1> QED BY <1>1 DEF ReachingDefs

LEMMA ReachWithin ==
  ASSUME prog \in Bodies, NEW b \in Live, NEW r, NEW i
  PROVE  /\ {j \in DefsIn(b, r) : j < i} = {} => ReachingDefs(b, i, r) = ReachingDefs(b, 1, r)
         /\ {j \in DefsIn(b, r) : j < i} # {} =>
              ReachingDefs(b, i, r) = {<<b, LastIn({j \in DefsIn(b, r) : j < i})>>}
<1>1. {j \in DefsIn(b, r) : j < 1} = {}
  BY DefFacts
<1>2. ASSUME {j \in DefsIn(b, r) : j < i} = {}
      PROVE  ReachingDefs(b, i, r) = ReachingDefs(b, 1, r)
  BY <1>1, <1>2, Zenon DEF ReachingDefs
<1>3. ASSUME {j \in DefsIn(b, r) : j < i} # {}
      PROVE  ReachingDefs(b, i, r) = {<<b, LastIn({j \in DefsIn(b, r) : j < i})>>}
  BY <1>3, Zenon DEF ReachingDefs
<1> QED BY <1>2, <1>3

LEMMA ReachEnd ==
  ASSUME prog \in Bodies, NEW b \in Live, NEW r
  PROVE  /\ DefsIn(b, r) = {} => ReachingDefs(b, EndOfBlock(b), r) = ReachingDefs(b, 1, r)
         /\ DefsIn(b, r) # {} =>
              ReachingDefs(b, EndOfBlock(b), r) = {<<b, LastIn(DefsIn(b, r))>>}
<1>1. {j \in DefsIn(b, r) : j < EndOfBlock(b)} = DefsIn(b, r)
  BY DefFacts
<1> QED BY <1>1, ReachWithin

LEMMA ClearThrough ==
  ASSUME prog \in Bodies, NEW b \in Live, NEW r, NEW c \in Clear(b, r)
  PROVE  Clear(c, r) \subseteq Clear(b, r)
<1>1. c \in Live
  BY ClearIs
<1>2. \A x \in Clear(b, r) \cap Clear(c, r) : \A p \in Before(x) : DefsIn(p, r) = {} => p \in Clear(b, r)
  BY ClearIs
<1> QED BY <1>1, <1>2, ClearIs

LEMMA ReachClear ==
  ASSUME prog \in Bodies, NEW b \in Live, NEW r, NEW c \in Clear(b, r)
  PROVE  ReachingDefs(c, 1, r) \subseteq ReachingDefs(b, 1, r)
<1> SUFFICES ASSUME NEW d \in ReachingDefs(c, 1, r) PROVE d \in ReachingDefs(b, 1, r)
  OBVIOUS
<1>1. c \in Live /\ Clear(c, r) \subseteq Clear(b, r)
  BY ClearIs, ClearThrough
<1>2. CASE \E x \in Clear(c, r) : \E p \in Before(x) :
             DefsIn(p, r) # {} /\ d = <<p, LastIn(DefsIn(p, r))>>
  <2>1. \E x \in Clear(b, r) : \E p \in Before(x) :
          DefsIn(p, r) # {} /\ d = <<p, LastIn(DefsIn(p, r))>>
    BY <1>1, <1>2
  <2> QED BY <2>1, ReachStart
<1>3. CASE prog.entry \in Clear(c, r) /\ d = <<prog.entry, 0>>
  BY <1>1, <1>3, ReachStart
<1> QED BY <1>1, <1>2, <1>3, ReachStart

(* What reaches the end of a block reaches the start of the next.          *)
LEMMA ReachNext ==
  ASSUME prog \in Bodies, NEW b \in Live, NEW p \in Before(b), NEW r
  PROVE  ReachingDefs(p, EndOfBlock(p), r) \subseteq ReachingDefs(b, 1, r)
<1>1. p \in Live /\ b \in Clear(b, r)
  BY ClearIs DEF Before
<1>2. CASE DefsIn(p, r) = {}
  <2>1. p \in Clear(b, r)
    BY <1>1, <1>2, ClearIs
  <2> QED BY <2>1, <1>1, <1>2, ReachClear, ReachEnd
<1>3. CASE DefsIn(p, r) # {}
  <2>1. <<p, LastIn(DefsIn(p, r))>> \in ReachingDefs(b, 1, r)
    BY <1>1, <1>3, ReachStart
  <2> QED BY <2>1, <1>1, <1>3, ReachEnd
<1> QED BY <1>2, <1>3

(* A chi that reaches the end of a block also does, if only by another     *)
(* chi, the end of every block dominated.                                  *)
LEMMA ChiAtEnd ==
  ASSUME prog \in Bodies, NEW b \in Live, NEW r,
         r \in Defined(b) \/ ChiReaches(b, 1, r)
  PROVE  ChiReaches(b, EndOfBlock(b), r)
<1>1. CASE DefsIn(b, r) = {}
  <2>1. ReachingDefs(b, EndOfBlock(b), r) = ReachingDefs(b, 1, r)
    BY <1>1, ReachEnd
  <2>2. ChiReaches(b, 1, r)
    BY <1>1, DefFacts
  <2> QED BY <2>1, <2>2 DEF ChiReaches
<1>2. CASE DefsIn(b, r) # {}
  <2>1. ReachingDefs(b, EndOfBlock(b), r) = {<<b, LastIn(DefsIn(b, r))>>}
    BY <1>2, ReachEnd
  <2>2. LastIn(DefsIn(b, r)) \in DefsIn(b, r)
    BY <1>2, LastInIs
  <2>3. LastIn(DefsIn(b, r)) # 0
    BY <2>2, DefFacts
  <2> QED BY <2>1, <2>3 DEF ChiReaches
<1> QED BY <1>1, <1>2

LEMMA ChiReachesOn ==
  ASSUME prog \in Bodies, NEW a \in Live, NEW r, ChiReaches(a, EndOfBlock(a), r),
         NEW b \in Live, Dominates(a, b)
  PROVE  ChiReaches(b, EndOfBlock(b), r)
<1> DEFINE C == {x \in Live : Dominates(a, x) => ChiReaches(x, EndOfBlock(x), r)}
<1>1. prog.entry \in C
  <2> SUFFICES ASSUME Dominates(a, prog.entry) PROVE ChiReaches(prog.entry, EndOfBlock(prog.entry), r)
    BY LiveFacts
  <2>1. a = prog.entry
    BY DomEntry, DomAntisymmetric
  <2> QED BY <2>1
<1>2. ASSUME NEW x \in C \cap Live, NEW y \in prog.succ[x]
      PROVE  y \in C
  <2>1. y \in Live /\ x \in Before(y)
    BY LiveFacts DEF Before
  <2> SUFFICES ASSUME Dominates(a, y), y # a PROVE ChiReaches(y, EndOfBlock(y), r)
    BY <2>1
  <2>2. Dominates(a, x)
    BY DomBefore DEF StrictlyDominates
  <2>3. ChiReaches(x, EndOfBlock(x), r)
    BY <2>2
  <2>4. ChiReaches(y, 1, r)
    BY <2>1, <2>3, ReachNext DEF ChiReaches
  <2> QED BY <2>1, <2>4, ChiAtEnd
<1>3. Live \subseteq C
  <2> HIDE DEF C
  <2> QED BY <1>1, <1>2, LiveFacts
<1> QED BY <1>3

-----------------------------------------------------------------------------
(* Points that define a region, and versions that arrive.                  *)
LEMMA PointFacts ==
  ASSUME prog \in Bodies, NEW b \in Live, NEW r
  PROVE  /\ \A j \in DefPoints(b, r) : j \in Nat /\ j < EndOfBlock(b)
         /\ 0 \in DefPoints(b, r) <=> <<b, r>> \in phis
         /\ \A j : j \in DefPoints(b, r) /\ j # 0 <=> j \in DefsIn(b, r)
         /\ DefPoints(b, r) # {} <=> HasDef(b, r)
<1>1. \A i \in DefsIn(b, r) : i \in Nat /\ i # 0 /\ i < EndOfBlock(b)
  BY DefFacts
<1>2. EndOfBlock(b) \in Nat /\ EndOfBlock(b) > 0 /\ (r \in Defined(b) <=> DefsIn(b, r) # {})
  BY DefFacts
<1> QED BY <1>1, <1>2 DEF DefPoints, HasDef

NoneAbove(b, r) == \A x \in Live : StrictlyDominates(x, b) => DefPoints(x, r) = {}

FrontiersDone ==
  \A b \in Live, r \in Region : HasDef(b, r) => \A c \in Frontier(b) : <<c, r>> \in phis

(* A block without a phi gets nothing from a predecessor that it does not  *)
(* inherit.                                                                *)
LEMMA AboveOfBefore ==
  ASSUME prog \in Bodies, FrontiersDone, NEW r \in Region, NEW b \in Live, <<b, r>> \notin phis,
         NEW p \in Before(b), NEW x \in Live, Dominates(x, p), DefPoints(x, r) # {}
  PROVE  StrictlyDominates(x, b)
<1> SUFFICES ASSUME x = b \/ ~ Dominates(x, b) PROVE FALSE
  BY DEF StrictlyDominates
<1>1. p \in Live /\ b \in prog.succ[p]
  BY DEF Before
<1>2. b \in Frontier(x)
  BY <1>1 DEF Frontier
<1>3. HasDef(x, r)
  BY PointFacts
<1> QED BY <1>2, <1>3 DEF FrontiersDone

LEMMA MadeAboveBefore ==
  ASSUME prog \in Bodies, FrontiersDone, NEW r \in Region, NEW b \in Live, <<b, r>> \notin phis,
         NEW p \in Before(b), NEW v, NEW c \in Live, MadeAbove(c, b, r, v), p # c
  PROVE  MadeAbove(c, p, r, v) /\ DefPoints(p, r) = {}
<1>1. p \in Live /\ b \in prog.succ[p]
  BY DEF Before
<1>2. StrictlyDominates(c, b) /\ MadeBefore(c, EndOfBlock(c), r, v)
  BY DEF MadeAbove
<1>3. \A x \in Live : StrictlyDominates(c, x) /\ StrictlyDominates(x, b) => DefPoints(x, r) = {}
  BY DEF MadeAbove
<1>4. StrictlyDominates(c, p)
  BY <1>1, <1>2, DomBefore DEF StrictlyDominates
<1>5. ASSUME NEW x \in Live, StrictlyDominates(c, x), Dominates(x, p)
      PROVE  DefPoints(x, r) = {}
  BY <1>3, <1>5, AboveOfBefore
<1>6. Dominates(p, p)
  BY DomReflexive
<1>7. DefPoints(p, r) = {}
  BY <1>1, <1>4, <1>5, <1>6
<1>8. \A x \in Live : StrictlyDominates(c, x) /\ StrictlyDominates(x, p) => DefPoints(x, r) = {}
  BY <1>5 DEF StrictlyDominates
<1> QED BY <1>2, <1>4, <1>7, <1>8 DEF MadeAbove

LEMMA NoneAboveBefore ==
  ASSUME prog \in Bodies, FrontiersDone, NEW r \in Region, NEW b \in Live, <<b, r>> \notin phis,
         NEW p \in Before(b), NoneAbove(b, r)
  PROVE  NoneAbove(p, r) /\ DefPoints(p, r) = {}
<1>1. p \in Live
  BY DEF Before
<1>2. ASSUME NEW x \in Live, Dominates(x, p)
      PROVE  DefPoints(x, r) = {}
  BY <1>2, AboveOfBefore DEF NoneAbove
<1>3. DefPoints(p, r) = {}
  BY <1>1, <1>2, DomReflexive
<1> QED BY <1>2, <1>3 DEF NoneAbove, StrictlyDominates

LEMMA NothingAboveEntry ==
  ASSUME prog \in Bodies, NEW c \in Live
  PROVE  ~ StrictlyDominates(c, prog.entry)
BY DomEntry, DomAntisymmetric DEF StrictlyDominates

(* The version at the end of a block is what its children inherit, and     *)
(* without a phi what it inherits is what its predecessors end with.       *)
LEMMA EndToChild ==
  ASSUME prog \in Bodies, NEW a \in Live, NEW b \in Children(a), NEW r, NEW v,
         Arrives(a, EndOfBlock(a) + 1, r, v)
  PROVE  Inherits(b, r, v)
<1>1. b \in Live /\ StrictlyDominates(a, b)
  BY DEF Children, StrictlyDominates
<1>2. \A x \in Live : StrictlyDominates(x, b) => Dominates(x, a)
  BY DEF Children, StrictlyDominates
<1>3. EndOfBlock(a) \in Nat /\ \A j \in DefPoints(a, r) : j \in Nat /\ j < EndOfBlock(a)
  BY PointFacts, DefFacts
<1>4. CASE MadeBefore(a, EndOfBlock(a) + 1, r, v)
  <2>1. PICK j \in DefPoints(a, r) :
          /\ \A k \in DefPoints(a, r) : k < EndOfBlock(a) + 1 => k <= j
          /\ <<a, j, r, v>> \in Made
    BY <1>4 DEF MadeBefore
  <2>2. \A k \in DefPoints(a, r) : k <= j
    BY <1>3, <2>1
  <2>3. MadeBefore(a, EndOfBlock(a), r, v)
    BY <1>3, <2>1, <2>2 DEF MadeBefore
  <2>4. \A x \in Live : ~(StrictlyDominates(a, x) /\ StrictlyDominates(x, b))
    BY <1>2, DomAntisymmetric DEF StrictlyDominates
  <2>5. MadeAbove(a, b, r, v)
    BY <1>1, <2>3, <2>4 DEF MadeAbove
  <2> QED BY <2>5 DEF Inherits
<1>5. CASE (\A j \in DefPoints(a, r) : ~(j < EndOfBlock(a) + 1)) /\ Inherits(a, r, v)
  <2>1. DefPoints(a, r) = {}
    BY <1>3, <1>5
  <2>2. ASSUME NEW x \in Live, StrictlyDominates(x, b)
        PROVE  x = a \/ StrictlyDominates(x, a)
    BY <1>2, <2>2 DEF StrictlyDominates
  <2>3. ASSUME NEW c \in Live, MadeAbove(c, a, r, v)
        PROVE  MadeAbove(c, b, r, v)
    <3>1. StrictlyDominates(c, a) /\ MadeBefore(c, EndOfBlock(c), r, v)
      BY <2>3 DEF MadeAbove
    <3>2. \A x \in Live : StrictlyDominates(c, x) /\ StrictlyDominates(x, a) => DefPoints(x, r) = {}
      BY <2>3 DEF MadeAbove
    <3>3. Dominates(c, b)
      BY <1>1, <3>1, DomTransitive DEF StrictlyDominates
    <3>4. c # b
      BY <1>1, <3>1, DomAntisymmetric DEF StrictlyDominates
    <3>5. \A x \in Live : StrictlyDominates(c, x) /\ StrictlyDominates(x, b) => DefPoints(x, r) = {}
      BY <2>1, <2>2, <3>2
    <3>6. StrictlyDominates(c, b)
      BY <3>3, <3>4 DEF StrictlyDominates
    <3> QED BY <3>1, <3>5, <3>6 DEF MadeAbove
  <2>4. ASSUME v = 1, NoneAbove(a, r)
        PROVE  NoneAbove(b, r)
    BY <2>1, <2>2, <2>4 DEF NoneAbove
  <2> QED BY <1>5, <2>3, <2>4 DEF Inherits, NoneAbove
<1> QED BY <1>4, <1>5 DEF Arrives

LEMMA EndOfBefore ==
  ASSUME prog \in Bodies, FrontiersDone, NEW r \in Region, NEW b \in Live, <<b, r>> \notin phis,
         NEW p \in Before(b), NEW v, Inherits(b, r, v)
  PROVE  Arrives(p, EndOfBlock(p), r, v)
<1>1. CASE \E c \in Live : MadeAbove(c, b, r, v)
  <2>1. PICK c \in Live : MadeAbove(c, b, r, v)
    BY <1>1
  <2>2. CASE p = c
    BY <2>1, <2>2 DEF MadeAbove, Arrives
  <2>3. CASE p # c
    <3>1. MadeAbove(c, p, r, v) /\ DefPoints(p, r) = {}
      BY <2>1, <2>3, MadeAboveBefore
    <3> QED BY <3>1 DEF Arrives, Inherits
  <2> QED BY <2>2, <2>3
<1>2. CASE v = 1 /\ NoneAbove(b, r)
  <2>1. NoneAbove(p, r) /\ DefPoints(p, r) = {}
    BY <1>2, NoneAboveBefore
  <2> QED BY <1>2, <2>1 DEF Arrives, Inherits, NoneAbove
<1> QED BY <1>1, <1>2 DEF Inherits, NoneAbove

-----------------------------------------------------------------------------
(* When versions arrive, what they were made from reaches.                 *)
LEMMA MadeAboveReaches ==
  ASSUME prog \in Bodies, FrontiersDone, NEW r \in Region, NEW b \in Live, <<b, r>> \notin phis,
         NEW v, NEW c \in Live, MadeAbove(c, b, r, v)
  PROVE  \E y \in Clear(b, r) : c \in Before(y)
<1> SUFFICES ASSUME \A y \in Clear(b, r) : c \notin Before(y) PROVE FALSE
  OBVIOUS
<1> DEFINE D == {y \in Live : MadeAbove(c, y, r, v) /\ <<y, r>> \notin phis}
           C == Live \ Clear(b, r)
<1>1. ASSUME NEW y \in D, y \in Clear(b, r), NEW p \in Before(y)
      PROVE  p \in D /\ DefsIn(p, r) = {}
  <2>1. p # c /\ p \in Live
    BY <1>1 DEF Before
  <2>2. MadeAbove(c, p, r, v) /\ DefPoints(p, r) = {}
    BY <2>1, MadeAboveBefore
  <2> QED BY <2>1, <2>2 DEF DefPoints
<1>2. Clear(b, r) \subseteq D
  <2>1. \A y \in D \cap Clear(b, r) : \A p \in Before(y) : DefsIn(p, r) = {} => p \in D
    BY <1>1
  <2>2. b \in D
    OBVIOUS
  <2> HIDE DEF D
  <2> QED BY <2>1, <2>2, ClearIs
<1>3. prog.entry \in C
  BY <1>2, NothingAboveEntry, LiveFacts DEF MadeAbove
<1>4. ASSUME NEW x \in C \cap Live, NEW y \in prog.succ[x]
      PROVE  y \in C
  <2>1. y \in Live /\ x \in Before(y)
    BY LiveFacts DEF Before
  <2> SUFFICES ASSUME y \in Clear(b, r) PROVE FALSE
    BY <2>1
  <2>2. DefsIn(x, r) = {}
    BY <1>1, <1>2, <2>1
  <2> QED BY <2>1, <2>2, ClearIs
<1>5. Live \subseteq C
  <2> HIDE DEF C
  <2> QED BY <1>3, <1>4, LiveFacts
<1> QED BY <1>5, ClearIs

LEMMA NoneAboveReaches ==
  ASSUME prog \in Bodies, FrontiersDone, NEW r \in Region, NEW b \in Live, <<b, r>> \notin phis,
         NoneAbove(b, r)
  PROVE  prog.entry \in Clear(b, r)
<1> SUFFICES ASSUME prog.entry \notin Clear(b, r) PROVE FALSE
  OBVIOUS
<1> DEFINE D == {y \in Live : NoneAbove(y, r) /\ <<y, r>> \notin phis}
           C == Live \ Clear(b, r)
<1>1. ASSUME NEW y \in D, NEW p \in Before(y)
      PROVE  p \in D /\ DefsIn(p, r) = {}
  <2>1. p \in Live
    BY DEF Before
  <2>2. NoneAbove(p, r) /\ DefPoints(p, r) = {}
    BY NoneAboveBefore
  <2> QED BY <2>1, <2>2 DEF DefPoints
<1>2. Clear(b, r) \subseteq D
  <2>1. \A y \in D \cap Clear(b, r) : \A p \in Before(y) : DefsIn(p, r) = {} => p \in D
    BY <1>1
  <2>2. b \in D
    OBVIOUS
  <2> HIDE DEF D
  <2> QED BY <2>1, <2>2, ClearIs
<1>3. prog.entry \in C
  BY LiveFacts
<1>4. ASSUME NEW x \in C \cap Live, NEW y \in prog.succ[x]
      PROVE  y \in C
  <2>1. y \in Live /\ x \in Before(y)
    BY LiveFacts DEF Before
  <2> SUFFICES ASSUME y \in Clear(b, r) PROVE FALSE
    BY <2>1
  <2>2. DefsIn(x, r) = {}
    BY <1>1, <1>2, <2>1
  <2> QED BY <2>1, <2>2, ClearIs
<1>5. Live \subseteq C
  <2> HIDE DEF C
  <2> QED BY <1>3, <1>4, LiveFacts
<1> QED BY <1>5, ClearIs

(* The definitions a version was made from are in X.                       *)
MadeFrom(r, v, X) ==
  /\ v = 1 => <<prog.entry, 0>> \in X
  /\ \A m \in Made : m[3] = r /\ m[4] = v =>
       IF m[2] = 0 THEN ReachingDefs(m[1], 1, r) \subseteq X ELSE <<m[1], m[2]>> \in X

Points(b) == 1 .. EndOfBlock(b)

LEMMA ArrivesFrom ==
  ASSUME prog \in Bodies, FrontiersDone, WritesInv, NEW r \in Region, NEW b \in Live,
         NEW i \in Points(b), NEW v, Arrives(b, i, r, v)
  PROVE  MadeFrom(r, v, ReachingDefs(b, i, r))
<1> DEFINE own == {j \in DefsIn(b, r) : j < i}
<1>1. i \in Nat /\ 0 < i
  BY DefFacts DEF Points
<1>2. ASSUME NEW c \in Live, NEW j, <<c, j, r, v>> \in Made,
             IF j = 0 THEN ReachingDefs(c, 1, r) \subseteq ReachingDefs(b, i, r)
             ELSE <<c, j>> \in ReachingDefs(b, i, r)
      PROVE  MadeFrom(r, v, ReachingDefs(b, i, r))
  <2>1. v # 1
    BY <1>2 DEF WritesInv, IsWrite, IsMade
  <2>2. ASSUME NEW m \in Made, m[3] = r, m[4] = v
        PROVE  m = <<c, j, r, v>>
    BY <1>2, <2>2 DEF WritesInv, IsWrite, IsMade
  <2> QED BY <1>2, <2>1, <2>2 DEF MadeFrom
<1>3. CASE MadeBefore(b, i, r, v)
  <2>1. PICK j \in DefPoints(b, r) :
          j < i /\ (\A k \in DefPoints(b, r) : k < i => k <= j) /\ <<b, j, r, v>> \in Made
    BY <1>3 DEF MadeBefore
  <2>2. CASE j = 0
    <3>1. own = {}
      <4> SUFFICES ASSUME NEW k \in own PROVE FALSE
        OBVIOUS
      <4>1. k \in DefPoints(b, r) /\ k \in Nat /\ k # 0 /\ k < i
        BY DefFacts DEF DefPoints
      <4> QED BY <2>1, <2>2, <4>1
    <3>2. ReachingDefs(b, i, r) = ReachingDefs(b, 1, r)
      BY <3>1, ReachWithin
    <3> QED BY <2>1, <2>2, <3>2, <1>2
  <2>3. CASE j # 0
    <3>1. j \in own /\ own \subseteq DefsIn(b, r)
      BY <2>1, <2>3, PointFacts
    <3>2. LastIn(own) \in own /\ \A k \in own : k <= LastIn(own)
      <4> HIDE DEF own
      <4> QED BY <3>1, LastInIs
    <3>3. LastIn(own) = j
      <4>1. LastIn(own) \in DefPoints(b, r) /\ LastIn(own) \in Nat /\ j \in Nat /\ LastIn(own) < i
        BY <3>1, <3>2, DefFacts DEF DefPoints
      <4>2. LastIn(own) <= j /\ j <= LastIn(own)
        <5> HIDE DEF own
        <5> QED BY <2>1, <3>1, <3>2, <4>1
      <4> QED BY <4>1, <4>2
    <3>4. ReachingDefs(b, i, r) = {<<b, LastIn(own)>>}
      BY <3>1, ReachWithin
    <3> HIDE DEF own
    <3>5. <<b, j>> \in ReachingDefs(b, i, r)
      BY <3>3, <3>4
    <3> QED BY <2>1, <2>3, <3>5, <1>2
  <2> QED BY <2>2, <2>3
<1>4. CASE (\A j \in DefPoints(b, r) : ~(j < i)) /\ Inherits(b, r, v)
  <2>1. own = {}
    BY <1>4 DEF DefPoints
  <2>2. ReachingDefs(b, i, r) = ReachingDefs(b, 1, r)
    BY <2>1, ReachWithin
  <2>3. <<b, r>> \notin phis
    BY <1>1, <1>4, PointFacts
  <2>4. ASSUME NEW c \in Live, MadeAbove(c, b, r, v)
        PROVE  MadeFrom(r, v, ReachingDefs(b, i, r))
    <3>1. PICK y \in Clear(b, r) : c \in Before(y)
      BY <2>3, <2>4, MadeAboveReaches
    <3>2. PICK j \in DefPoints(c, r) :
            /\ \A k \in DefPoints(c, r) : k < EndOfBlock(c) => k <= j
            /\ <<c, j, r, v>> \in Made
      BY <2>4 DEF MadeAbove, MadeBefore
    <3>3. \A k \in DefPoints(c, r) : k \in Nat /\ k <= j
      BY <3>2, PointFacts
    <3>4. CASE j = 0
      <4>1. DefsIn(c, r) = {}
        <5> SUFFICES ASSUME NEW k \in DefsIn(c, r) PROVE FALSE
          OBVIOUS
        <5>1. k \in DefPoints(c, r) /\ k # 0
          BY PointFacts
        <5> QED BY <3>3, <3>4, <5>1
      <4>2. c \in Clear(b, r)
        BY <3>1, <4>1, ClearIs
      <4>3. ReachingDefs(c, 1, r) \subseteq ReachingDefs(b, i, r)
        BY <2>2, <4>2, ReachClear
      <4> QED BY <3>2, <3>4, <4>3, <1>2
    <3>5. CASE j # 0
      <4>1. j \in DefsIn(c, r)
        BY <3>2, <3>5, PointFacts
      <4>2. LastIn(DefsIn(c, r)) \in DefsIn(c, r) /\ j <= LastIn(DefsIn(c, r))
        BY <4>1, LastInIs
      <4>3. LastIn(DefsIn(c, r)) \in DefPoints(c, r)
        BY <4>2, PointFacts
      <4>4. j = LastIn(DefsIn(c, r))
        BY <3>2, <3>3, <4>2, <4>3
      <4>5. <<c, j>> \in ReachingDefs(b, i, r)
        BY <2>2, <3>1, <4>1, <4>4, ReachStart
      <4> QED BY <3>2, <3>5, <4>5, <1>2
    <3> QED BY <3>4, <3>5
  <2>5. ASSUME v = 1, NoneAbove(b, r)
        PROVE  MadeFrom(r, v, ReachingDefs(b, i, r))
    <3>1. prog.entry \in Clear(b, r)
      BY <2>3, <2>5, NoneAboveReaches
    <3>2. <<prog.entry, 0>> \in ReachingDefs(b, i, r)
      BY <2>2, <3>1, ReachStart
    <3>3. \A m \in Made : m[4] # v
      BY <2>5 DEF WritesInv, IsWrite, IsMade
    <3> QED BY <3>2, <3>3 DEF MadeFrom
  <2> QED BY <1>4, <2>4, <2>5 DEF Inherits, NoneAbove
<1> QED BY <1>3, <1>4 DEF Arrives

-----------------------------------------------------------------------------
(* Every region a block reads or writes is used there.                     *)
LEMMA UsedFacts ==
  ASSUME prog \in Bodies, NEW b \in Live
  PROVE  /\ Used(b) \subseteq Region
         /\ \A i \in DOMAIN prog.code[b] : prog.code[b][i].mu \cup prog.code[b][i].chi \subseteq Used(b)
<1> DEFINE body == prog.code[b]
<1>1. /\ DOMAIN body = 1 .. EndOfBlock(b) - 1 /\ EndOfBlock(b) \in Nat
      /\ \A i \in DOMAIN body : body[i].mu \subseteq Region /\ body[i].chi \subseteq Region
  <2>1. body \in Seq([mu : SUBSET Region, chi : SUBSET Region])
    BY BodyFacts, LiveFacts
  <2>2. \A i \in DOMAIN body : body[i] \in [mu : SUBSET Region, chi : SUBSET Region]
    <3>1. DOMAIN body = 1 .. Len(body)
      BY <2>1
    <3> HIDE DEF body
    <3> QED BY <2>1, <3>1, ElementOfSeq
  <2> QED BY <2>2, DefFacts
<1>2. \A r : r \in Used(b) <=>
        \E i \in DOMAIN body : r \in body[i].mu \cup body[i].chi /\ \A j \in 1 .. (i - 1) : r \notin body[j].chi
  BY DEF Used
<1> HIDE DEF body
<1>3. ASSUME NEW i \in DOMAIN body, NEW r \in body[i].mu \cup body[i].chi
      PROVE  r \in Used(b)
  <2> DEFINE X == {k \in DOMAIN body : r \in body[k].mu \cup body[k].chi}
  <2>1. X \subseteq Nat /\ X # {}
    BY <1>1, <1>3
  <2>2. PICK k \in X : \A j \in X : k <= j
    <3> HIDE DEF X
    <3> QED BY <2>1, LeastPosition
  <2>3. ASSUME NEW j \in 1 .. (k - 1)
        PROVE  r \notin body[j].chi
    <3>1. j \in DOMAIN body /\ ~(k <= j)
      BY <1>1, <2>2
    <3> QED BY <3>1, <2>2
  <2> QED BY <1>2, <2>2, <2>3
<1>4. Used(b) \subseteq Region
  BY <1>1, <1>2
<1> QED BY <1>3, <1>4 DEF body

LEMMA RegionFacts ==
  ASSUME prog \in Bodies, PlacingInv
  PROVE  /\ usedRegs \subseteq Region
         /\ pass # "collect" =>
              /\ \A b \in Live : \A i \in DOMAIN prog.code[b] :
                   prog.code[b][i].mu \cup prog.code[b][i].chi \subseteq usedRegs
              /\ \A b \in Live : \A r : HasDef(b, r) => r \in usedRegs
<1>1. CASE pass = "collect"
  BY <1>1 DEF PlacingInv
<1>2. CASE pass # "collect"
  <2>1. usedRegs = UNION {Used(b) : b \in Live} /\ phis \subseteq Live \X usedRegs
    BY <1>2 DEF PlacingInv
  <2>2. usedRegs \subseteq Region
    BY <2>1, UsedFacts
  <2>3. ASSUME NEW b \in Live, NEW i \in DOMAIN prog.code[b]
        PROVE  prog.code[b][i].mu \cup prog.code[b][i].chi \subseteq usedRegs
    BY <2>1, UsedFacts
  <2>4. ASSUME NEW b \in Live, NEW r, HasDef(b, r)
        PROVE  r \in usedRegs
    <3>1. CASE r \in Defined(b)
      <4>1. PICK i \in DOMAIN prog.code[b] : r \in prog.code[b][i].chi
        BY <3>1 DEF Defined
      <4> QED BY <4>1, <2>3
    <3> QED BY <3>1, <2>1, <2>4 DEF HasDef
  <2> QED BY <2>2, <2>3, <2>4
<1> QED BY <1>1, <1>2

LEMMA DoneFacts ==
  ASSUME SSAInv, pass = "done"
  PROVE  /\ prog \in Bodies /\ FrontiersDone /\ usedRegs \subseteq Region
         /\ \A x \in Live : NamedUpTo(x, EndOfBlock(x) + 1)
<1>1. prog \in Bodies /\ PlacingInv /\ FramesInv
  BY DEF SSAInv
<1>2. FrontiersDone
  BY <1>1 DEF PlacingInv, FrontiersDone
<1>3. \A x \in Live : NamedUpTo(x, EndOfBlock(x) + 1)
  BY <1>1, DomEntry DEF FramesInv, SubtreeNamed
<1> QED BY <1>1, <1>2, <1>3, RegionFacts

(* No definition is invented: phis make a version from definitions that    *)
(* reach their block.                                                      *)
LEMMA StandsForReaching ==
  ASSUME SSAInv, pass = "done", NEW r \in Region, NEW b \in Live, NEW i \in Points(b),
         NEW v \in Nat, Arrives(b, i, r, v)
  PROVE  StandsFor(r, v) \subseteq ReachingDefs(b, i, r)
<1> DEFINE X == ReachingDefs(b, i, r)
           C == {w \in Nat : MadeFrom(r, w, X)}
           vs == Through(r, {v})
<1>1. prog \in Bodies /\ FrontiersDone /\ ReadsInv /\ WritesInv /\ PlacingInv
  BY DoneFacts DEF SSAInv
<1>2. PICK n \in Nat : \A o \in phiOps : o[2] = r => o[4] \in Nat /\ o[4] < n
  BY <1>1 DEF ReadsInv, IsRead, IsReturn, IsPhiOp, SSAInv, StacksInv
<1>3. v \in C
  BY <1>1, ArrivesFrom
<1>4. ASSUME NEW s \in phiRes, NEW o \in phiOps, s[2] = r, o[2] = r, s[1] = o[1], s[3] \in C
      PROVE  o[4] \in C
  <2>1. <<s[1], 0, s[2], s[3]>> \in Made
    BY DEF Made
  <2>2. ReachingDefs(s[1], 1, r) \subseteq X
    <3> DEFINE m == <<s[1], 0, s[2], s[3]>>
    <3>1. m \in Made /\ m[1] = s[1] /\ m[2] = 0 /\ m[3] = r /\ m[4] = s[3]
      BY <1>4, <2>1
    <3>2. MadeFrom(r, s[3], X)
      BY <1>4
    <3> HIDE DEF m, X
    <3>3. IF m[2] = 0 THEN ReachingDefs(m[1], 1, r) \subseteq X ELSE <<m[1], m[2]>> \in X
      BY <3>1, <3>2 DEF MadeFrom
    <3> QED BY <3>1, <3>3
  <2>3. o[3] \in Live /\ o[1] \in prog.succ[o[3]] /\ o[4] \in Nat
    BY <1>1 DEF ReadsInv, IsRead, IsReturn, IsPhiOp
  <2>4. Arrives(o[3], EndOfBlock(o[3]), r, o[4])
    BY <1>1, <1>4 DEF ReadsInv, IsRead, IsReturn, IsPhiOp
  <2>5. EndOfBlock(o[3]) \in Points(o[3])
    BY <1>1, <2>3, DefFacts DEF Points
  <2>6. MadeFrom(r, o[4], ReachingDefs(o[3], EndOfBlock(o[3]), r))
    BY <1>1, <2>3, <2>4, <2>5, ArrivesFrom
  <2>7. ReachingDefs(o[3], EndOfBlock(o[3]), r) \subseteq ReachingDefs(s[1], 1, r)
    <3>1. s[1] \in Live /\ o[3] \in Before(s[1])
      BY <1>1, <1>4, <2>3, LiveFacts DEF Before
    <3> QED BY <1>1, <3>1, ReachNext
  <2>8. ReachingDefs(o[3], EndOfBlock(o[3]), r) \subseteq X
    BY <2>2, <2>7
  <2> HIDE DEF X
  <2>9. MadeFrom(r, o[4], X)
    <3>1. o[4] = 1 => <<prog.entry, 0>> \in X
      BY <2>6, <2>8 DEF MadeFrom
    <3>2. ASSUME NEW m \in Made, m[3] = r, m[4] = o[4]
          PROVE  IF m[2] = 0 THEN ReachingDefs(m[1], 1, r) \subseteq X ELSE <<m[1], m[2]>> \in X
      BY <2>6, <2>8, <3>2 DEF MadeFrom
    <3> QED BY <3>1, <3>2 DEF MadeFrom
  <2> QED BY <2>3, <2>9
<1>5. vs \subseteq C
  <2>1. {v} \in SUBSET Nat /\ {v} \subseteq C
    BY <1>3
  <2>2. \A s \in phiRes : \A o \in phiOps :
          s[2] = r /\ o[2] = r /\ s[1] = o[1] /\ s[3] \in C => o[4] \in C
    BY <1>4
  <2>3. \A D : /\ {v} \subseteq D
               /\ \A s \in phiRes : \A o \in phiOps :
                    s[2] = r /\ o[2] = r /\ s[1] = o[1] /\ s[3] \in D => o[4] \in D
               => vs \subseteq D
    <3> HIDE DEF C
    <3> QED BY <1>2, <2>1, ThroughIs
  <2> HIDE DEF C, vs
  <2> QED BY <2>1, <2>2, <2>3
<1>6. ASSUME NEW w \in writes, w[3] = r, w[5] \in vs
      PROVE  <<w[1], w[2]>> \in X
  <2> DEFINE m == <<w[1], w[2], w[3], w[5]>>
  <2>1. m \in Made /\ m[1] = w[1] /\ m[2] = w[2] /\ m[3] = r /\ m[4] = w[5]
    BY <1>6 DEF Made
  <2>2. w[2] # 0
    BY <1>1, DefFacts DEF WritesInv, IsWrite, IsMade
  <2>3. MadeFrom(r, w[5], X)
    BY <1>5, <1>6
  <2> HIDE DEF m, X
  <2>4. IF m[2] = 0 THEN ReachingDefs(m[1], 1, r) \subseteq X ELSE <<m[1], m[2]>> \in X
    BY <2>1, <2>3 DEF MadeFrom
  <2> QED BY <2>1, <2>2, <2>4
<1>7. ASSUME 1 \in vs
      PROVE  <<prog.entry, 0>> \in X
  <2>1. MadeFrom(r, 1, X)
    BY <1>5, <1>7
  <2> HIDE DEF X
  <2> QED BY <2>1 DEF MadeFrom
<1> QED
  <2>1. StandsFor(r, v) = {<<w[1], w[2]>> : w \in {u \in writes : u[3] = r /\ u[5] \in vs}}
                            \cup (IF 1 \in vs THEN {<<prog.entry, 0>>} ELSE {})
    BY DEF StandsFor
  <2> HIDE DEF vs, X, C
  <2>2. StandsFor(r, v) \subseteq X
    BY <2>1, <1>6, <1>7
  <2> QED BY <2>2 DEF X

(* No path is missed: going back from a use along a path without a chi,    *)
(* the version stands for those that arrive on the way.                    *)
LEMMA ReachingStandFor ==
  ASSUME SSAInv, pass = "done", NEW r \in Region, NEW b \in Live, NEW i \in Points(b),
         NEW v \in Nat, Arrives(b, i, r, v)
  PROVE  ReachingDefs(b, i, r) \subseteq StandsFor(r, v)
<1> DEFINE vs == Through(r, {v})
           At(y) == \E u \in vs : Arrives(y, 1, r, u)
           own == {j \in DefsIn(b, r) : j < i}
<1>1. prog \in Bodies /\ FrontiersDone /\ ReadsInv /\ WritesInv /\ PlacingInv
  BY DoneFacts DEF SSAInv
<1>2. /\ v \in vs
      /\ \A s \in phiRes : \A o \in phiOps :
           s[2] = r /\ o[2] = r /\ s[1] = o[1] /\ s[3] \in vs => o[4] \in vs
  <2>1. PICK n \in Nat : \A o \in phiOps : o[2] = r => o[4] \in Nat /\ o[4] < n
    BY <1>1 DEF ReadsInv, IsRead, IsReturn, IsPhiOp, SSAInv, StacksInv
  <2>2. {v} \in SUBSET Nat /\ v \in {v}
    OBVIOUS
  <2> QED BY <2>1, <2>2, ThroughIs
<1>3. /\ \A w \in writes : w[3] = r /\ w[5] \in vs => <<w[1], w[2]>> \in StandsFor(r, v)
      /\ 1 \in vs => <<prog.entry, 0>> \in StandsFor(r, v)
  BY DEF StandsFor
<1> HIDE DEF vs
<1>4. ASSUME NEW y \in Live, At(y), NEW p \in Before(y)
      PROVE  \E u \in vs : Arrives(p, EndOfBlock(p), r, u)
  <2>1. PICK u \in vs : Arrives(y, 1, r, u)
    BY <1>4
  <2>2. p \in Live /\ y \in prog.succ[p]
    BY DEF Before
  <2>3. CASE <<y, r>> \notin phis
    <3>1. \A j \in DefPoints(y, r) : ~(j < 1)
      BY <1>1, <2>3, PointFacts, DefFacts
    <3>2. Inherits(y, r, u)
      BY <2>1, <3>1 DEF Arrives, MadeBefore
    <3> QED BY <1>1, <2>2, <2>3, <3>2, EndOfBefore
  <2>4. CASE <<y, r>> \in phis
    <3>1. 0 \in DefPoints(y, r)
      BY <1>1, <2>4, PointFacts
    <3>2. PICK j \in DefPoints(y, r) : j < 1 /\ <<y, j, r, u>> \in Made
      BY <2>1, <3>1 DEF Arrives, MadeBefore
    <3>3. <<y, 0, r, u>> \in Made
      <4>1. j \in Nat
        BY <1>1, PointFacts
      <4>2. j = 0
        BY <4>1, <3>2
      <4> QED BY <3>2, <4>2
    <3>4. PICK s \in phiRes : <<s[1], 0, s[2], s[3]>> = <<y, 0, r, u>>
      <4>1. \A w \in writes : w[2] # 0
        BY <1>1, DefFacts DEF WritesInv, IsWrite, IsMade
      <4> QED BY <3>3, <4>1 DEF Made
    <3>5. r \in PhisOf(y)
      <4>1. <<y, r>> \in {e \in phis : e[1] = y} /\ <<y, r>>[2] = r
        BY <2>4
      <4> QED BY <4>1 DEF PhisOf
    <3>6. PICK o \in phiOps : o[1] = y /\ o[2] = r /\ o[3] = p
      <4>1. NamedUpTo(p, EndOfBlock(p) + 1) /\ EndOfBlock(p) \in Nat
        BY <1>1, <2>2, DoneFacts, DefFacts
      <4> QED BY <2>2, <3>5, <4>1 DEF NamedUpTo
    <3>7. o[4] \in vs
      BY <1>2, <3>4, <3>6
    <3>8. Arrives(p, EndOfBlock(p), r, o[4])
      BY <1>1, <3>6 DEF ReadsInv, IsRead, IsReturn, IsPhiOp
    <3> QED BY <3>7, <3>8
  <2> QED BY <2>3, <2>4
<1>5. ASSUME own = {}
      PROVE  \A y \in Clear(b, r) : At(y)
  <2> DEFINE C == {y \in Live : At(y)}
  <2>1. b \in C
    <3>1. i \in Nat /\ 0 < i
      BY <1>1, DefFacts DEF Points
    <3>2. ASSUME NEW j \in DefPoints(b, r)
          PROVE  j \in Nat /\ (j < i <=> j = 0) /\ (j < 1 <=> j = 0)
      <4>1. j \in Nat
        BY <1>1, PointFacts
      <4>2. CASE j = 0
        BY <4>2, <3>1
      <4>3. CASE j # 0
        <5>1. j \in DefsIn(b, r)
          BY <1>1, <4>3, PointFacts
        <5>2. ~(j < i)
          BY <1>5, <5>1
        <5> QED BY <4>1, <4>3, <5>2
      <4> QED BY <4>2, <4>3
    <3>3. Arrives(b, 1, r, v)
      BY <3>2 DEF Arrives, MadeBefore
    <3> QED BY <1>2, <3>3
  <2>2. ASSUME NEW y \in C \cap Clear(b, r), NEW p \in Before(y), DefsIn(p, r) = {}
        PROVE  p \in C
    <3>1. PICK u \in vs : Arrives(p, EndOfBlock(p), r, u)
      BY <1>4
    <3>2. p \in Live
      BY DEF Before
    <3>3. EndOfBlock(p) \in Nat /\ EndOfBlock(p) > 0
      BY <1>1, <3>2, DefFacts
    <3>4. \A j \in DefPoints(p, r) : j = 0
      BY <2>2 DEF DefPoints
    <3>5. \A j \in DefPoints(p, r) : j < EndOfBlock(p) /\ j < 1
      BY <3>3, <3>4
    <3>6. Arrives(p, 1, r, u)
      BY <3>1, <3>5 DEF Arrives, MadeBefore
    <3> QED BY <3>2, <3>6
  <2> HIDE DEF At
  <2>3. Clear(b, r) \subseteq C
    <3> HIDE DEF C
    <3> QED BY <1>1, <2>1, <2>2, ClearIs
  <2> QED BY <2>3
<1>6. ASSUME NEW c \in Live, NEW k, NEW u \in vs, k # 0, <<c, k, r, u>> \in Made
      PROVE  <<c, k>> \in StandsFor(r, v)
  <2>1. PICK w \in writes : <<w[1], w[2], w[3], w[5]>> = <<c, k, r, u>>
    BY <1>6 DEF Made
  <2>2. w[1] = c /\ w[2] = k /\ w[3] = r /\ w[5] = u
    BY <2>1
  <2> QED BY <2>2, <1>3
<1>7. CASE own # {}
  <2>1. LastIn(own) \in own /\ \A k \in own : k <= LastIn(own)
    BY <1>1, <1>7, LastInIs
  <2>2. LastIn(own) \in DefPoints(b, r) /\ LastIn(own) < i /\ LastIn(own) \in Nat /\ LastIn(own) # 0
    <3>1. LastIn(own) \in DefsIn(b, r) /\ LastIn(own) < i
      BY <2>1
    <3> HIDE DEF own
    <3> QED BY <3>1, <1>1, PointFacts, DefFacts
  <2>3. PICK j \in DefPoints(b, r) :
          j < i /\ (\A k \in DefPoints(b, r) : k < i => k <= j) /\ <<b, j, r, v>> \in Made
    BY <2>2 DEF Arrives, MadeBefore
  <2>4. LastIn(own) <= j /\ j \in Nat
    <3> HIDE DEF own
    <3> QED BY <2>2, <2>3, <1>1, PointFacts
  <2>5. j # 0
    <3> HIDE DEF own
    <3> QED BY <2>2, <2>4
  <2>6. j \in own
    BY <1>1, <2>3, <2>5, PointFacts
  <2>7. j = LastIn(own)
    <3>1. j <= LastIn(own)
      BY <2>1, <2>6
    <3> HIDE DEF own
    <3> QED BY <2>2, <2>4, <3>1
  <2>8. ReachingDefs(b, i, r) = {<<b, LastIn(own)>>}
    BY <1>1, <1>7, ReachWithin
  <2> HIDE DEF own
  <2>9. <<b, j>> \in StandsFor(r, v)
    BY <1>2, <1>6, <2>3, <2>5
  <2> QED BY <2>7, <2>8, <2>9
<1>8. CASE own = {}
  <2>1. ReachingDefs(b, i, r) = ReachingDefs(b, 1, r)
    BY <1>1, <1>8, ReachWithin
  <2>2. \A y \in Clear(b, r) : y \in Live /\ At(y)
    BY <1>1, <1>5, <1>8, ClearIs
  <2>3. ASSUME NEW c \in Clear(b, r), NEW p \in Before(c), DefsIn(p, r) # {}
        PROVE  <<p, LastIn(DefsIn(p, r))>> \in StandsFor(r, v)
    <3> DEFINE l == LastIn(DefsIn(p, r))
    <3>1. PICK u \in vs : Arrives(p, EndOfBlock(p), r, u)
      <4> HIDE DEF At
      <4> QED BY <1>4, <2>2
    <3>2. p \in Live
      BY DEF Before
    <3>3. l \in DefsIn(p, r) /\ \A k \in DefsIn(p, r) : k <= l
      BY <1>1, <2>3, <3>2, LastInIs
    <3>4. l \in DefPoints(p, r) /\ l \in Nat /\ 0 < l /\ l < EndOfBlock(p)
      <4> HIDE DEF l
      <4> QED BY <1>1, <3>2, <3>3, DefFacts DEF DefPoints
    <3> HIDE DEF l
    <3>5. PICK j \in DefPoints(p, r) :
            /\ \A k \in DefPoints(p, r) : k < EndOfBlock(p) => k <= j
            /\ <<p, j, r, u>> \in Made
      BY <3>1, <3>4 DEF Arrives, MadeBefore
    <3>6. l <= j /\ j \in Nat
      BY <1>1, <3>2, <3>4, <3>5, PointFacts
    <3>7. j # 0
      BY <3>4, <3>6
    <3>8. j \in DefsIn(p, r)
      BY <1>1, <3>2, <3>7, PointFacts
    <3>9. j = l
      BY <3>3, <3>4, <3>6, <3>8
    <3> QED BY <1>6, <3>2, <3>5, <3>7, <3>9 DEF l
  <2>4. ASSUME prog.entry \in Clear(b, r)
        PROVE  <<prog.entry, 0>> \in StandsFor(r, v)
    <3>1. PICK u \in vs : Arrives(prog.entry, 1, r, u)
      BY <2>2, <2>4
    <3>2. prog.entry \in Live /\ <<prog.entry, r>> \notin phis
      BY <1>1, LiveFacts DEF PlacingInv
    <3>3. \A j \in DefPoints(prog.entry, r) : ~(j < 1)
      BY <1>1, <3>2, PointFacts, DefFacts
    <3>4. Inherits(prog.entry, r, u)
      BY <3>1, <3>3 DEF Arrives, MadeBefore
    <3>5. u = 1
      BY <1>1, <3>4, NothingAboveEntry DEF Inherits, MadeAbove
    <3> QED BY <1>3, <3>5
  <2> HIDE DEF own, At
  <2> QED BY <1>1, <2>1, <2>3, <2>4, ReachStart
<1> QED BY <1>7, <1>8

LEMMA DoneIsExact ==
  ASSUME SSAInv, pass = "done", NEW r \in Region, NEW b \in Live, NEW i \in Points(b),
         NEW v \in Nat, Arrives(b, i, r, v)
  PROVE  StandsFor(r, v) = ReachingDefs(b, i, r)
BY StandsForReaching, ReachingStandFor

LEMMA InvVersions == SSAInv => VersionsAreReachingDefs
<1> SUFFICES ASSUME SSAInv, pass = "done"
             PROVE  /\ \A u \in reads : StandsFor(u[3], u[4]) = ReachingDefs(u[1], u[2], u[3])
                    /\ \A w \in writes : StandsFor(w[3], w[4]) = ReachingDefs(w[1], w[2], w[3])
                    /\ \A u \in returns : \A b \in prog.ret :
                         StandsFor(u[1], u[2]) = ReachingDefs(b, EndOfBlock(b), u[1])
  BY DEF VersionsAreReachingDefs, EndOfBlock
<1>1. prog \in Bodies /\ ReadsInv /\ WritesInv /\ usedRegs \subseteq Region
  BY DoneFacts DEF SSAInv
<1>2. ASSUME NEW u \in reads
      PROVE  StandsFor(u[3], u[4]) = ReachingDefs(u[1], u[2], u[3])
  <2>1. /\ u[1] \in Live /\ u[2] \in DOMAIN prog.code[u[1]] /\ u[3] \in Region /\ u[4] \in Nat
        /\ Arrives(u[1], u[2], u[3], u[4])
    BY <1>1 DEF ReadsInv, IsRead, IsReturn, IsPhiOp
  <2>2. EndOfBlock(u[1]) \in Nat /\ DOMAIN prog.code[u[1]] = 1 .. EndOfBlock(u[1]) - 1
    BY <1>1, <2>1, DefFacts
  <2>3. u[2] \in Points(u[1])
    BY <2>1, <2>2 DEF Points
  <2> QED BY <2>1, <2>3, DoneIsExact
<1>3. ASSUME NEW w \in writes
      PROVE  StandsFor(w[3], w[4]) = ReachingDefs(w[1], w[2], w[3])
  <2>1. /\ w[1] \in Live /\ w[2] \in DefsIn(w[1], w[3]) /\ w[3] \in Region /\ w[4] \in Nat
        /\ Arrives(w[1], w[2], w[3], w[4])
    BY <1>1 DEF WritesInv, IsWrite, IsMade
  <2>2. w[2] \in Points(w[1])
    BY <1>1, <2>1, DefFacts DEF Points
  <2> QED BY <2>1, <2>2, DoneIsExact
<1>4. ASSUME NEW u \in returns, NEW b \in prog.ret
      PROVE  StandsFor(u[1], u[2]) = ReachingDefs(b, EndOfBlock(b), u[1])
  <2>1. PICK c \in prog.ret \cap Live : Arrives(c, EndOfBlock(c), u[1], u[2])
    BY <1>1 DEF ReadsInv, IsRead, IsReturn, IsPhiOp
  <2>2. b = c
    BY <1>1, BodyFacts
  <2>3. b \in Live /\ EndOfBlock(b) \in Points(b) /\ u[1] \in Region
    BY <1>1, <2>2, DefFacts DEF Points, ReadsInv, IsRead, IsReturn, IsPhiOp
  <2>4. u[2] \in Nat
    BY <1>1 DEF ReadsInv, IsRead, IsReturn, IsPhiOp
  <2> QED BY <2>1, <2>2, <2>3, <2>4, DoneIsExact
<1> QED BY <1>2, <1>3, <1>4

(* Version 1 is no phi's and no chi's, so it stands for the entry only;    *)
(* any other version stands for some chi.                                  *)
LEMMA OneStandsForEntry ==
  ASSUME SSAInv, pass = "done", NEW r \in Region
  PROVE  StandsFor(r, 1) = {<<prog.entry, 0>>}
<1> DEFINE vs == Through(r, {1})
<1>1. WritesInv /\ ReadsInv
  BY DEF SSAInv
<1>2. PICK n \in Nat : \A o \in phiOps : o[2] = r => o[4] \in Nat /\ o[4] < n
  BY <1>1 DEF ReadsInv, IsRead, IsReturn, IsPhiOp, SSAInv, StacksInv
<1>3. \A s \in phiRes : s[2] = r => s[3] # 1
  <2> SUFFICES ASSUME NEW s \in phiRes PROVE s[3] # 1
    OBVIOUS
  <2> DEFINE m == <<s[1], 0, s[2], s[3]>>
  <2>1. m \in Made /\ m[4] = s[3]
    BY DEF Made
  <2> HIDE DEF m
  <2>2. m[4] > 1
    BY <1>1, <2>1 DEF WritesInv, IsWrite, IsMade
  <2> QED BY <2>1, <2>2
<1>4. \A w \in writes : w[5] # 1
  <2> SUFFICES ASSUME NEW w \in writes PROVE w[5] # 1
    OBVIOUS
  <2> DEFINE m == <<w[1], w[2], w[3], w[5]>>
  <2>1. m \in Made /\ m[4] = w[5]
    BY DEF Made
  <2> HIDE DEF m
  <2>2. m[4] > 1
    BY <1>1, <2>1 DEF WritesInv, IsWrite, IsMade
  <2> QED BY <2>1, <2>2
<1>5. {1} \in SUBSET Nat
  OBVIOUS
<1>6. {1} \subseteq vs
  BY <1>2, <1>5, ThroughIs
<1>7. vs \subseteq {1}
  <2> DEFINE D == {1}
  <2>1. \A s \in phiRes : \A o \in phiOps :
          s[2] = r /\ o[2] = r /\ s[1] = o[1] /\ s[3] \in D => o[4] \in D
    BY <1>3
  <2> HIDE DEF D
  <2>2. \A C : /\ {1} \subseteq C
               /\ \A s \in phiRes : \A o \in phiOps :
                    s[2] = r /\ o[2] = r /\ s[1] = o[1] /\ s[3] \in C => o[4] \in C
               => vs \subseteq C
    <3> DEFINE V == {1}
    <3>1. V \in SUBSET Nat
      BY <1>5
    <3> HIDE DEF V
    <3>2. \A C : /\ V \subseteq C
                 /\ \A s \in phiRes : \A o \in phiOps :
                      s[2] = r /\ o[2] = r /\ s[1] = o[1] /\ s[3] \in C => o[4] \in C
                 => Through(r, V) \subseteq C
      BY <1>2, <3>1, ThroughIs
    <3> QED BY <3>2 DEF V
  <2>3. {1} \subseteq D
    BY DEF D
  <2> HIDE DEF vs
  <2>4. vs \subseteq D
    BY <2>1, <2>2, <2>3
  <2> QED BY <2>4 DEF D
<1>8. vs = {1}
  <2> HIDE DEF vs
  <2> QED BY <1>6, <1>7
<1>9. StandsFor(r, 1) = {<<w[1], w[2]>> : w \in {u \in writes : u[3] = r /\ u[5] \in vs}}
                          \cup (IF 1 \in vs THEN {<<prog.entry, 0>>} ELSE {})
  BY DEF StandsFor
<1> HIDE DEF vs
<1>10. {u \in writes : u[3] = r /\ u[5] \in vs} = {}
  BY <1>4, <1>8
<1> QED BY <1>8, <1>9, <1>10

LEMMA OtherStandsForChi ==
  ASSUME SSAInv, pass = "done", NEW r \in Region, NEW b \in Live, NEW i \in Points(b),
         NEW v \in Nat, v # 1, Arrives(b, i, r, v)
  PROVE  ChiReaches(b, i, r)
<1>1. prog \in Bodies /\ FrontiersDone /\ WritesInv /\ PlacingInv
  BY DoneFacts DEF SSAInv
<1>2. PICK m \in Made : m[3] = r /\ m[4] = v /\ m[1] \in Live /\ m[2] \in DefPoints(m[1], r)
  <2>1. ASSUME NEW c \in Live, NEW k, MadeBefore(c, k, r, v)
        PROVE  \E m \in Made : m[3] = r /\ m[4] = v /\ m[1] \in Live /\ m[2] \in DefPoints(m[1], r)
    <3>1. PICK j \in DefPoints(c, r) : <<c, j, r, v>> \in Made
      BY <2>1 DEF MadeBefore
    <3> QED BY <3>1
  <2>2. MadeBefore(b, i, r, v) \/ Inherits(b, r, v)
    BY DEF Arrives
  <2>3. MadeBefore(b, i, r, v) \/ \E c \in Live : MadeBefore(c, EndOfBlock(c), r, v)
    BY <2>2 DEF Inherits, MadeAbove
  <2> QED BY <2>1, <2>3
<1>3. MadeFrom(r, v, ReachingDefs(b, i, r))
  BY <1>1, ArrivesFrom
<1>4. IF m[2] = 0 THEN ReachingDefs(m[1], 1, r) \subseteq ReachingDefs(b, i, r)
      ELSE <<m[1], m[2]>> \in ReachingDefs(b, i, r)
  BY <1>2, <1>3 DEF MadeFrom
<1>5. CASE m[2] = 0
  <2>1. <<m[1], r>> \in phis
    BY <1>1, <1>2, <1>5, PointFacts
  <2>2. ChiReaches(m[1], 1, r)
    <3> DEFINE d == <<m[1], r>>
    <3>1. d \in phis /\ d[1] = m[1] /\ d[2] = r
      BY <2>1
    <3> HIDE DEF d
    <3>2. ChiReaches(d[1], 1, d[2])
      BY <1>1, <3>1 DEF PlacingInv
    <3> QED BY <3>1, <3>2
  <2> QED BY <1>4, <1>5, <2>2 DEF ChiReaches
<1>6. CASE m[2] # 0
  BY <1>4, <1>6 DEF ChiReaches
<1> QED BY <1>5, <1>6

LEMMA InvChanged == SSAInv => ChangedIsExact
<1> SUFFICES ASSUME SSAInv, pass = "done"
             PROVE  Changed = {r \in usedRegs : Returns =>
                       \E b \in prog.ret : ReachingDefs(b, EndOfBlock(b), r) # {<<prog.entry, 0>>}}
  BY DEF ChangedIsExact, EndOfBlock
<1>1. prog \in Bodies /\ FrontiersDone /\ ReadsInv /\ WritesInv /\ usedRegs \subseteq Region
  BY DoneFacts DEF SSAInv
<1>2. CASE ~ Returns
  <2>1. Changed = usedRegs
    BY <1>2 DEF Changed, FormalIns, FormalOuts, checkUnchanged
  <2> QED BY <1>2, <2>1
<1>3. CASE Returns
  <2>1. PICK b \in prog.ret : b \in Live
    BY <1>3 DEF Returns
  <2>2. prog.ret = {b}
    BY <1>1, BodyFacts
  <2>3. EndOfBlock(b) \in Points(b)
    BY <1>1, <2>1, DefFacts DEF Points
  <2>4. ASSUME NEW r \in usedRegs
        PROVE  <<r, 1>> \in returns <=> ReachingDefs(b, EndOfBlock(b), r) = {<<prog.entry, 0>>}
    <3>1. r \in Region
      BY <1>1
    <3>2. ASSUME <<r, 1>> \in returns
          PROVE  ReachingDefs(b, EndOfBlock(b), r) = {<<prog.entry, 0>>}
      <4> DEFINE u == <<r, 1>>
      <4>1. u \in returns /\ u[1] = r /\ u[2] = 1
        BY <3>2
      <4> HIDE DEF u
      <4>2. Arrives(b, EndOfBlock(b), r, 1)
        BY <1>1, <2>2, <4>1 DEF ReadsInv, IsRead, IsReturn, IsPhiOp
      <4> QED BY <2>1, <2>3, <3>1, <4>2, DoneIsExact, OneStandsForEntry
    <3>3. ASSUME ReachingDefs(b, EndOfBlock(b), r) = {<<prog.entry, 0>>}
          PROVE  <<r, 1>> \in returns
      <4>1. PICK u \in returns : u[1] = r
        <5>1. NamedUpTo(b, EndOfBlock(b) + 1) /\ EndOfBlock(b) \in Nat
          BY <1>1, <2>1, DoneFacts, DefFacts
        <5> QED BY <5>1 DEF NamedUpTo
      <4>2. u = <<u[1], u[2]>> /\ u[2] \in Nat /\ Arrives(b, EndOfBlock(b), r, u[2])
        BY <1>1, <2>2, <4>1 DEF ReadsInv, IsRead, IsReturn, IsPhiOp
      <4>3. ~ ChiReaches(b, EndOfBlock(b), r)
        BY <3>3 DEF ChiReaches
      <4>4. u[2] = 1
        BY <2>1, <2>3, <3>1, <4>2, <4>3, OtherStandsForChi
      <4> QED BY <4>1, <4>2, <4>4
    <3> QED BY <3>2, <3>3
  <2>5. Changed = {r \in usedRegs : <<r, 1>> \notin returns}
    BY <1>3 DEF Changed, FormalIns, FormalOuts, checkUnchanged
  <2> QED BY <1>3, <2>2, <2>4, <2>5
<1> QED BY <1>2, <1>3

-----------------------------------------------------------------------------
(***************************************************************************)
(* The steps.  The control flow graph stays, and renaming only adds to     *)
(* what is recorded.                                                       *)
(***************************************************************************)
LEMMA SameGraph ==
  ASSUME prog' = prog
  PROVE  /\ Live' = Live
         /\ \A b : EndOfBlock(b)' = EndOfBlock(b) /\ Points(b)' = Points(b)
<1>1. Live' = Live
  BY DEF Live, Avoiding
<1> QED BY <1>1 DEF EndOfBlock, Points

LEMMA SameDominators ==
  ASSUME prog' = prog, NEW a
  PROVE  /\ \A b : Dominates(a, b)' = Dominates(a, b)
         /\ \A b : StrictlyDominates(a, b)' = StrictlyDominates(a, b)
<1>1. Avoiding({a})' = Avoiding({a})
  BY DEF Avoiding
<1>2. \A b : Dominates(a, b)' = Dominates(a, b)
  BY <1>1 DEF Dominates
<1> QED BY <1>2 DEF StrictlyDominates

LEMMA SameTree ==
  ASSUME prog' = prog, NEW a
  PROVE  Children(a)' = Children(a) /\ Frontier(a)' = Frontier(a)
<1>1. Live' = Live
  BY SameGraph
<1>2. \A c, b : Dominates(c, b)' = Dominates(c, b)
  BY SameDominators
<1>3. Children(a)' = Children(a)
  <2>1. \A b : b \in Children(a)' <=> b \in Children(a)
    BY <1>1, <1>2 DEF Children
  <2> QED BY <2>1 DEF Children
<1>4. Frontier(a)' = Frontier(a)
  <2>1. \A b : b \in Frontier(a)' <=> b \in Frontier(a)
    BY <1>1, <1>2 DEF Frontier
  <2> QED BY <2>1 DEF Frontier
<1> QED BY <1>3, <1>4

LEMMA SameDefs ==
  ASSUME prog' = prog, NEW b
  PROVE  /\ \A r : DefsIn(b, r)' = DefsIn(b, r)
         /\ Used(b)' = Used(b) /\ Defined(b)' = Defined(b)
BY DEF DefsIn, Used, Defined

LEMMA SameReaching ==
  ASSUME prog' = prog, NEW b, NEW i, NEW r
  PROVE  ReachingDefs(b, i, r)' = ReachingDefs(b, i, r) /\ ChiReaches(b, i, r)' = ChiReaches(b, i, r)
<1>1. ReachingDefs(b, i, r)' = ReachingDefs(b, i, r)
  BY DEF ReachingDefs, Clear, Before, Live, Avoiding, DefsIn, LastIn
<1> QED BY <1>1 DEF ChiReaches

RecordsGrow ==
  /\ prog' = prog /\ usedRegs' = usedRegs /\ phis' = phis
  /\ Made \subseteq Made' /\ phiOps \subseteq phiOps' /\ returns \subseteq returns'

LEMMA PointsKept ==
  ASSUME RecordsGrow, NEW b
  PROVE  /\ \A r : DefPoints(b, r)' = DefPoints(b, r)
         /\ \A r : HasDef(b, r)' = HasDef(b, r)
         /\ PhisOf(b)' = PhisOf(b)
BY SameDefs DEF RecordsGrow, DefPoints, HasDef, PhisOf

LEMMA ArrivesKept ==
  ASSUME RecordsGrow, NEW b, NEW i, NEW r, NEW v
  PROVE  /\ MadeBefore(b, i, r, v) => MadeBefore(b, i, r, v)'
         /\ Inherits(b, r, v) => Inherits(b, r, v)'
         /\ Arrives(b, i, r, v) => Arrives(b, i, r, v)'
<1>1. ASSUME NEW c, NEW k, MadeBefore(c, k, r, v)
      PROVE  MadeBefore(c, k, r, v)'
  BY <1>1, PointsKept DEF MadeBefore, RecordsGrow
<1>2. Live' = Live /\ \A x, y : StrictlyDominates(x, y)' = StrictlyDominates(x, y)
  BY SameGraph, SameDominators DEF RecordsGrow
<1>3. \A x : DefPoints(x, r)' = DefPoints(x, r)
  BY PointsKept
<1>4. ASSUME NEW c \in Live, MadeAbove(c, b, r, v)
      PROVE  MadeAbove(c, b, r, v)'
  <2>1. StrictlyDominates(c, b)' /\ \A x \in Live' : StrictlyDominates(c, x)' /\ StrictlyDominates(x, b)' => DefPoints(x, r)' = {}
    BY <1>2, <1>3, <1>4 DEF MadeAbove
  <2>2. EndOfBlock(c)' = EndOfBlock(c)
    BY SameGraph DEF RecordsGrow
  <2>3. MadeBefore(c, EndOfBlock(c), r, v)
    BY <1>4 DEF MadeAbove
  <2>4. MadeBefore(c, EndOfBlock(c), r, v)'
    BY <2>2, <2>3, <1>1, <1>3 DEF MadeBefore, RecordsGrow
  <2> QED BY <2>1, <2>4 DEF MadeAbove
<1>5. ASSUME Inherits(b, r, v)
      PROVE  Inherits(b, r, v)'
  <2>1. CASE \E c \in Live : MadeAbove(c, b, r, v)
    BY <2>1, <1>2, <1>4 DEF Inherits
  <2>2. CASE v = 1 /\ \A x \in Live : StrictlyDominates(x, b) => DefPoints(x, r) = {}
    BY <2>2, <1>2, <1>3 DEF Inherits
  <2> QED BY <1>5, <2>1, <2>2 DEF Inherits
<1>6. Arrives(b, i, r, v) => Arrives(b, i, r, v)'
  BY <1>1, <1>3, <1>5 DEF Arrives
<1> QED BY <1>1, <1>5, <1>6

LEMMA NamedKept ==
  ASSUME RecordsGrow, NEW b
  PROVE  /\ \A i : NamedUpTo(b, i) => NamedUpTo(b, i)'
         /\ SubtreeNamed(b) => SubtreeNamed(b)'
<1>1. ASSUME NEW x, NEW i, NamedUpTo(x, i)
      PROVE  NamedUpTo(x, i)'
  <2>1. (\A r \in Region : \A j \in DefPoints(x, r) : j < i => \E m \in Made : m[1] = x /\ m[2] = j /\ m[3] = r)'
    <3>1. \A r \in Region : DefPoints(x, r)' = DefPoints(x, r)
      BY PointsKept
    <3> QED BY <1>1, <3>1 DEF NamedUpTo, RecordsGrow
  <2>2. ASSUME (i > EndOfBlock(x))'
        PROVE  (\A s \in prog.succ[x] : \A r \in PhisOf(s) : \E o \in phiOps : o[1] = s /\ o[2] = r /\ o[3] = x)'
    <3>1. i > EndOfBlock(x)
      BY <2>2, SameGraph DEF RecordsGrow
    <3>2. \A s : PhisOf(s)' = PhisOf(s)
      BY PointsKept
    <3> QED BY <1>1, <3>1, <3>2 DEF NamedUpTo, RecordsGrow
  <2>3. ASSUME (i > EndOfBlock(x))'
        PROVE  (x \in prog.ret => \A r \in usedRegs : \E u \in returns : u[1] = r)'
    <3>1. i > EndOfBlock(x)
      BY <2>3, SameGraph DEF RecordsGrow
    <3> QED BY <1>1, <3>1 DEF NamedUpTo, RecordsGrow
  <2> QED BY <2>1, <2>2, <2>3 DEF NamedUpTo
<1>2. ASSUME SubtreeNamed(b)
      PROVE  SubtreeNamed(b)'
  <2>1. Live' = Live /\ \A x : Dominates(b, x)' = Dominates(b, x)
    BY SameGraph, SameDominators DEF RecordsGrow
  <2>2. ASSUME NEW x \in Live, Dominates(b, x)
        PROVE  NamedUpTo(x, EndOfBlock(x) + 1)'
    <3>1. NamedUpTo(x, EndOfBlock(x) + 1)
      BY <1>2, <2>2 DEF SubtreeNamed
    <3> DEFINE e == EndOfBlock(x)
    <3>2. EndOfBlock(x)' = EndOfBlock(x)
      BY SameGraph DEF RecordsGrow
    <3>3. PICK n : n = EndOfBlock(x) + 1
      OBVIOUS
    <3>4. NamedUpTo(x, n)'
      BY <3>1, <3>3, <1>1
    <3> QED BY <3>2, <3>3, <3>4 DEF NamedUpTo
  <2> QED BY <2>1, <2>2 DEF SubtreeNamed
<1> QED BY <1>1, <1>2

LEMMA PlacingKept ==
  ASSUME PlacingInv, prog' = prog, UNCHANGED placing,
         pass' = pass \/ (pass = "phi" /\ todo = {} /\ pass' = "rename") \/ (pass = "rename" /\ pass' = "done")
  PROVE  PlacingInv'
<1>1. usedRegs' = usedRegs /\ todo' = todo /\ phis' = phis
  BY DEF placing
<1>2. Live' = Live /\ \A b : Used(b)' = Used(b) /\ Defined(b)' = Defined(b)
  BY SameGraph, SameDefs
<1>3. (\A b : Frontier(b)' = Frontier(b)) /\ (\A b, r : HasDef(b, r)' = HasDef(b, r))
  BY <1>1, <1>2, SameTree DEF HasDef
<1>4. \A b, r : ChiReaches(b, 1, r)' = ChiReaches(b, 1, r)
  BY SameReaching
<1>5. (/\ pass = "collect" => phis = {} /\ todo = {} /\ usedRegs = {}
       /\ pass # "collect" => usedRegs = UNION {Used(b) : b \in Live})'
  BY <1>1, <1>2 DEF PlacingInv
<1>6. (phis \subseteq Live \X usedRegs /\ todo \subseteq Live \X usedRegs)'
  BY <1>1, <1>2 DEF PlacingInv
<1>7. (pass # "collect" =>
        \A b \in Live, r \in Region : HasDef(b, r) =>
          <<b, r>> \in todo \/ \A c \in Frontier(b) : <<c, r>> \in phis)'
  BY <1>1, <1>2, <1>3 DEF PlacingInv
<1>8. (/\ pass \in {"rename", "done"} => todo = {}
       /\ \A d \in todo : HasDef(d[1], d[2]))'
  <2>1. (pass \in {"rename", "done"} => todo = {})'
    BY <1>1 DEF PlacingInv
  <2>2. \A d \in todo : HasDef(d[1], d[2])'
    BY <1>3 DEF PlacingInv
  <2> QED BY <1>1, <1>2, <2>1, <2>2 DEF HasDef
<1>9. (/\ \A d \in phis : ChiReaches(d[1], 1, d[2])
       /\ \A d \in phis : d[1] # prog.entry)'
  BY <1>1, <1>4 DEF PlacingInv
<1> QED BY <1>5, <1>6, <1>7, <1>8, <1>9 DEF PlacingInv

LEMMA NothingRecorded ==
  ASSUME NothingNamed
  PROVE  ReadsInv /\ WritesInv
<1>1. reads = {} /\ writes = {} /\ phiRes = {} /\ phiOps = {} /\ returns = {}
  BY DEF NothingNamed
<1>2. Made = {}
  BY <1>1 DEF Made
<1> QED BY <1>1, <1>2 DEF ReadsInv, WritesInv

LEMMA SSAInitInv == SSAInit => SSAInv
<1> SUFFICES ASSUME SSAInit PROVE SSAInv
  OBVIOUS
<1>1. NothingNamed
  BY DEF SSAInit, NothingNamed
<1>2. PlacingInv
  BY DEF SSAInit, PlacingInv
<1>3. FramesInv
  BY DEF SSAInit, FramesInv
<1>4. StacksInv
  <2>1. /\ stack \in [Region -> Seq(Nat)] /\ counter \in [Region -> Nat]
        /\ \A r \in Region : Len(stack[r]) = 0
    BY DEF SSAInit
  <2> QED BY <2>1 DEF SSAInit, StacksInv
<1> QED BY <1>1, <1>2, <1>3, <1>4, NothingRecorded DEF SSAInit, SSAInv

(* Before renaming.                                                        *)
LEMMA NothingRecordedNext ==
  ASSUME NothingNamed, UNCHANGED versions
  PROVE  NothingNamed' /\ ReadsInv' /\ WritesInv'
<1>1. reads' = {} /\ writes' = {} /\ phiRes' = {} /\ phiOps' = {} /\ returns' = {}
  BY DEF NothingNamed, versions
<1>2. Made' = {}
  BY <1>1 DEF Made
<1> QED BY <1>1, <1>2 DEF NothingNamed, ReadsInv, WritesInv

LEMMA CollectStep ==
  ASSUME SSAInv, createMUCHI
  PROVE  SSAInv'
<1>1. /\ prog \in Bodies /\ prog' = prog /\ pass = "collect" /\ pass' = "phi"
      /\ phis' = phis /\ frames' = frames /\ UNCHANGED versions
      /\ NothingNamed /\ PlacingInv /\ FramesInv /\ StacksInv
  BY DEF SSAInv, createMUCHI
<1>2. /\ usedRegs' = UNION {Used(b) : b \in Live}
      /\ todo' = {d \in Live \X Region : d[2] \in Defined(d[1])}
  BY DEF createMUCHI
<1>3. Live' = Live /\ \A b : Used(b)' = Used(b) /\ Defined(b)' = Defined(b)
  BY <1>1, SameGraph, SameDefs
<1>4. phis' = {}
  BY <1>1 DEF PlacingInv
<1>5. ASSUME NEW b \in Live
      PROVE  Used(b) \subseteq Region /\ Defined(b) \subseteq Used(b)
  BY <1>1, UsedFacts DEF Defined
<1>6. usedRegs' \subseteq Region
  BY <1>2, <1>5
<1>7. PlacingInv'
  <2>1. usedRegs' = (UNION {Used(b) : b \in Live})'
    BY <1>2, <1>3
  <2>2. todo' \subseteq Live' \X usedRegs'
    <3> SUFFICES ASSUME NEW d \in todo' PROVE d \in Live' \X usedRegs'
      OBVIOUS
    <3>1. d \in Live \X Region /\ d[2] \in Defined(d[1])
      BY <1>2
    <3>2. d[2] \in usedRegs'
      BY <3>1, <1>2, <1>5
    <3> QED BY <3>1, <3>2, <1>3
  <2>3. \A b \in Live, r \in Region : HasDef(b, r)' => <<b, r>> \in todo'
    BY <1>2, <1>3, <1>4 DEF HasDef
  <2>4. \A d \in todo' : HasDef(d[1], d[2])'
    BY <1>2, <1>3 DEF HasDef
  <2> QED BY <1>1, <1>3, <1>4, <2>1, <2>2, <2>3, <2>4 DEF PlacingInv
<1>8. FramesInv'
  <2>1. frames' = <<>>
    BY <1>1 DEF FramesInv
  <2> QED BY <1>1, <2>1 DEF FramesInv
<1>9. StacksInv'
  <2>1. /\ counter' = [r \in Region |-> IF r \in usedRegs' THEN 2 ELSE 0]
        /\ stack' = [r \in Region |-> IF r \in usedRegs' THEN <<0, 1>> ELSE <<>>]
    BY DEF createMUCHI
  <2>2. <<0, 1>> \in Seq(Nat) /\ Len(<<0, 1>>) = 2 /\ <<0, 1>>[1] = 0 /\ <<0, 1>>[2] = 1
    OBVIOUS
  <2>3. stack' \in [Region -> Seq(Nat)] /\ counter' \in [Region -> Nat]
    BY <2>1, <2>2
  <2>4. \A r \in usedRegs' : stack'[r] = <<0, 1>> /\ counter'[r] = 2
    BY <2>1, <1>6
  <2>5. ASSUME NEW r \in Region, NEW i \in 1 .. Len(stack'[r])
        PROVE  stack'[r][i] < counter'[r]
    <3>1. CASE r \in usedRegs'
      <4>1. stack'[r] = <<0, 1>> /\ counter'[r] = 2
        BY <3>1, <2>4
      <4>2. i = 1 \/ i = 2
        BY <4>1, <2>2
      <4> QED BY <4>1, <4>2, <2>2
    <3>2. CASE r \notin usedRegs'
      <4>1. stack'[r] = <<>>
        BY <3>2, <2>1
      <4> QED BY <4>1
    <3> QED BY <3>1, <3>2
  <2> QED BY <1>1, <2>3, <2>4, <2>5 DEF StacksInv
<1> QED BY <1>1, <1>7, <1>8, <1>9, NothingRecordedNext DEF SSAInv

LEMMA InsertStep ==
  ASSUME SSAInv, insertPHI
  PROVE  SSAInv'
<1>1. /\ prog \in Bodies /\ prog' = prog /\ pass = "phi" /\ pass' = "phi"
      /\ usedRegs' = usedRegs /\ frames' = frames /\ UNCHANGED versions /\ UNCHANGED naming
      /\ NothingNamed /\ PlacingInv /\ FramesInv /\ StacksInv
  BY DEF SSAInv, insertPHI
<1>2. PICK d \in todo :
        LET new == {<<b, d[2]>> : b \in Frontier(d[1])} \ phis
        IN  phis' = phis \cup new /\ todo' = Placed(d, new)
  BY DEF insertPHI
<1> DEFINE new == {<<b, d[2]>> : b \in Frontier(d[1])} \ phis
<1>3. phis' = phis \cup new /\ todo' = (todo \ {d}) \cup new
  BY <1>2 DEF Placed
<1>4. d[1] \in Live /\ d[2] \in usedRegs /\ d = <<d[1], d[2]>> /\ HasDef(d[1], d[2]) /\ usedRegs \subseteq Region
  <2>1. d \in Live \X usedRegs
    BY <1>1 DEF PlacingInv
  <2>2. HasDef(d[1], d[2])
    BY <1>1 DEF PlacingInv
  <2> QED BY <1>1, <2>1, <2>2, RegionFacts
<1>5. ASSUME NEW e \in new
      PROVE  /\ e = <<e[1], d[2]>> /\ e[2] = d[2] /\ e[1] \in Frontier(d[1]) /\ e[1] \in Live
             /\ e[1] # prog.entry /\ ChiReaches(e[1], 1, d[2])
  <2>1. e = <<e[1], d[2]>> /\ e[2] = d[2] /\ e[1] \in Frontier(d[1])
    OBVIOUS
  <2>2. e[1] \in Live
    BY <2>1 DEF Frontier
  <2>3. PICK p \in Live : e[1] \in prog.succ[p] /\ Dominates(d[1], p)
    BY <2>1 DEF Frontier
  <2>4. e[1] # prog.entry
    BY <1>1, <2>3, LiveFacts
  <2>5. ChiReaches(d[1], EndOfBlock(d[1]), d[2])
    <3>1. d[2] \in Defined(d[1]) \/ ChiReaches(d[1], 1, d[2])
      BY <1>1, <1>4 DEF HasDef, PlacingInv
    <3> QED BY <1>1, <1>4, <3>1, ChiAtEnd
  <2>6. ChiReaches(p, EndOfBlock(p), d[2])
    BY <1>1, <1>4, <2>3, <2>5, ChiReachesOn
  <2>7. ChiReaches(e[1], 1, d[2])
    <3>1. p \in Before(e[1])
      BY <2>3 DEF Before
    <3> QED BY <1>1, <2>2, <2>6, <3>1, ReachNext DEF ChiReaches
  <2> QED BY <2>1, <2>2, <2>4, <2>7
<1> HIDE DEF new
<1>6. PlacingInv'
  <2>1. Live' = Live /\ \A b : Used(b)' = Used(b) /\ Defined(b)' = Defined(b)
    BY <1>1, SameGraph, SameDefs
  <2>2. (\A b : Frontier(b)' = Frontier(b)) /\ (\A b, r : ChiReaches(b, 1, r)' = ChiReaches(b, 1, r))
    BY <1>1, SameTree, SameReaching
  <2>3. usedRegs' = (UNION {Used(b) : b \in Live})'
    BY <1>1, <2>1 DEF PlacingInv
  <2>4. new \subseteq Live \X usedRegs
    BY <1>4, <1>5
  <2>5. phis' \subseteq Live' \X usedRegs' /\ todo' \subseteq Live' \X usedRegs'
    BY <1>1, <1>3, <2>1, <2>4 DEF PlacingInv
  <2>6. ASSUME NEW b \in Live, NEW r \in Region, HasDef(b, r)'
        PROVE  <<b, r>> \in todo' \/ \A c \in Frontier(b) : <<c, r>> \in phis'
    <3>1. CASE <<b, r>> \in new
      BY <3>1, <1>3
    <3>2. CASE <<b, r>> = d
      <4>1. b = d[1] /\ r = d[2]
        BY <3>2
      <4>2. \A c \in Frontier(b) : <<c, r>> \in phis \cup new
        BY <4>1 DEF new
      <4> QED BY <4>2, <1>3
    <3>3. CASE <<b, r>> \notin new /\ <<b, r>> # d
      <4>1. HasDef(b, r)
        BY <2>6, <2>1, <1>3, <3>3 DEF HasDef
      <4>2. <<b, r>> \in todo \/ \A c \in Frontier(b) : <<c, r>> \in phis
        BY <1>1, <4>1 DEF PlacingInv
      <4> QED BY <3>3, <4>2, <1>3
    <3> QED BY <3>1, <3>2, <3>3
  <2>7. ASSUME NEW e \in todo'
        PROVE  HasDef(e[1], e[2])'
    <3>1. CASE e \in todo
      <4>1. HasDef(e[1], e[2])
        BY <1>1, <3>1 DEF PlacingInv
      <4> QED BY <4>1, <2>1, <1>3 DEF HasDef
    <3>2. CASE e \in new
      <4>1. <<e[1], e[2]>> \in phis'
        BY <3>2, <1>3, <1>5
      <4> QED BY <4>1 DEF HasDef
    <3> QED BY <3>1, <3>2, <1>3
  <2>8. ASSUME NEW e \in phis'
        PROVE  ChiReaches(e[1], 1, e[2])' /\ e[1] # prog'.entry
    <3>1. CASE e \in phis
      <4>1. ChiReaches(e[1], 1, e[2]) /\ e[1] # prog.entry
        BY <1>1, <3>1 DEF PlacingInv
      <4> QED BY <4>1, <2>2, <1>1
    <3>2. CASE e \in new
      <4>1. ChiReaches(e[1], 1, e[2]) /\ e[1] # prog.entry
        BY <3>2, <1>5
      <4> QED BY <4>1, <2>2, <1>1
    <3> QED BY <3>1, <3>2, <1>3
  <2>9. \A e \in todo' : HasDef(e[1], e[2])'
    BY <2>7
  <2>10. \A e \in phis' : ChiReaches(e[1], 1, e[2])' /\ e[1] # prog'.entry
    BY <2>8
  <2>11. (\A b \in Live, r \in Region : HasDef(b, r) =>
            <<b, r>> \in todo \/ \A c \in Frontier(b) : <<c, r>> \in phis)'
    BY <2>1, <2>2, <2>6
  <2> QED BY <1>1, <2>3, <2>5, <2>9, <2>10, <2>11 DEF PlacingInv
<1>7. FramesInv'
  <2>1. frames' = <<>>
    BY <1>1 DEF FramesInv
  <2> QED BY <1>1, <2>1 DEF FramesInv
<1>8. StacksInv'
  BY <1>1 DEF StacksInv, naming
<1> QED BY <1>1, <1>6, <1>7, <1>8, NothingRecordedNext DEF SSAInv

-----------------------------------------------------------------------------
(* Renaming.  The call on top of the stack, and the version on top of a    *)
(* region's.                                                               *)
LEMMA CurrentFacts ==
  ASSUME SSAInv, frames # <<>>
  PROVE  /\ prog \in Bodies /\ pass = "rename" /\ usedRegs \subseteq Region
         /\ Len(frames) \in Nat /\ Len(frames) > 0
         /\ frames[Len(frames)] = Current
         /\ Current \in [bb : Live, at : Nat, memRegs : [Region -> Nat], children : SUBSET Live]
         /\ Current.at <= EndOfBlock(Current.bb) + 1
         /\ Current.children \subseteq Children(Current.bb)
         /\ NamedUpTo(Current.bb, Current.at)
<1>1. /\ prog \in Bodies /\ PlacingInv /\ FramesInv
      /\ frames \in Seq([bb : Live, at : Nat, memRegs : [Region -> Nat], children : SUBSET Live])
  BY DEF SSAInv, FramesInv
<1>2. Len(frames) \in Nat /\ Len(frames) > 0 /\ Len(frames) \in 1 .. Len(frames)
  BY <1>1
<1>3. frames[Len(frames)] = Current
  BY DEF Current
<1>4. Current \in [bb : Live, at : Nat, memRegs : [Region -> Nat], children : SUBSET Live]
  <2>1. \A F : frames \in Seq(F) => \A k \in 1 .. Len(frames) : frames[k] \in F
    OBVIOUS
  <2> QED BY <1>1, <1>2, <1>3, <2>1
<1>5. /\ Current.at <= EndOfBlock(Current.bb) + 1
      /\ Current.children \subseteq Children(Current.bb)
      /\ NamedUpTo(Current.bb, Current.at)
  BY <1>1, <1>2, <1>3 DEF FramesInv
<1> QED BY <1>1, <1>2, <1>3, <1>4, <1>5, RegionFacts DEF FramesInv

LEMMA TopFacts ==
  ASSUME SSAInv, frames # <<>>, NEW r \in usedRegs
  PROVE  /\ Len(stack[r]) \in Nat /\ Len(stack[r]) > 0
         /\ Top(r) \in Nat /\ Top(r) < counter[r] /\ counter[r] \in Nat /\ counter[r] > 1
         /\ Arrives(Current.bb, Current.at, r, Top(r))
<1> DEFINE n == Len(frames)
<1>1. StacksInv /\ pass = "rename" /\ r \in Region /\ n \in Nat /\ n > 0 /\ frames[n] = Current
  BY CurrentFacts DEF SSAInv
<1>2. PICK h : Heights(r, h)
  BY <1>1 DEF StacksInv
<1>3. stack[r] \in Seq(Nat) /\ counter[r] \in Nat /\ counter[r] > 1
  BY <1>1 DEF StacksInv
<1>4. h[n + 1] \in 1 .. Len(stack[r]) /\ h[n + 1] = Len(stack[r])
  BY <1>1, <1>2 DEF Heights
<1>5. Top(r) = stack[r][h[n + 1]]
  BY <1>4 DEF Top
<1>6. Top(r) \in Nat /\ Top(r) < counter[r]
  BY <1>1, <1>3, <1>4, <1>5 DEF StacksInv
<1>7. n \in 1 .. Len(frames)
  BY <1>1
<1>8. Arrives(Current.bb, Current.at, r, Top(r))
  BY <1>1, <1>2, <1>5, <1>7 DEF Heights
<1> QED BY <1>3, <1>4, <1>6, <1>8

LEMMA GotoFacts ==
  ASSUME NEW F, frames \in Seq(F), frames # <<>>, NEW f \in F, frames' = Goto(f)
  PROVE  /\ frames' \in Seq(F) /\ Len(frames') = Len(frames)
         /\ frames'[Len(frames)] = f
         /\ \A k \in 1 .. Len(frames) : k # Len(frames) => frames'[k] = frames[k]
<1>1. Len(frames) \in Nat /\ Len(frames) > 0 /\ Len(frames) \in 1 .. Len(frames)
  OBVIOUS
<1>2. frames' = [frames EXCEPT ![Len(frames)] = f]
  BY DEF Goto
<1> QED BY <1>1, <1>2

(* The current call goes on.                                               *)
LEMMA TopFrame ==
  ASSUME SSAInv, frames # <<>>, RecordsGrow, pass' = pass,
         NEW f, f \in [bb : Live, at : Nat, memRegs : [Region -> Nat], children : SUBSET Live],
         frames' = Goto(f), f.bb = Current.bb, f.at <= EndOfBlock(f.bb) + 1,
         f.children \subseteq Children(f.bb), NamedUpTo(f.bb, f.at)',
         f.at = EndOfBlock(f.bb) + 1 => \A c \in Children(f.bb) : c \in f.children \/ SubtreeNamed(c)
  PROVE  FramesInv'
<1> DEFINE F == [bb : Live, at : Nat, memRegs : [Region -> Nat], children : SUBSET Live]
           n == Len(frames)
<1>1. /\ frames \in Seq(F) /\ FramesInv /\ pass = "rename" /\ pass' = "rename" /\ prog' = prog
      /\ n \in Nat /\ n > 0 /\ frames[n] = Current
  BY CurrentFacts DEF SSAInv, FramesInv, RecordsGrow
<1>2. /\ frames' \in Seq(F) /\ Len(frames') = n /\ frames'[n] = f
      /\ \A k \in 1 .. n : k # n => frames'[k] = frames[k]
  BY <1>1, GotoFacts
<1>3. /\ Live' = Live /\ \A b : EndOfBlock(b)' = EndOfBlock(b) /\ Children(b)' = Children(b)
  BY <1>1, SameGraph, SameTree
<1>4. /\ \A b, i : NamedUpTo(b, i) => NamedUpTo(b, i)'
      /\ \A b : SubtreeNamed(b) => SubtreeNamed(b)'
  BY NamedKept
<1>5. \A k \in 1 .. n : frames'[k].bb = frames[k].bb
  BY <1>1, <1>2
<1>6. frames' # <<>> /\ frames'[1].bb = prog'.entry
  BY <1>1, <1>2, <1>5 DEF FramesInv
<1>7. ASSUME NEW k \in 1 .. n
      PROVE  /\ frames'[k].at <= EndOfBlock(frames'[k].bb) + 1
             /\ frames'[k].children \subseteq Children(frames'[k].bb)
             /\ NamedUpTo(frames[k].bb, frames[k].at)'
             /\ frames'[k].at = EndOfBlock(frames'[k].bb) + 1 =>
                  \A c \in Children(frames'[k].bb) :
                    \/ c \in frames'[k].children
                    \/ k < n /\ c = frames'[k + 1].bb
                    \/ SubtreeNamed(c)'
             /\ k < n =>
                  /\ frames'[k].at = EndOfBlock(frames'[k].bb) + 1
                  /\ frames'[k + 1].bb \in Children(frames'[k].bb)
  <2>1. CASE k = n
    <3>1. frames'[k] = f /\ ~(k < n)
      BY <1>1, <1>2, <2>1
    <3>2. NamedUpTo(frames[k].bb, frames[k].at)'
      BY <3>1
    <3> QED BY <3>1, <3>2, <1>4
  <2>2. CASE k # n
    <3>1. frames'[k] = frames[k] /\ k < n /\ k + 1 \in 1 .. n
      BY <1>1, <1>2, <2>2
    <3>2. frames'[k + 1].bb = frames[k + 1].bb
      BY <3>1, <1>5
    <3>3. /\ NamedUpTo(frames[k].bb, frames[k].at)
          /\ frames[k].at <= EndOfBlock(frames[k].bb) + 1
          /\ frames[k].children \subseteq Children(frames[k].bb)
          /\ frames[k].at = EndOfBlock(frames[k].bb) + 1
          /\ frames[k + 1].bb \in Children(frames[k].bb)
          /\ \A c \in Children(frames[k].bb) :
               c \in frames[k].children \/ (k < n /\ c = frames[k + 1].bb) \/ SubtreeNamed(c)
      <4>1. /\ NamedUpTo(frames[k].bb, frames[k].at)
            /\ frames[k].at <= EndOfBlock(frames[k].bb) + 1
            /\ frames[k].children \subseteq Children(frames[k].bb)
            /\ k < n => frames[k].at = EndOfBlock(frames[k].bb) + 1 /\ frames[k + 1].bb \in Children(frames[k].bb)
            /\ frames[k].at = EndOfBlock(frames[k].bb) + 1 =>
                 \A c \in Children(frames[k].bb) :
                   c \in frames[k].children \/ (k < n /\ c = frames[k + 1].bb) \/ SubtreeNamed(c)
        BY <1>1 DEF FramesInv
      <4> QED BY <4>1, <3>1
    <3>4. NamedUpTo(frames[k].bb, frames[k].at)'
      BY <3>1, <3>3, <1>4
    <3> QED BY <3>1, <3>2, <3>3, <3>4, <1>4
  <2> QED BY <2>1, <2>2
<1>8. \A k \in 1 .. n : NamedUpTo(frames[k].bb, frames[k].at)'
  BY <1>7
<1> HIDE DEF n
<1> QED BY <1>1, <1>2, <1>3, <1>6, <1>7, <1>8 DEF FramesInv

LEMMA ArrivesNext ==
  ASSUME prog \in Bodies, NEW b \in Live, NEW i \in Nat, NEW r, i \notin DefPoints(b, r),
         NEW v, Arrives(b, i, r, v)
  PROVE  Arrives(b, i + 1, r, v)
<1>1. \A j \in DefPoints(b, r) : j \in Nat /\ j # i
  BY PointFacts
<1>2. \A j \in DefPoints(b, r) : j < i + 1 <=> j < i
  BY <1>1
<1> QED BY <1>2 DEF Arrives, MadeBefore

(* regs have a definition at the point the current call is at: each of     *)
(* them gets a new version on its stack.                                   *)
NamesGiven(regs) ==
  /\ regs = {r \in Region : Current.at \in DefPoints(Current.bb, r)}
  /\ counter' = [r \in Region |-> IF r \in regs THEN counter[r] + 1 ELSE counter[r]]
  /\ stack' = [r \in Region |-> IF r \in regs THEN Append(stack[r], counter[r]) ELSE stack[r]]
  /\ frames' \in Seq([bb : Live, at : Nat, memRegs : [Region -> Nat], children : SUBSET Live])
  /\ Len(frames') = Len(frames)
  /\ \A k \in 1 .. Len(frames) : k # Len(frames) => frames'[k] = frames[k]
  /\ frames'[Len(frames)].bb = Current.bb
  /\ frames'[Len(frames)].at = Current.at + 1
  /\ \A r \in Region : frames'[Len(frames)].memRegs[r] = Current.memRegs[r] + IF r \in regs THEN 1 ELSE 0
  /\ Made' = Made \cup {<<Current.bb, Current.at, r, counter[r]>> : r \in regs}

LEMMA TopHeights ==
  ASSUME SSAInv, frames # <<>>, RecordsGrow, NEW regs, NamesGiven(regs), NEW r \in Region, NEW h, Heights(r, h),
         NEW n, n = Len(frames), NEW d, d = IF r \in regs THEN 1 ELSE 0,
         NEW g, g = [h EXCEPT ![n + 1] = @ + d]
  PROVE  Heights(r, g)'
<1>1. /\ prog \in Bodies /\ prog' = prog /\ n \in Nat /\ n > 0 /\ frames[n] = Current /\ Current.bb \in Live
      /\ Current.at \in Nat /\ StacksInv /\ Current.memRegs[r] \in Nat /\ d \in Nat
  BY CurrentFacts DEF SSAInv, RecordsGrow
<1>2. stack[r] \in Seq(Nat) /\ counter[r] \in Nat
  BY <1>1 DEF StacksInv
<1>3. /\ h \in [1 .. n + 1 -> 1 .. Len(stack[r])] /\ h[n + 1] = Len(stack[r])
      /\ \A k \in 1 .. n :
           /\ h[k + 1] = h[k] + frames[k].memRegs[r]
           /\ Inherits(frames[k].bb, r, stack[r][h[k]])
           /\ Arrives(frames[k].bb, frames[k].at, r, stack[r][h[k + 1]])
  BY DEF Heights
<1>4. stack'[r] = IF r \in regs THEN Append(stack[r], counter[r]) ELSE stack[r]
  BY DEF NamesGiven
<1>5. /\ stack'[r] \in Seq(Nat) /\ Len(stack'[r]) = Len(stack[r]) + d /\ Len(stack[r]) \in Nat
      /\ \A i \in 1 .. Len(stack[r]) : stack'[r][i] = stack[r][i]
      /\ r \in regs => stack'[r][Len(stack[r]) + 1] = counter[r]
  <2>1. CASE r \in regs
    <3>1. stack'[r] = Append(stack[r], counter[r]) /\ d = 1
      BY <2>1, <1>4
    <3>2. PICK s, e : s = stack[r] /\ e = counter[r]
      OBVIOUS
    <3>3. s \in Seq(Nat) /\ e \in Nat /\ stack'[r] = Append(s, e)
      BY <1>2, <3>1, <3>2
    <3>4. /\ Append(s, e) \in Seq(Nat) /\ Len(Append(s, e)) = Len(s) + 1 /\ Len(s) \in Nat
          /\ \A i \in 1 .. Len(s) : Append(s, e)[i] = s[i]
          /\ Append(s, e)[Len(s) + 1] = e
      BY <3>3
    <3> QED BY <3>1, <3>2, <3>3, <3>4
  <2>2. CASE r \notin regs
    <3>1. stack'[r] = stack[r] /\ d = 0
      BY <2>2, <1>4
    <3> QED BY <3>1, <2>2, <1>2
  <2> QED BY <2>1, <2>2
<1>6. /\ Len(frames') = n /\ \A k \in 1 .. n : k # n => frames'[k] = frames[k]
      /\ frames'[n].bb = Current.bb /\ frames'[n].at = Current.at + 1
      /\ frames'[n].memRegs[r] = Current.memRegs[r] + d
  BY DEF NamesGiven
<1>7. \A b, i, v : /\ Inherits(b, r, v) => Inherits(b, r, v)'
                   /\ Arrives(b, i, r, v) => Arrives(b, i, r, v)'
  BY ArrivesKept
<1>8. \A i \in 1 .. n : i \in 1 .. n + 1 /\ g[i] = h[i] /\ g[i] \in 1 .. Len(stack[r])
  <2>1. \A i \in 1 .. n : i \in 1 .. n + 1 /\ i # n + 1
    BY <1>1
  <2>2. \A i \in 1 .. n + 1 : i # n + 1 => g[i] = h[i]
    BY <1>3
  <2> QED BY <2>1, <2>2, <1>3
<1>9. g[n + 1] = Len(stack'[r]) /\ g[n + 1] \in 1 .. Len(stack'[r])
  <2>1. n + 1 \in 1 .. n + 1
    BY <1>1
  <2>2. g[n + 1] = h[n + 1] + d /\ h[n + 1] \in 1 .. Len(stack[r])
    BY <2>1, <1>3
  <2>3. PICK x : x = g[n + 1]
    OBVIOUS
  <2>4. x = Len(stack[r]) + d /\ Len(stack[r]) >= 1
    BY <2>2, <2>3, <1>3, <1>5
  <2>5. x = Len(stack'[r])
    BY <2>4, <1>5
  <2>6. Len(stack[r]) \in Nat
    BY <1>5
  <2>7. x \in 1 .. x
    <3>1. \A y, z \in Nat : y >= 1 => y + z \in 1 .. y + z
      OBVIOUS
    <3> QED BY <2>4, <2>6, <1>1, <3>1
  <2> QED BY <2>3, <2>5, <2>7
<1>10. g \in [1 .. n + 1 -> 1 .. Len(stack'[r])]
  <2>1. g = [i \in 1 .. n + 1 |-> g[i]]
    BY <1>3
  <2>2. ASSUME NEW i \in 1 .. n + 1
        PROVE  g[i] \in 1 .. Len(stack'[r])
    <3>1. CASE i = n + 1
      BY <3>1, <1>9
    <3>2. CASE i # n + 1
      <4>1. i \in 1 .. n
        BY <3>2, <1>1
      <4>2. g[i] \in 1 .. Len(stack[r])
        BY <4>1, <1>8
      <4>3. Len(stack'[r]) = Len(stack[r]) + d /\ Len(stack[r]) \in Nat
        BY <1>5
      <4>4. \A x, y \in Nat : \A z \in 1 .. x : z \in 1 .. x + y
        OBVIOUS
      <4> QED BY <4>2, <4>3, <4>4, <1>1
    <3> QED BY <3>1, <3>2
  <2> QED BY <2>1, <2>2
<1>11. PICK b, i : b = Current.bb /\ i = Current.at
  OBVIOUS
<1>12. Arrives(b, i + 1, r, stack[r][Len(stack[r])])'
  <2>1. CASE r \in regs
    <3>1. i \in DefPoints(b, r) /\ <<b, i, r, counter[r]>> \in Made'
      BY <2>1, <1>11 DEF NamesGiven
    <3>2. DefPoints(b, r)' = DefPoints(b, r)
      BY PointsKept
    <3>3. \A j \in DefPoints(b, r) : j \in Nat /\ (j < i + 1 => j <= i)
      <4>1. \A j \in DefPoints(b, r) : j \in Nat
        BY <1>1, <1>11, PointFacts
      <4> QED BY <4>1, <1>1, <1>11
    <3>4. stack'[r][Len(stack'[r])] = counter[r]
      <4>1. Len(stack'[r]) = Len(stack[r]) + 1
        BY <2>1, <1>5
      <4> QED BY <4>1, <2>1, <1>5
    <3>5. i < i + 1
      BY <1>1, <1>11
    <3>6. PICK v : v = counter[r]
      OBVIOUS
    <3>7. MadeBefore(b, i + 1, r, v)'
      BY <3>1, <3>2, <3>3, <3>5, <3>6 DEF MadeBefore
    <3>8. Arrives(b, i + 1, r, v)'
      BY <3>7 DEF Arrives
    <3> QED BY <3>4, <3>6, <3>8
  <2>2. CASE r \notin regs
    <3>1. i \notin DefPoints(b, r)
      BY <2>2, <1>11 DEF NamesGiven
    <3>2. stack'[r] = stack[r]
      BY <2>2, <1>4
    <3>3. n \in 1 .. n
      BY <1>1
    <3>4. Arrives(b, i, r, stack[r][Len(stack[r])])
      BY <1>1, <1>3, <1>11, <3>3
    <3>5. Arrives(b, i + 1, r, stack[r][Len(stack[r])])
      BY <1>1, <1>11, <3>1, <3>4, ArrivesNext
    <3>6. PICK v : v = stack[r][Len(stack[r])]
      OBVIOUS
    <3>7. Arrives(b, i + 1, r, v)'
      BY <3>5, <3>6, <1>7
    <3> QED BY <3>2, <3>6, <3>7
  <2> QED BY <2>1, <2>2
<1>13. ASSUME NEW k \in 1 .. n
       PROVE  /\ g[k + 1] = g[k] + frames'[k].memRegs[r]
              /\ Inherits(frames[k].bb, r, stack[r][g[k]])'
              /\ Arrives(frames[k].bb, frames[k].at, r, stack[r][g[k + 1]])'
  <2>1. Inherits(frames[k].bb, r, stack[r][g[k]])'
    <3>1. frames'[k].bb = frames[k].bb
      BY <1>1, <1>6
    <3>2. stack'[r][g[k]] = stack[r][h[k]]
      BY <1>5, <1>8
    <3>3. Inherits(frames[k].bb, r, stack[r][h[k]])
      BY <1>3
    <3>4. PICK c, v : c = frames[k].bb /\ v = stack[r][h[k]]
      OBVIOUS
    <3>5. Inherits(c, r, v)'
      BY <3>3, <3>4, <1>7
    <3> QED BY <3>1, <3>2, <3>4, <3>5
  <2>2. CASE k = n
    <3>1. g[k + 1] = g[k] + frames'[k].memRegs[r]
      <4>1. g[n + 1] = Len(stack[r]) + d
        BY <1>5, <1>9
      <4>2. Len(stack[r]) = h[n] + Current.memRegs[r] /\ g[n] = h[n]
        BY <2>2, <1>1, <1>3, <1>8
      <4>3. h[n] \in Nat
        BY <2>2, <1>2, <1>8
      <4> QED BY <2>2, <1>1, <1>6, <4>1, <4>2, <4>3
    <3>2. Arrives(frames[k].bb, frames[k].at, r, stack[r][g[k + 1]])'
      BY <2>2, <1>6, <1>9, <1>11, <1>12
    <3> QED BY <2>1, <3>1, <3>2
  <2>3. CASE k # n
    <3>1. frames'[k] = frames[k] /\ k + 1 \in 1 .. n
      BY <1>1, <1>6, <2>3
    <3>2. stack'[r][g[k + 1]] = stack[r][h[k + 1]] /\ g[k + 1] = h[k + 1] /\ g[k] = h[k]
      BY <3>1, <1>5, <1>8
    <3>3. PICK c, j, v : c = frames[k].bb /\ j = frames[k].at /\ v = stack[r][h[k + 1]]
      OBVIOUS
    <3>4. Arrives(c, j, r, v)'
      BY <3>3, <1>3, <1>7
    <3>5. Arrives(frames[k].bb, frames[k].at, r, stack[r][g[k + 1]])'
      BY <3>1, <3>2, <3>3, <3>4
    <3> QED BY <2>1, <3>1, <3>2, <3>5, <1>3
  <2> QED BY <2>2, <2>3
<1>14. \A k \in 1 .. n : /\ Inherits(frames[k].bb, r, stack[r][g[k]])'
                         /\ Arrives(frames[k].bb, frames[k].at, r, stack[r][g[k + 1]])'
  BY <1>13
<1> QED BY <1>6, <1>9, <1>10, <1>13, <1>14 DEF Heights
LEMMA GivenFacts ==
  ASSUME SSAInv, frames # <<>>, NEW regs, NamesGiven(regs)
  PROVE  /\ regs \subseteq usedRegs
         /\ \A r \in Region : counter[r] \in Nat /\ counter'[r] \in Nat /\ counter[r] <= counter'[r]
         /\ \A r \in regs : counter'[r] = counter[r] + 1
<1>1. /\ prog \in Bodies /\ PlacingInv /\ StacksInv /\ pass = "rename" /\ Current.bb \in Live
      /\ usedRegs \subseteq Region
  BY CurrentFacts DEF SSAInv
<1>2. regs \subseteq usedRegs
  <2> SUFFICES ASSUME NEW r \in regs PROVE r \in usedRegs
    OBVIOUS
  <2>1. r \in Region /\ DefPoints(Current.bb, r) # {}
    BY DEF NamesGiven
  <2>2. HasDef(Current.bb, r)
    BY <1>1, <2>1, PointFacts
  <2> QED BY <1>1, <2>2, RegionFacts
<1>3. \A r \in Region : counter[r] \in Nat
  BY <1>1 DEF StacksInv
<1>4. \A r \in Region : counter'[r] = IF r \in regs THEN counter[r] + 1 ELSE counter[r]
  BY DEF NamesGiven
<1>5. \A r \in Region : counter'[r] \in Nat /\ counter[r] <= counter'[r]
  BY <1>3, <1>4
<1> QED BY <1>1, <1>2, <1>3, <1>4, <1>5

LEMMA GivenStacks ==
  ASSUME SSAInv, frames # <<>>, RecordsGrow, pass' = pass, NEW regs, NamesGiven(regs)
  PROVE  StacksInv'
<1>1. StacksInv /\ pass = "rename" /\ usedRegs' = usedRegs /\ usedRegs \subseteq Region
  BY CurrentFacts DEF SSAInv, RecordsGrow
<1>2. /\ counter' = [r \in Region |-> IF r \in regs THEN counter[r] + 1 ELSE counter[r]]
      /\ stack' = [r \in Region |-> IF r \in regs THEN Append(stack[r], counter[r]) ELSE stack[r]]
  BY DEF NamesGiven
<1>3. \A r \in Region : counter[r] \in Nat /\ counter'[r] \in Nat /\ counter[r] <= counter'[r]
  BY GivenFacts
<1>4. ASSUME NEW r \in Region
      PROVE  stack'[r] \in Seq(Nat) /\ \A i \in 1 .. Len(stack'[r]) : stack'[r][i] < counter'[r]
  <2>1. stack[r] \in Seq(Nat) /\ \A i \in 1 .. Len(stack[r]) : stack[r][i] < counter[r]
    BY <1>1 DEF StacksInv
  <2>2. CASE r \in regs
    <3>1. PICK s, e : s = stack[r] /\ e = counter[r]
      OBVIOUS
    <3>2. s \in Seq(Nat) /\ e \in Nat /\ stack'[r] = Append(s, e) /\ counter'[r] = e + 1
      BY <1>2, <1>3, <2>1, <2>2, <3>1
    <3>3. Append(s, e) \in Seq(Nat)
      BY <3>2
    <3>4. ASSUME NEW i \in 1 .. Len(Append(s, e))
          PROVE  Append(s, e)[i] < e + 1
      <4>1. CASE i = Len(s) + 1
        BY <3>2, <4>1
      <4>2. CASE i # Len(s) + 1
        <5>1. i \in 1 .. Len(s) /\ Append(s, e)[i] = s[i]
          BY <3>2, <4>2
        <5>2. s[i] < e /\ s[i] \in Nat
          BY <2>1, <3>1, <3>2, <5>1
        <5> QED BY <3>2, <5>1, <5>2
      <4> QED BY <4>1, <4>2
    <3> QED BY <3>2, <3>3, <3>4
  <2>3. CASE r \notin regs
    BY <1>2, <2>1, <2>3
  <2> QED BY <2>2, <2>3
<1>5. stack' \in [Region -> Seq(Nat)] /\ counter' \in [Region -> Nat]
  <2>1. \A r \in Region : stack'[r] \in Seq(Nat) /\ counter'[r] \in Nat
    BY <1>3, <1>4
  <2>2. stack' = [r \in Region |-> stack'[r]] /\ counter' = [r \in Region |-> counter'[r]]
    BY <1>2
  <2> QED BY <2>1, <2>2
<1>6. ASSUME NEW r \in usedRegs
      PROVE  counter'[r] > 1 /\ \E h : Heights(r, h)'
  <2>1. counter[r] > 1 /\ r \in Region
    BY <1>1 DEF StacksInv
  <2>2. counter'[r] > 1
    BY <2>1, <1>3
  <2>3. PICK h : Heights(r, h)
    BY <1>1 DEF StacksInv
  <2>4. PICK n, d : n = Len(frames) /\ d = IF r \in regs THEN 1 ELSE 0
    OBVIOUS
  <2>5. PICK g : g = [h EXCEPT ![n + 1] = @ + d]
    OBVIOUS
  <2>6. Heights(r, g)'
    BY <2>1, <2>3, <2>4, <2>5, TopHeights
  <2> QED BY <2>2, <2>6
<1>7. (pass = "rename" => \A r \in usedRegs : counter[r] > 1 /\ \E h : Heights(r, h))'
  BY <1>1, <1>6
<1>8. (\A r \in Region : \A i \in 1 .. Len(stack[r]) : stack[r][i] < counter[r])'
  BY <1>4
<1> QED BY <1>1, <1>5, <1>7, <1>8 DEF StacksInv

(* A new version is one that was not made before.                          *)
LEMMA GivenMade ==
  ASSUME SSAInv, frames # <<>>, RecordsGrow, NEW regs, NamesGiven(regs)
  PROVE  (/\ \A m \in Made : IsMade(m)
          /\ \A m, n \in Made : m[3] = n[3] /\ m[4] = n[4] => m = n)'
<1>1. WritesInv /\ usedRegs' = usedRegs /\ usedRegs \subseteq Region
  BY CurrentFacts DEF SSAInv, RecordsGrow
<1>2. /\ regs \subseteq usedRegs
      /\ \A r \in Region : counter[r] \in Nat /\ counter'[r] \in Nat /\ counter[r] <= counter'[r]
      /\ \A r \in regs : counter'[r] = counter[r] + 1
  BY GivenFacts
<1> DEFINE new == {<<Current.bb, Current.at, r, counter[r]>> : r \in regs}
<1>3. Made' = Made \cup new
  BY DEF NamesGiven
<1>4. ASSUME NEW m \in Made
      PROVE  m[3] \in usedRegs /\ m[4] \in Nat /\ m[4] > 1 /\ m[4] < counter[m[3]] /\ m[4] < counter'[m[3]]
  <2>1. m[3] \in usedRegs /\ m[4] \in Nat /\ m[4] > 1 /\ m[4] < counter[m[3]]
    BY <1>1 DEF WritesInv, IsMade
  <2> QED BY <1>1, <1>2, <2>1
<1>5. ASSUME NEW m \in new
      PROVE  /\ m = <<Current.bb, Current.at, m[3], m[4]>> /\ m[3] \in regs /\ m[4] = counter[m[3]]
             /\ m[3] \in usedRegs /\ m[4] \in Nat /\ m[4] > 1 /\ m[4] < counter'[m[3]]
  <2>1. PICK r \in regs : m = <<Current.bb, Current.at, r, counter[r]>>
    OBVIOUS
  <2>2. m[3] = r /\ m[4] = counter[r] /\ m = <<Current.bb, Current.at, m[3], m[4]>>
    BY <2>1
  <2>3. counter[r] \in Nat /\ counter[r] > 1 /\ counter'[r] = counter[r] + 1
    BY <1>1, <1>2, TopFacts
  <2> QED BY <1>2, <2>2, <2>3
<1> HIDE DEF new
<1>6. ASSUME NEW m \in Made'
      PROVE  IsMade(m)'
  <2>1. m[3] \in usedRegs /\ m[4] \in Nat /\ m[4] > 1 /\ m[4] < counter'[m[3]]
    BY <1>3, <1>4, <1>5
  <2> QED BY <1>1, <2>1 DEF IsMade
<1>7. ASSUME NEW m \in Made', NEW n \in Made', m[3] = n[3], m[4] = n[4]
      PROVE  m = n
  <2>1. CASE m \in Made /\ n \in Made
    BY <1>1, <1>7, <2>1 DEF WritesInv
  <2>2. CASE m \in Made /\ n \in new
    BY <1>4, <1>5, <1>7, <2>2
  <2>3. CASE m \in new /\ n \in Made
    BY <1>4, <1>5, <1>7, <2>3
  <2>4. CASE m \in new /\ n \in new
    BY <1>5, <1>7, <2>4
  <2> QED BY <1>3, <2>1, <2>2, <2>3, <2>4
<1> QED BY <1>6, <1>7

(* What was recorded stays right.                                          *)
LEMMA RecordsStay ==
  ASSUME SSAInv, RecordsGrow,
         \A r \in Region : counter[r] \in Nat /\ counter'[r] \in Nat /\ counter[r] <= counter'[r]
  PROVE  /\ \A u \in reads : IsRead(u)'
         /\ \A u \in returns : IsReturn(u)'
         /\ \A o \in phiOps : IsPhiOp(o)'
         /\ \A w \in writes : IsWrite(w)'
<1>1. /\ ReadsInv /\ WritesInv /\ prog' = prog /\ usedRegs' = usedRegs /\ phis' = phis
      /\ usedRegs \subseteq Region /\ phis \subseteq Live \X usedRegs
  BY RegionFacts DEF SSAInv, RecordsGrow, PlacingInv
<1>2. Live' = Live /\ (\A b : EndOfBlock(b)' = EndOfBlock(b)) /\ \A b, r : DefsIn(b, r)' = DefsIn(b, r)
  BY <1>1, SameGraph, SameDefs
<1>3. \A b, i, r, v : Arrives(b, i, r, v) => Arrives(b, i, r, v)'
  BY ArrivesKept
<1>4. \A r \in usedRegs : \A v \in Nat : v < counter[r] => v < counter'[r]
  BY <1>1
<1>5. ASSUME NEW u \in reads
      PROVE  IsRead(u)'
  BY <1>1, <1>2, <1>3, <1>4 DEF ReadsInv, IsRead
<1>6. ASSUME NEW u \in returns
      PROVE  IsReturn(u)'
  <2>1. PICK b \in prog.ret \cap Live : Arrives(b, EndOfBlock(b), u[1], u[2])
    BY <1>1 DEF ReadsInv, IsReturn
  <2>2. Arrives(b, EndOfBlock(b), u[1], u[2])'
    BY <2>1, <1>2, <1>3
  <2> QED BY <1>1, <1>2, <2>2 DEF ReadsInv, IsReturn
<1>7. ASSUME NEW o \in phiOps
      PROVE  IsPhiOp(o)'
  <2>1. /\ o[3] \in Live /\ o[1] \in prog.succ[o[3]] /\ <<o[1], o[2]>> \in phis
        /\ o[4] \in Nat /\ o[4] < counter[o[2]]
        /\ Arrives(o[3], EndOfBlock(o[3]), o[2], o[4])
    BY <1>1 DEF ReadsInv, IsPhiOp
  <2>2. o[2] \in usedRegs
    BY <1>1, <2>1
  <2>3. Arrives(o[3], EndOfBlock(o[3]), o[2], o[4])'
    BY <2>1, <1>2, <1>3
  <2> QED BY <1>1, <1>2, <1>4, <2>1, <2>2, <2>3 DEF IsPhiOp
<1>8. ASSUME NEW w \in writes
      PROVE  IsWrite(w)'
  BY <1>1, <1>2, <1>3 DEF WritesInv, IsWrite
<1> QED BY <1>5, <1>6, <1>7, <1>8
LEMMA StartStep ==
  ASSUME SSAInv, SSARename
  PROVE  SSAInv'
<1>1. /\ prog \in Bodies /\ prog' = prog /\ pass = "phi" /\ todo = {} /\ pass' = "rename"
      /\ frames' = <<Called(prog.entry)>> /\ UNCHANGED placing /\ UNCHANGED naming /\ UNCHANGED versions
      /\ NothingNamed /\ PlacingInv /\ StacksInv
  BY DEF SSAInv, SSARename
<1>2. NothingNamed' /\ ReadsInv' /\ WritesInv'
  BY <1>1, NothingRecordedNext
<1>3. PlacingInv'
  BY <1>1, PlacingKept
<1>4. RecordsGrow
  BY <1>1 DEF RecordsGrow, placing, versions, Made
<1>5. PICK e : e = prog.entry
  OBVIOUS
<1>6. e \in Live /\ Live' = Live /\ usedRegs \subseteq Region
  BY <1>1, <1>5, LiveFacts, SameGraph, RegionFacts
<1>7. EndOfBlock(e) \in Nat /\ EndOfBlock(e)' = EndOfBlock(e)
  BY <1>1, <1>6, DefFacts, SameGraph
<1>8. \A r : \A j \in DefPoints(e, r) : j \in Nat /\ ~(j < 0)
  <2>1. \A r : \A j \in DefPoints(e, r) : j \in Nat
    BY <1>1, <1>6, PointFacts
  <2> QED BY <2>1
<1>9. /\ Len(frames') = 1 /\ frames'[1] = Called(e) /\ frames' # <<>>
      /\ \A F : Called(e) \in F => frames' \in Seq(F)
  BY <1>1, <1>5
<1>10. FramesInv'
  <2>1. Called(e) \in [bb : Live, at : Nat, memRegs : [Region -> Nat], children : SUBSET Live]
    BY <1>6 DEF Called, None
  <2>2. NamedUpTo(e, 0)'
    <3>1. \A r : DefPoints(e, r)' = DefPoints(e, r)
      BY <1>4, PointsKept
    <3>2. ~(0 > EndOfBlock(e))
      BY <1>7
    <3> QED BY <1>7, <1>8, <3>1, <3>2 DEF NamedUpTo
  <2>3. Called(e).bb = e /\ Called(e).at = 0 /\ Called(e).children = {}
    BY DEF Called
  <2>4. frames' \in Seq([bb : Live', at : Nat, memRegs : [Region -> Nat], children : SUBSET Live'])
    BY <1>6, <1>9, <2>1
  <2>5. \A k \in 1 .. Len(frames') : k = 1
    BY <1>9
  <2>6. ASSUME NEW k \in 1 .. Len(frames')
        PROVE  /\ frames'[k].children = {}
               /\ (frames[k].at <= EndOfBlock(frames[k].bb) + 1)'
               /\ (frames[k].at # EndOfBlock(frames[k].bb) + 1)'
               /\ NamedUpTo(frames[k].bb, frames[k].at)'
               /\ ~(k < Len(frames'))
    <3>1. frames'[k].bb = e /\ frames'[k].at = 0 /\ frames'[k].children = {} /\ ~(k < Len(frames'))
      BY <1>9, <2>3, <2>5
    <3>2. 0 <= EndOfBlock(e) + 1 /\ 0 # EndOfBlock(e) + 1
      BY <1>7
    <3>3. NamedUpTo(frames[k].bb, frames[k].at)'
      BY <2>2, <3>1
    <3> QED BY <1>7, <3>1, <3>2, <3>3
  <2>7. \A k \in 1 .. Len(frames') :
          /\ NamedUpTo(frames[k].bb, frames[k].at)'
          /\ (frames[k].at <= EndOfBlock(frames[k].bb) + 1)'
          /\ (frames[k].at # EndOfBlock(frames[k].bb) + 1)'
    BY <2>6
  <2>8. frames'[1].bb = prog'.entry
    BY <1>1, <1>5, <1>9, <2>3
  <2> QED BY <1>1, <1>9, <2>4, <2>6, <2>7, <2>8 DEF FramesInv
<1>11. StacksInv'
  <2>1. stack' = stack /\ counter' = counter /\ usedRegs' = usedRegs
    BY <1>1 DEF naming, placing
  <2>2. ASSUME NEW r \in usedRegs
        PROVE  counter'[r] > 1 /\ \E h : Heights(r, h)'
    <3>1. stack'[r] = <<0, 1>> /\ counter'[r] = 2
      BY <1>1, <2>1 DEF StacksInv
    <3>2. Len(<<0, 1>>) = 2 /\ <<0, 1>>[2] = 1
      OBVIOUS
    <3>3. PICK h : h = [i \in 1 .. 2 |-> 2]
      OBVIOUS
    <3>4. Inherits(e, r, 1)'
      <4>1. \A x \in Live : ~StrictlyDominates(x, e)
        BY <1>1, <1>5, NothingAboveEntry
      <4>2. Inherits(e, r, 1)
        BY <4>1 DEF Inherits
      <4> QED BY <4>2, <1>4, ArrivesKept
    <3>5. Arrives(e, 0, r, 1)'
      <4>1. DefPoints(e, r)' = DefPoints(e, r)
        BY <1>4, PointsKept
      <4> QED BY <3>4, <4>1, <1>8 DEF Arrives
    <3>6. frames'[1].bb = e /\ frames'[1].at = 0 /\ frames'[1].memRegs[r] = 0
      BY <1>6, <1>9 DEF Called, None
    <3>7. h \in [1 .. 1 + 1 -> 1 .. 2] /\ h[1 + 1] = 2 /\ h[1] = 2 /\ h[1 + 1] = h[1] + 0
      BY <3>3
    <3>8. ASSUME NEW k \in 1 .. 1
          PROVE  /\ h[k + 1] = h[k] + frames'[k].memRegs[r]
                 /\ Inherits(frames[k].bb, r, stack[r][h[k]])'
                 /\ Arrives(frames[k].bb, frames[k].at, r, stack[r][h[k + 1]])'
      <4>1. k = 1
        OBVIOUS
      <4>2. stack'[r][h[1]] = 1 /\ stack'[r][h[1 + 1]] = 1
        BY <3>1, <3>2, <3>7
      <4>3. Inherits(frames[k].bb, r, stack[r][h[k]])'
        BY <4>1, <4>2, <3>4, <3>6
      <4>4. Arrives(frames[k].bb, frames[k].at, r, stack[r][h[k + 1]])'
        BY <4>1, <4>2, <3>5, <3>6
      <4> QED BY <4>1, <4>3, <4>4, <3>6, <3>7
    <3>9. Heights(r, h)'
      BY <1>9, <3>1, <3>2, <3>7, <3>8 DEF Heights
    <3> QED BY <3>1, <3>9
  <2> QED BY <1>1, <2>1, <2>2 DEF StacksInv
<1> QED BY <1>1, <1>2, <1>3, <1>10, <1>11 DEF SSAInv

(* Definitions are renamed.                                                *)
LEMMA NewNamesGive ==
  ASSUME SSAInv, frames # <<>>, NEW regs, NewNames(regs),
         regs = {r \in Region : Current.at \in DefPoints(Current.bb, r)},
         Made' = Made \cup {<<Current.bb, Current.at, r, counter[r]>> : r \in regs}
  PROVE  /\ NamesGiven(regs)
         /\ \E f \in [bb : Live, at : Nat, memRegs : [Region -> Nat], children : SUBSET Live] :
              /\ frames' = Goto(f) /\ f.bb = Current.bb /\ f.at = Current.at + 1
              /\ f.children = Current.children
<1> DEFINE F == [bb : Live, at : Nat, memRegs : [Region -> Nat], children : SUBSET Live]
           given == [r \in Region |-> Current.memRegs[r] + IF r \in regs THEN 1 ELSE 0]
           g == [Current EXCEPT !.at = @ + 1,
                                !.memRegs = [r \in Region |-> @[r] + IF r \in regs THEN 1 ELSE 0]]
<1>1. frames \in Seq(F) /\ Current \in F
  BY CurrentFacts DEF SSAInv, FramesInv
<1>2. PICK f : f = g
  OBVIOUS
<1>3. frames' = Goto(f)
  BY <1>2 DEF NewNames
<1>4. given \in [Region -> Nat]
  BY <1>1
<1>5. f = [Current EXCEPT !.at = @ + 1, !.memRegs = given]
  BY <1>1, <1>2
<1>6. f.bb = Current.bb /\ f.at = Current.at + 1 /\ f.memRegs = given /\ f.children = Current.children
  BY <1>1, <1>5
<1>7. f \in F
  <2> HIDE DEF given
  <2>1. Current.at + 1 \in Nat /\ Current.bb \in Live /\ Current.children \in SUBSET Live
    BY <1>1
  <2>2. f = [bb |-> Current.bb, at |-> Current.at + 1, memRegs |-> given, children |-> Current.children]
    BY <1>1, <1>5
  <2> QED BY <1>4, <2>1, <2>2
<1>8. \A r \in Region : f.memRegs[r] = Current.memRegs[r] + IF r \in regs THEN 1 ELSE 0
  BY <1>6, SMTT(20)
<1>9. /\ frames' \in Seq(F) /\ Len(frames') = Len(frames) /\ frames'[Len(frames)] = f
      /\ \A k \in 1 .. Len(frames) : k # Len(frames) => frames'[k] = frames[k]
  BY <1>1, <1>3, <1>7, GotoFacts
<1> HIDE DEF g, given
<1>10. NamesGiven(regs)
  BY <1>6, <1>8, <1>9 DEF NamesGiven, NewNames
<1> QED BY <1>3, <1>6, <1>7, <1>10

LEMMA GivenStep ==
  ASSUME SSAInv, frames # <<>>, NEW regs, NewNames(regs), Current.at < EndOfBlock(Current.bb),
         regs = {r \in Region : Current.at \in DefPoints(Current.bb, r)},
         Made' = Made \cup {<<Current.bb, Current.at, r, counter[r]>> : r \in regs},
         prog' = prog, pass' = pass, UNCHANGED placing, phiOps' = phiOps, returns' = returns
  PROVE  /\ RecordsGrow /\ NamesGiven(regs)
         /\ prog' \in Bodies /\ pass' = "rename"
         /\ PlacingInv' /\ FramesInv' /\ StacksInv'
         /\ (\A m \in Made : IsMade(m))'
         /\ (\A m, n \in Made : m[3] = n[3] /\ m[4] = n[4] => m = n)'
<1>1. /\ prog \in Bodies /\ PlacingInv /\ pass = "rename" /\ Current.bb \in Live /\ Current.at \in Nat
      /\ Current.children \subseteq Children(Current.bb) /\ NamedUpTo(Current.bb, Current.at)
  BY CurrentFacts DEF SSAInv
<1>2. RecordsGrow
  BY DEF RecordsGrow, placing
<1>3. NamesGiven(regs)
  BY NewNamesGive
<1>4. PICK f \in [bb : Live, at : Nat, memRegs : [Region -> Nat], children : SUBSET Live] :
        /\ frames' = Goto(f) /\ f.bb = Current.bb /\ f.at = Current.at + 1 /\ f.children = Current.children
  BY NewNamesGive
<1>5. PICK b, i : b = Current.bb /\ i = Current.at
  OBVIOUS
<1>6. EndOfBlock(b) \in Nat /\ i \in Nat /\ i < EndOfBlock(b) /\ b \in Live
  BY <1>1, <1>5, DefFacts
<1>7. NamedUpTo(b, i + 1)'
  <2>1. EndOfBlock(b)' = EndOfBlock(b) /\ ~(i + 1 > EndOfBlock(b))
    BY <1>6, SameGraph
  <2>2. \A r : DefPoints(b, r)' = DefPoints(b, r)
    BY <1>2, PointsKept
  <2>3. ASSUME NEW r \in Region, NEW j \in DefPoints(b, r), j < i + 1
        PROVE  \E m \in Made' : m[1] = b /\ m[2] = j /\ m[3] = r
    <3>1. j \in Nat
      BY <1>1, <1>6, PointFacts
    <3>2. CASE j = i
      <4>1. r \in regs
        BY <1>5, <3>2
      <4>2. <<b, i, r, counter[r]>> \in Made'
        BY <4>1, <1>5
      <4> QED BY <3>2, <4>2
    <3>3. CASE j # i
      <4>1. j < i
        BY <1>6, <2>3, <3>1, <3>3
      <4>2. \E m \in Made : m[1] = b /\ m[2] = j /\ m[3] = r
        BY <1>1, <1>5, <4>1 DEF NamedUpTo
      <4> QED BY <4>2
    <3> QED BY <3>2, <3>3
  <2> QED BY <2>1, <2>2, <2>3 DEF NamedUpTo
<1>8. f.at <= EndOfBlock(f.bb) + 1 /\ f.at # EndOfBlock(f.bb) + 1
  BY <1>4, <1>5, <1>6
<1>9. NamedUpTo(f.bb, f.at)'
  BY <1>4, <1>5, <1>7
<1>10. FramesInv'
  BY <1>1, <1>2, <1>4, <1>8, <1>9, TopFrame
<1>11. StacksInv'
  BY <1>2, <1>3, GivenStacks
<1>12. PlacingInv'
  BY <1>1, PlacingKept
<1> QED BY <1>1, <1>2, <1>3, <1>10, <1>11, <1>12, GivenMade

LEMMA PhiResStep ==
  ASSUME SSAInv, RenamePhiRes
  PROVE  SSAInv'
<1> DEFINE bb == Current.bb
           regs == PhisOf(bb)
<1>1. /\ frames # <<>> /\ Current.at = 0 /\ NewNames(regs)
      /\ phiRes' = phiRes \cup {<<bb, r, counter[r]>> : r \in regs}
      /\ prog' = prog /\ pass' = pass /\ UNCHANGED placing /\ reads' = reads /\ writes' = writes
      /\ phiOps' = phiOps /\ returns' = returns
  BY DEF RenamePhiRes
<1>2. /\ prog \in Bodies /\ PlacingInv /\ ReadsInv /\ WritesInv /\ bb \in Live /\ usedRegs \subseteq Region
      /\ phis \subseteq Live \X usedRegs
  BY <1>1, CurrentFacts DEF SSAInv, PlacingInv
<1>3. \A r : r \in regs <=> r \in Region /\ Current.at \in DefPoints(bb, r)
  <2>1. \A r : r \in regs <=> <<bb, r>> \in phis
    <3>1. \A d \in phis : d = <<d[1], d[2]>>
      BY <1>2
    <3> QED BY <3>1 DEF PhisOf
  <2>2. \A r : <<bb, r>> \in phis => r \in Region
    BY <1>2
  <2>3. \A r : 0 \in DefPoints(bb, r) <=> <<bb, r>> \in phis
    BY <1>2, PointFacts
  <2> QED BY <1>1, <2>1, <2>2, <2>3
<1>4. regs = {r \in Region : Current.at \in DefPoints(bb, r)}
  BY <1>3
<1>5. Made' = Made \cup {<<bb, Current.at, r, counter[r]>> : r \in regs}
  <2> DEFINE new == {<<bb, r, counter[r]>> : r \in regs}
  <2>1. {<<p[1], 0, p[2], p[3]>> : p \in new} = {<<bb, 0, r, counter[r]>> : r \in regs}
    <3> HIDE DEF regs, bb
    <3>1. ASSUME NEW p \in new
          PROVE  <<p[1], 0, p[2], p[3]>> \in {<<bb, 0, r, counter[r]>> : r \in regs}
      <4>1. PICK r \in regs : p = <<bb, r, counter[r]>>
        OBVIOUS
      <4>2. p[1] = bb /\ p[2] = r /\ p[3] = counter[r]
        BY <4>1
      <4> QED BY <4>2
    <3>2. ASSUME NEW r \in regs
          PROVE  <<bb, 0, r, counter[r]>> \in {<<p[1], 0, p[2], p[3]>> : p \in new}
      <4>1. PICK p : p = <<bb, r, counter[r]>>
        OBVIOUS
      <4>2. p \in new /\ p[1] = bb /\ p[2] = r /\ p[3] = counter[r]
        BY <4>1
      <4> QED BY <4>2
    <3> HIDE DEF new
    <3> QED BY <3>1, <3>2
  <2>2. phiRes' = phiRes \cup new
    BY <1>1
  <2> HIDE DEF new
  <2>3. {<<p[1], 0, p[2], p[3]>> : p \in phiRes'} =
          {<<p[1], 0, p[2], p[3]>> : p \in phiRes} \cup {<<p[1], 0, p[2], p[3]>> : p \in new}
    BY <2>2
  <2> QED BY <1>1, <2>1, <2>3 DEF Made
<1>6. 0 < EndOfBlock(bb)
  BY <1>2, DefFacts
<1> HIDE DEF bb, regs
<1>7. /\ RecordsGrow /\ NamesGiven(regs) /\ prog' \in Bodies /\ pass' = "rename"
      /\ PlacingInv' /\ FramesInv' /\ StacksInv'
      /\ (\A m \in Made : IsMade(m))'
      /\ (\A m, n \in Made : m[3] = n[3] /\ m[4] = n[4] => m = n)'
  BY <1>1, <1>4, <1>5, <1>6, GivenStep DEF bb
<1>8. /\ \A u \in reads : IsRead(u)'
      /\ \A u \in returns : IsReturn(u)'
      /\ \A o \in phiOps : IsPhiOp(o)'
      /\ \A w \in writes : IsWrite(w)'
  BY <1>1, <1>7, GivenFacts, RecordsStay
<1>9. ReadsInv'
  BY <1>1, <1>8 DEF ReadsInv
<1>10. \A p \in phiRes' : <<p[1], p[2]>> \in phis'
  <2>1. phis' = phis
    BY <1>7 DEF RecordsGrow
  <2>2. ASSUME NEW r \in regs
        PROVE  <<bb, r>> \in phis
    <3>1. 0 \in DefPoints(bb, r)
      BY <1>1, <1>3
    <3> QED BY <1>2, <3>1, PointFacts
  <2>3. ASSUME NEW p \in phiRes'
        PROVE  <<p[1], p[2]>> \in phis
    <3>1. CASE p \in phiRes
      BY <1>2, <3>1 DEF WritesInv
    <3>2. CASE p \notin phiRes
      <4>1. PICK r \in regs : p = <<bb, r, counter[r]>>
        BY <1>1, <3>2
      <4>2. p[1] = bb /\ p[2] = r
        BY <4>1
      <4> QED BY <2>2, <4>2
    <3> QED BY <3>1, <3>2
  <2> QED BY <2>1, <2>3
<1>11. WritesInv'
  BY <1>1, <1>7, <1>8, <1>10 DEF WritesInv
<1> QED BY <1>7, <1>9, <1>11 DEF SSAInv

LEMMA StatementStep ==
  ASSUME SSAInv, RenameStatement
  PROVE  SSAInv'
<1> DEFINE bb == Current.bb
           at == Current.at
           mu == prog.code[bb][at].mu
           regs == prog.code[bb][at].chi
<1>1. /\ frames # <<>> /\ at \in DOMAIN prog.code[bb] /\ NewNames(regs)
      /\ reads' = reads \cup {<<bb, at, r, Top(r)>> : r \in mu}
      /\ writes' = writes \cup {<<bb, at, r, Top(r), counter[r]>> : r \in regs}
      /\ prog' = prog /\ pass' = pass /\ UNCHANGED placing /\ phiRes' = phiRes
      /\ phiOps' = phiOps /\ returns' = returns
  BY DEF RenameStatement
<1>2. /\ prog \in Bodies /\ PlacingInv /\ ReadsInv /\ WritesInv /\ bb \in Live /\ at \in Nat
      /\ usedRegs \subseteq Region /\ pass = "rename"
  BY <1>1, CurrentFacts, SMTT(20) DEF SSAInv
<1>3. mu \subseteq usedRegs /\ regs \subseteq usedRegs
  <2>1. prog.code[bb][at].mu \cup prog.code[bb][at].chi \subseteq usedRegs
    BY <1>1, <1>2, RegionFacts
  <2> QED BY <2>1
<1>4. at > 0 /\ at < EndOfBlock(bb)
  <2>1. DOMAIN prog.code[bb] = 1 .. EndOfBlock(bb) - 1 /\ EndOfBlock(bb) \in Nat
    BY <1>2, DefFacts
  <2> QED BY <1>1, <2>1
<1>5. \A r : r \in regs <=> at \in DefsIn(bb, r)
  BY <1>1 DEF DefsIn
<1>6. \A r : r \in regs <=> r \in Region /\ at \in DefPoints(bb, r)
  <2>1. PICK i : i = at
    OBVIOUS
  <2>2. i # 0
    BY <2>1, <1>2, <1>4
  <2>3. \A r : i \in DefPoints(bb, r) /\ i # 0 <=> i \in DefsIn(bb, r)
    BY <1>2, PointFacts
  <2> QED BY <1>2, <1>3, <1>5, <2>1, <2>2, <2>3
<1> HIDE DEF mu, regs
<1>7. regs = {r \in Region : at \in DefPoints(bb, r)}
  BY <1>6
<1>8. Made' = Made \cup {<<bb, at, r, counter[r]>> : r \in regs}
  <2> DEFINE new == {<<bb, at, r, Top(r), counter[r]>> : r \in regs}
  <2>1. {<<w[1], w[2], w[3], w[5]>> : w \in new} = {<<bb, at, r, counter[r]>> : r \in regs}
    <3> HIDE DEF bb, at
    <3>1. ASSUME NEW w \in new
          PROVE  <<w[1], w[2], w[3], w[5]>> \in {<<bb, at, r, counter[r]>> : r \in regs}
      <4>1. PICK r \in regs : w = <<bb, at, r, Top(r), counter[r]>>
        OBVIOUS
      <4>2. w[1] = bb /\ w[2] = at /\ w[3] = r /\ w[5] = counter[r]
        BY <4>1
      <4> QED BY <4>2
    <3>2. ASSUME NEW r \in regs
          PROVE  <<bb, at, r, counter[r]>> \in {<<w[1], w[2], w[3], w[5]>> : w \in new}
      <4>1. PICK w : w = <<bb, at, r, Top(r), counter[r]>>
        OBVIOUS
      <4>2. w \in new /\ w[1] = bb /\ w[2] = at /\ w[3] = r /\ w[5] = counter[r]
        BY <4>1
      <4> QED BY <4>2
    <3> HIDE DEF new
    <3> QED BY <3>1, <3>2
  <2>2. writes' = writes \cup new
    BY <1>1
  <2> HIDE DEF new
  <2>3. {<<w[1], w[2], w[3], w[5]>> : w \in writes'} =
          {<<w[1], w[2], w[3], w[5]>> : w \in writes} \cup {<<w[1], w[2], w[3], w[5]>> : w \in new}
    BY <2>2
  <2> QED BY <1>1, <2>1, <2>3 DEF Made
<1>9. /\ RecordsGrow /\ NamesGiven(regs) /\ prog' \in Bodies /\ pass' = "rename"
      /\ PlacingInv' /\ FramesInv' /\ StacksInv'
      /\ (\A m \in Made : IsMade(m))'
      /\ (\A m, n \in Made : m[3] = n[3] /\ m[4] = n[4] => m = n)'
  BY <1>1, <1>4, <1>7, <1>8, GivenStep
<1>10. /\ regs \subseteq usedRegs
       /\ \A r \in Region : counter[r] \in Nat /\ counter'[r] \in Nat /\ counter[r] <= counter'[r]
  BY <1>1, <1>9, GivenFacts
<1>11. /\ \A u \in reads : IsRead(u)'
       /\ \A u \in returns : IsReturn(u)'
       /\ \A o \in phiOps : IsPhiOp(o)'
       /\ \A w \in writes : IsWrite(w)'
  BY <1>9, <1>10, RecordsStay
<1>12. Live' = Live /\ (\A b, r : DefsIn(b, r)' = DefsIn(b, r)) /\ usedRegs' = usedRegs
  BY <1>1, <1>9, SameGraph, SameDefs DEF RecordsGrow
<1>13. ASSUME NEW r \in usedRegs
       PROVE  /\ Top(r) \in Nat /\ Top(r) < counter[r] /\ counter[r] \in Nat /\ Top(r) < counter'[r]
              /\ \A b, i, v : b = bb /\ i = at /\ v = Top(r) => Arrives(b, i, r, v)'
  <2>1. Top(r) \in Nat /\ Top(r) < counter[r] /\ Arrives(bb, at, r, Top(r))
    BY <1>1, TopFacts
  <2>2. \A b, i, v : Arrives(b, i, r, v) => Arrives(b, i, r, v)'
    BY <1>9, ArrivesKept
  <2> QED BY <1>2, <1>10, <2>1, <2>2
<1>14. ASSUME NEW u \in reads'
       PROVE  IsRead(u)'
  <2>1. CASE u \in reads
    BY <1>11, <2>1
  <2>2. CASE u \notin reads
    <3>1. PICK r \in mu : u = <<bb, at, r, Top(r)>>
      BY <1>1, <2>2
    <3>2. u[1] = bb /\ u[2] = at /\ u[3] = r /\ u[4] = Top(r) /\ r \in usedRegs
      BY <3>1, <1>3
    <3>3. Arrives(u[1], u[2], u[3], u[4])'
      BY <3>2, <1>13
    <3> QED BY <1>1, <1>2, <1>12, <1>13, <3>2, <3>3 DEF IsRead
  <2> QED BY <2>1, <2>2
<1>15. ASSUME NEW w \in writes'
       PROVE  IsWrite(w)'
  <2>1. CASE w \in writes
    BY <1>11, <2>1
  <2>2. CASE w \notin writes
    <3>1. PICK r \in regs : w = <<bb, at, r, Top(r), counter[r]>>
      BY <1>1, <2>2
    <3>2. w[1] = bb /\ w[2] = at /\ w[3] = r /\ w[4] = Top(r) /\ w[5] = counter[r] /\ r \in usedRegs
      BY <3>1, <1>10
    <3>3. Arrives(w[1], w[2], w[3], w[4])'
      BY <3>2, <1>13
    <3>4. at \in DefsIn(bb, r)
      BY <1>5
    <3> QED BY <1>2, <1>12, <1>13, <3>2, <3>3, <3>4 DEF IsWrite
  <2> QED BY <2>1, <2>2
<1>16. ReadsInv'
  BY <1>1, <1>11, <1>14 DEF ReadsInv
<1>17. phis' = phis
  BY <1>9 DEF RecordsGrow
<1>18. WritesInv'
  BY <1>1, <1>2, <1>9, <1>15, <1>17 DEF WritesInv
<1> QED BY <1>9, <1>16, <1>18 DEF SSAInv

LEMMA EndBlockStep ==
  ASSUME SSAInv, EndBlock
  PROVE  SSAInv'
<1> DEFINE F == [bb : Live, at : Nat, memRegs : [Region -> Nat], children : SUBSET Live]
           n == Len(frames)
           g == [Current EXCEPT !.at = @ + 1, !.children = Children(Current.bb)]
<1>1. /\ frames # <<>> /\ Current.at = EndOfBlock(Current.bb) /\ frames' = Goto(g)
      /\ returns' = returns \cup (IF Current.bb \in prog.ret THEN {<<r, Top(r)>> : r \in usedRegs} ELSE {})
      /\ phiOps' = phiOps \cup UNION {{<<s, r, Current.bb, Top(r)>> : r \in PhisOf(s)} : s \in prog.succ[Current.bb]}
      /\ prog' = prog /\ pass' = pass /\ UNCHANGED placing /\ stack' = stack /\ counter' = counter
      /\ reads' = reads /\ writes' = writes /\ phiRes' = phiRes
  BY DEF EndBlock, AtBlockEnd, EndOfBlock, naming
<1>2. /\ prog \in Bodies /\ PlacingInv /\ FramesInv /\ StacksInv /\ ReadsInv /\ WritesInv /\ pass = "rename"
      /\ Current.bb \in Live /\ Current.at \in Nat /\ usedRegs \subseteq Region /\ frames \in Seq(F)
      /\ Current \in F /\ NamedUpTo(Current.bb, Current.at) /\ phis \subseteq Live \X usedRegs
  BY <1>1, CurrentFacts DEF SSAInv, FramesInv, PlacingInv
<1>3. Made' = Made
  BY <1>1 DEF Made
<1>4. RecordsGrow
  BY <1>1, <1>3 DEF RecordsGrow, placing
<1>5. PICK f, b : f = g /\ b = Current.bb
  OBVIOUS
<1>6. Children(b) \in SUBSET Live
  BY DEF Children
<1>7. /\ f \in F /\ f.bb = b /\ f.at = EndOfBlock(b) + 1 /\ f.children = Children(b) /\ f.memRegs = Current.memRegs
      /\ frames' = Goto(f)
  <2>1. PICK x : x = Children(b)
    OBVIOUS
  <2>2. f = [Current EXCEPT !.at = @ + 1, !.children = x]
    BY <1>5, <2>1
  <2>3. f = [bb |-> Current.bb, at |-> Current.at + 1, memRegs |-> Current.memRegs, children |-> x]
    BY <1>2, <2>2
  <2>4. Current.memRegs \in [Region -> Nat] /\ Current.at + 1 \in Nat
    BY <1>2
  <2> QED BY <1>1, <1>2, <1>5, <1>6, <2>1, <2>3, <2>4
<1> HIDE DEF g
<1>8. EndOfBlock(b) \in Nat /\ b \in Live
  BY <1>2, <1>5, DefFacts
<1>9. \A r : \A j \in DefPoints(b, r) : j \in Nat /\ j < EndOfBlock(b)
  BY <1>2, <1>8, PointFacts
<1>10. \A s \in Live : \A r : r \in PhisOf(s) <=> <<s, r>> \in phis
  <2>1. \A d \in phis : d = <<d[1], d[2]>>
    BY <1>2
  <2> QED BY <2>1 DEF PhisOf
<1>11. \A s \in prog.succ[b] : s \in Live
  BY <1>2, <1>8, LiveFacts
<1>12. NamesGiven({})
  <2>1. {} = {r \in Region : Current.at \in DefPoints(Current.bb, r)}
    BY <1>1, <1>5, <1>8, <1>9
  <2>2. counter' = [r \in Region |-> IF r \in {} THEN counter[r] + 1 ELSE counter[r]]
    BY <1>1, <1>2 DEF StacksInv
  <2>3. stack' = [r \in Region |-> IF r \in {} THEN Append(stack[r], counter[r]) ELSE stack[r]]
    BY <1>1, <1>2 DEF StacksInv
  <2>4. /\ frames' \in Seq(F) /\ Len(frames') = n /\ frames'[n] = f
        /\ \A k \in 1 .. n : k # n => frames'[k] = frames[k]
    BY <1>1, <1>2, <1>7, GotoFacts
  <2>5. \A r \in Region : f.memRegs[r] = Current.memRegs[r] + IF r \in {} THEN 1 ELSE 0
    BY <1>2, <1>7
  <2>6. {<<Current.bb, Current.at, r, counter[r]>> : r \in {}} = {}
    OBVIOUS
  <2> QED BY <1>1, <1>3, <1>5, <1>7, <2>1, <2>2, <2>3, <2>4, <2>5, <2>6 DEF NamesGiven
<1>13. NamedUpTo(b, EndOfBlock(b) + 1)'
  <2>1. \A r : DefPoints(b, r)' = DefPoints(b, r)
    BY <1>4, PointsKept
  <2>2. \A s : PhisOf(s)' = PhisOf(s)
    BY <1>4, PointsKept
  <2>3. \A r \in Region : \A j \in DefPoints(b, r) : \E m \in Made' : m[1] = b /\ m[2] = j /\ m[3] = r
    BY <1>1, <1>2, <1>3, <1>5, <1>9 DEF NamedUpTo
  <2>4. ASSUME NEW s \in prog.succ[b], NEW r \in PhisOf(s)
        PROVE  \E o \in phiOps' : o[1] = s /\ o[2] = r /\ o[3] = b
    <3>1. PICK o : o = <<s, r, b, Top(r)>>
      OBVIOUS
    <3>2. o \in phiOps'
      BY <1>1, <1>5, <3>1
    <3> QED BY <3>1, <3>2
  <2>5. ASSUME NEW r \in usedRegs, b \in prog.ret
        PROVE  \E u \in returns' : u[1] = r
    <3>1. PICK u : u = <<r, Top(r)>>
      OBVIOUS
    <3>2. u \in returns'
      BY <1>1, <1>5, <2>5, <3>1
    <3> QED BY <3>1, <3>2
  <2>6. prog' = prog /\ usedRegs' = usedRegs
    BY <1>4 DEF RecordsGrow
  <2> QED BY <2>1, <2>2, <2>3, <2>4, <2>5, <2>6 DEF NamedUpTo
<1>14. PICK e : e = EndOfBlock(b)
  OBVIOUS
<1>15. NamedUpTo(f.bb, f.at)'
  <2>1. EndOfBlock(b)' = EndOfBlock(b)
    BY <1>1, SameGraph
  <2>2. NamedUpTo(b, e + 1)'
    BY <1>13, <1>14, <2>1
  <2> QED BY <1>7, <1>14, <2>2
<1>16. FramesInv'
  <2>1. f.at <= EndOfBlock(f.bb) + 1 /\ \A c \in Children(f.bb) : c \in f.children
    BY <1>7, <1>8
  <2> QED BY <1>1, <1>4, <1>5, <1>7, <1>15, <2>1, TopFrame
<1>17. StacksInv'
  BY <1>1, <1>4, <1>12, GivenStacks
<1>18. PlacingInv'
  BY <1>1, <1>2, PlacingKept
<1>19. (/\ \A m \in Made : IsMade(m)
        /\ \A m, k \in Made : m[3] = k[3] /\ m[4] = k[4] => m = k)'
  BY <1>1, <1>4, <1>12, GivenMade
<1>20. /\ \A u \in reads : IsRead(u)'
       /\ \A u \in returns : IsReturn(u)'
       /\ \A o \in phiOps : IsPhiOp(o)'
       /\ \A w \in writes : IsWrite(w)'
  BY <1>1, <1>4, <1>12, GivenFacts, RecordsStay
<1>21. Live' = Live /\ EndOfBlock(b)' = e /\ usedRegs' = usedRegs /\ phis' = phis
  BY <1>1, <1>4, <1>14, SameGraph DEF RecordsGrow
<1>22. ASSUME NEW r \in usedRegs
       PROVE  /\ Top(r) \in Nat /\ Top(r) < counter[r]
              /\ \A v : v = Top(r) => Arrives(b, e, r, v)'
  <2>1. Top(r) \in Nat /\ Top(r) < counter[r] /\ Arrives(b, e, r, Top(r))
    BY <1>1, <1>5, <1>14, TopFacts
  <2>2. \A v : Arrives(b, e, r, v) => Arrives(b, e, r, v)'
    BY <1>4, ArrivesKept
  <2> QED BY <2>1, <2>2
<1>23. ASSUME NEW u \in returns'
       PROVE  IsReturn(u)'
  <2>1. CASE u \in returns
    BY <1>20, <2>1
  <2>2. CASE u \notin returns
    <3>1. b \in prog.ret /\ u \in {<<r, Top(r)>> : r \in usedRegs}
      BY <1>1, <1>5, <2>2
    <3>2. PICK r \in usedRegs : u = <<r, Top(r)>>
      BY <3>1
    <3>3. u = <<u[1], u[2]>> /\ u[1] = r /\ u[2] = Top(r)
      BY <3>2
    <3>4. Arrives(b, e, u[1], u[2])'
      BY <1>22, <3>3
    <3>5. (\E x \in prog.ret \cap Live : Arrives(x, EndOfBlock(x), u[1], u[2]))'
      BY <1>1, <1>8, <1>21, <3>1, <3>4
    <3> QED BY <1>21, <1>22, <3>3, <3>5 DEF IsReturn
  <2> QED BY <2>1, <2>2
<1>24. ASSUME NEW o \in phiOps'
       PROVE  IsPhiOp(o)'
  <2>1. CASE o \in phiOps
    BY <1>20, <2>1
  <2>2. CASE o \notin phiOps
    <3>1. PICK s \in prog.succ[b] : o \in {<<s, r, b, Top(r)>> : r \in PhisOf(s)}
      BY <1>1, <1>5, <2>2
    <3>2. PICK r \in PhisOf(s) : o = <<s, r, b, Top(r)>>
      BY <3>1
    <3>3. o[1] = s /\ o[2] = r /\ o[3] = b /\ o[4] = Top(r)
      BY <3>2
    <3>4. <<s, r>> \in phis /\ r \in usedRegs
      BY <1>2, <1>10, <1>11
    <3>5. Arrives(b, e, r, o[4])'
      BY <1>22, <3>3, <3>4
    <3> QED BY <1>1, <1>8, <1>21, <1>22, <3>3, <3>4, <3>5 DEF IsPhiOp
  <2> QED BY <2>1, <2>2
<1>25. ReadsInv'
  BY <1>1, <1>20, <1>23, <1>24 DEF ReadsInv
<1>26. WritesInv'
  BY <1>1, <1>2, <1>19, <1>20, <1>21 DEF WritesInv
<1> QED BY <1>1, <1>2, <1>16, <1>17, <1>18, <1>25, <1>26 DEF SSAInv

(* Steps that record nothing.                                              *)
LEMMA NothingNew ==
  ASSUME SSAInv, prog' = prog, UNCHANGED placing, counter' = counter, UNCHANGED versions,
         pass' = pass \/ (pass = "rename" /\ pass' = "done")
  PROVE  RecordsGrow /\ Made' = Made /\ PlacingInv' /\ ReadsInv' /\ WritesInv'
<1>1. /\ reads' = reads /\ writes' = writes /\ phiRes' = phiRes /\ phiOps' = phiOps /\ returns' = returns
      /\ phis' = phis /\ usedRegs' = usedRegs /\ PlacingInv /\ WritesInv /\ StacksInv
  BY DEF versions, placing, SSAInv
<1>2. Made' = Made
  BY <1>1 DEF Made
<1>3. RecordsGrow
  BY <1>1, <1>2 DEF RecordsGrow
<1>4. \A r \in Region : counter[r] \in Nat /\ counter'[r] \in Nat /\ counter[r] <= counter'[r]
  BY <1>1 DEF StacksInv
<1>5. /\ \A u \in reads : IsRead(u)'
      /\ \A u \in returns : IsReturn(u)'
      /\ \A o \in phiOps : IsPhiOp(o)'
      /\ \A w \in writes : IsWrite(w)'
  BY <1>3, <1>4, RecordsStay
<1>6. ReadsInv'
  BY <1>1, <1>5 DEF ReadsInv
<1>7. \A m \in Made : IsMade(m)'
  BY <1>1 DEF WritesInv, IsMade
<1>8. WritesInv'
  BY <1>1, <1>2, <1>5, <1>7 DEF WritesInv
<1>9. PlacingInv'
  BY <1>1, PlacingKept
<1> QED BY <1>2, <1>3, <1>6, <1>8, <1>9
LEMMA ChildStep ==
  ASSUME SSAInv, VisitChild
  PROVE  SSAInv'
<1> DEFINE F == [bb : Live, at : Nat, memRegs : [Region -> Nat], children : SUBSET Live]
<1>1. /\ frames # <<>> /\ Current.at = EndOfBlock(Current.bb) + 1
      /\ prog' = prog /\ pass' = pass /\ UNCHANGED placing /\ UNCHANGED naming /\ UNCHANGED versions
  BY DEF VisitChild, Renamed, EndOfBlock
<1>2. PICK b \in Current.children :
        frames' = Append(Goto([Current EXCEPT !.children = @ \ {b}]), Called(b))
  BY DEF VisitChild
<1>3. /\ prog \in Bodies /\ FramesInv /\ StacksInv /\ pass = "rename" /\ usedRegs \subseteq Region
      /\ Current \in F /\ Current.children \subseteq Children(Current.bb) /\ frames \in Seq(F)
      /\ NamedUpTo(Current.bb, Current.at) /\ frames[Len(frames)] = Current
  BY <1>1, CurrentFacts DEF SSAInv, FramesInv
<1>4. PICK n, a, f, s : /\ n = Len(frames) /\ a = Current.bb
                        /\ f = [Current EXCEPT !.children = @ \ {b}] /\ s = Goto(f)
  OBVIOUS
<1>5. n \in Nat /\ n > 0 /\ a \in Live /\ b \in Children(a) /\ b \in Live
  BY <1>1, <1>3, <1>4 DEF Children
<1>6. /\ f \in F /\ f.bb = a /\ f.at = EndOfBlock(a) + 1 /\ f.memRegs = Current.memRegs
      /\ f.children = Current.children \ {b}
  <2>1. f = [bb |-> Current.bb, at |-> Current.at, memRegs |-> Current.memRegs, children |-> Current.children \ {b}]
    BY <1>3, <1>4
  <2>2. Current.memRegs \in [Region -> Nat] /\ Current.at \in Nat /\ Current.children \ {b} \in SUBSET Live
    BY <1>3
  <2> QED BY <1>1, <1>4, <1>5, <2>1, <2>2
<1>7. /\ s \in Seq(F) /\ Len(s) = n /\ s[n] = f
      /\ \A k \in 1 .. n : k # n => s[k] = frames[k]
  <2>1. s = [frames EXCEPT ![n] = f]
    BY <1>4 DEF Goto
  <2> HIDE DEF F
  <2>2. frames \in Seq(F) /\ Len(frames) = n /\ f \in F /\ n \in 1 .. n
    BY <1>3, <1>4, <1>5, <1>6
  <2> QED BY <2>1, <2>2
<1>8. Called(b) \in F /\ Called(b).bb = b /\ Called(b).at = 0 /\ Called(b).children = {}
  BY <1>5 DEF Called, None
<1>9. /\ frames' \in Seq(F) /\ Len(frames') = n + 1 /\ frames'[n + 1] = Called(b) /\ frames'[n] = f
      /\ \A k \in 1 .. n : k # n => frames'[k] = frames[k]
  <2>1. frames' = Append(s, Called(b))
    BY <1>2, <1>4
  <2>2. \A k \in 1 .. n : frames'[k] = s[k]
    BY <1>7, <1>8, <2>1
  <2>3. n \in 1 .. n
    BY <1>5
  <2>4. frames' \in Seq(F) /\ Len(frames') = n + 1 /\ frames'[n + 1] = Called(b)
    BY <1>5, <1>7, <1>8, <2>1
  <2> QED BY <1>7, <2>2, <2>3, <2>4
<1>10. RecordsGrow /\ Made' = Made /\ PlacingInv' /\ ReadsInv' /\ WritesInv'
  BY <1>1, <1>3, NothingNew DEF naming
<1>11. /\ Live' = Live /\ \A x : EndOfBlock(x)' = EndOfBlock(x) /\ Children(x)' = Children(x)
  BY <1>1, SameGraph, SameTree
<1>12. \A x : EndOfBlock(b) \in Nat /\ \A j \in DefPoints(b, x) : j \in Nat /\ ~(j < 0)
  <2>1. \A x : EndOfBlock(b) \in Nat /\ \A j \in DefPoints(b, x) : j \in Nat
    BY <1>3, <1>5, DefFacts, PointFacts
  <2> QED BY <2>1
<1>13. \A k \in 1 .. n : k \in 1 .. n + 1 /\ (k # n => k + 1 \in 1 .. n)
  BY <1>5
<1>14. \A k \in 1 .. n + 1 : k # n + 1 => k \in 1 .. n
  BY <1>5
<1>15. \A k \in 1 .. n : /\ frames'[k].bb = frames[k].bb /\ frames'[k].at = frames[k].at
                         /\ frames'[k].memRegs = frames[k].memRegs
  BY <1>1, <1>3, <1>4, <1>6, <1>9
<1>16. FramesInv'
  <2>1. /\ \A x, i : NamedUpTo(x, i) => NamedUpTo(x, i)'
        /\ \A x : SubtreeNamed(x) => SubtreeNamed(x)'
    BY <1>10, NamedKept
  <2>2. NamedUpTo(b, 0)'
    <3>1. \A r : DefPoints(b, r)' = DefPoints(b, r)
      BY <1>10, PointsKept
    <3>2. ~(0 > EndOfBlock(b))'
      BY <1>11, <1>12
    <3> QED BY <1>12, <3>1, <3>2 DEF NamedUpTo
  <2>3. ASSUME NEW k \in 1 .. n
        PROVE  /\ frames[k].at <= EndOfBlock(frames[k].bb) + 1
               /\ frames[k].children \subseteq Children(frames[k].bb)
               /\ NamedUpTo(frames[k].bb, frames[k].at)
               /\ frames[k].at = EndOfBlock(frames[k].bb) + 1 =>
                    \A c \in Children(frames[k].bb) :
                      c \in frames[k].children \/ (k < n /\ c = frames[k + 1].bb) \/ SubtreeNamed(c)
               /\ k < n =>
                    /\ frames[k].at = EndOfBlock(frames[k].bb) + 1
                    /\ frames[k + 1].bb \in Children(frames[k].bb)
    BY <1>3, <1>4 DEF FramesInv
  <2>4. ASSUME NEW k \in 1 .. n + 1
        PROVE  /\ (frames[k].at <= EndOfBlock(frames[k].bb) + 1)'
               /\ (frames[k].children \subseteq Children(frames[k].bb))'
               /\ NamedUpTo(frames[k].bb, frames[k].at)'
               /\ (frames[k].at = EndOfBlock(frames[k].bb) + 1 =>
                    \A c \in Children(frames[k].bb) :
                      c \in frames[k].children \/ (k < n + 1 /\ c = frames[k + 1].bb) \/ SubtreeNamed(c))'
               /\ (k < n + 1 =>
                    /\ frames[k].at = EndOfBlock(frames[k].bb) + 1
                    /\ frames[k + 1].bb \in Children(frames[k].bb))'
    <3>1. CASE k = n + 1
      <4>1. frames'[k] = Called(b) /\ ~(k < n + 1)
        BY <1>5, <1>9, <3>1
      <4>2. frames'[k].bb = b /\ frames'[k].at = 0 /\ frames'[k].children = {}
        BY <1>8, <4>1
      <4>3. NamedUpTo(frames[k].bb, frames[k].at)'
        BY <2>2, <4>2
      <4>4. (frames[k].at <= EndOfBlock(frames[k].bb) + 1)' /\ (frames[k].at # EndOfBlock(frames[k].bb) + 1)'
        <5>1. 0 <= EndOfBlock(b) + 1 /\ 0 # EndOfBlock(b) + 1
          BY <1>12
        <5> QED BY <1>11, <4>2, <5>1
      <4> QED BY <4>1, <4>2, <4>3, <4>4
    <3>2. CASE k = n
      <4>1. frames'[k] = f /\ frames'[k + 1].bb = b /\ k < n + 1 /\ frames[k] = Current
        BY <1>3, <1>4, <1>5, <1>8, <1>9, <3>2
      <4>2. NamedUpTo(frames[k].bb, frames[k].at)'
        <5>1. NamedUpTo(a, Current.at)
          BY <1>3, <1>4
        <5>2. PICK i : i = Current.at
          OBVIOUS
        <5>3. NamedUpTo(a, i)'
          BY <2>1, <5>1, <5>2
        <5> QED BY <1>1, <1>4, <1>6, <4>1, <5>2, <5>3
      <4>3. ASSUME NEW c \in Children(a)
            PROVE  c \in f.children \/ c = b \/ SubtreeNamed(c)'
        <5>1. k \in 1 .. n /\ ~(k < n)
          BY <1>5, <3>2
        <5>2. c \in frames[k].children \/ SubtreeNamed(c)
          BY <1>1, <1>4, <2>3, <4>1, <5>1
        <5> QED BY <1>6, <2>1, <4>1, <5>2
      <4>4. (frames[k].at <= EndOfBlock(frames[k].bb) + 1)' /\ (frames[k].at = EndOfBlock(frames[k].bb) + 1)'
        <5>1. EndOfBlock(a) \in Nat
          BY <1>3, <1>5, DefFacts
        <5>2. EndOfBlock(a) + 1 <= EndOfBlock(a) + 1
          BY <5>1
        <5> QED BY <1>6, <1>11, <4>1, <5>2
      <4>5. frames'[k].children \subseteq Children(a) /\ frames'[k].bb = a
        BY <1>3, <1>4, <1>6, <4>1
      <4> QED BY <1>5, <1>6, <1>11, <4>1, <4>2, <4>3, <4>4, <4>5
    <3>3. CASE k # n + 1 /\ k # n
      <4>1. k \in 1 .. n /\ k + 1 \in 1 .. n /\ frames'[k] = frames[k] /\ frames'[k + 1].bb = frames[k + 1].bb /\ k < n
        <5>1. k \in 1 .. n /\ k + 1 \in 1 .. n
          BY <1>13, <1>14, <3>3
        <5>2. k < n
          BY <1>5, <3>3, <5>1
        <5> QED BY <1>9, <1>15, <3>3, <5>1, <5>2
      <4>2. NamedUpTo(frames[k].bb, frames[k].at)'
        <5>1. PICK x, i : x = frames[k].bb /\ i = frames[k].at
          OBVIOUS
        <5>2. NamedUpTo(x, i)'
          BY <2>1, <2>3, <4>1, <5>1
        <5> QED BY <4>1, <5>1, <5>2
      <4>3. \A c \in Children(frames[k].bb) : c \in frames[k].children \/ c = frames[k + 1].bb \/ SubtreeNamed(c)'
        BY <2>1, <2>3, <4>1
      <4>4. k < n + 1
        BY <1>5, <4>1
      <4> QED BY <1>11, <2>3, <4>1, <4>2, <4>3, <4>4
    <3> QED BY <3>1, <3>2, <3>3
  <2>5. frames'[1].bb = prog'.entry /\ frames' # <<>>
    <3>1. 1 \in 1 .. n
      BY <1>5
    <3> QED BY <1>1, <1>3, <1>5, <1>9, <1>15, <3>1 DEF FramesInv
  <2>6. frames' \in Seq([bb : Live', at : Nat, memRegs : [Region -> Nat], children : SUBSET Live'])
    BY <1>9, <1>11
  <2>7. Len(frames)' = n + 1
    BY <1>9
  <2>8. pass' = "rename"
    BY <1>1, <1>3
  <2> QED BY <2>4, <2>5, <2>6, <2>7, <2>8 DEF FramesInv
<1>17. StacksInv'
  <2>1. stack' = stack /\ counter' = counter /\ usedRegs' = usedRegs
    BY <1>1 DEF naming, placing
  <2>2. ASSUME NEW r \in usedRegs
        PROVE  \E h : Heights(r, h)'
    <3>1. PICK h : Heights(r, h)
      BY <1>3 DEF StacksInv
    <3>2. /\ h \in [1 .. n + 1 -> 1 .. Len(stack[r])] /\ h[n + 1] = Len(stack[r])
          /\ \A k \in 1 .. n :
               /\ h[k + 1] = h[k] + frames[k].memRegs[r]
               /\ Inherits(frames[k].bb, r, stack[r][h[k]])
               /\ Arrives(frames[k].bb, frames[k].at, r, stack[r][h[k + 1]])
      BY <1>4, <3>1 DEF Heights
    <3>3. PICK m, v : m = Len(stack[r]) /\ v = stack[r][m]
      OBVIOUS
    <3>4. PICK g : g = [k \in 1 .. n + 2 |-> IF k = n + 2 THEN m ELSE h[k]]
      OBVIOUS
    <3>5. g[n + 2] = m /\ \A k \in 1 .. n + 1 : g[k] = h[k]
      BY <1>5, <3>4
    <3>6. n + 1 \in 1 .. n + 1 /\ n \in 1 .. n
      BY <1>5
    <3>7. g[n + 1] = m /\ m \in 1 .. Len(stack[r])
      BY <3>2, <3>3, <3>5, <3>6
    <3>8. g \in [1 .. n + 2 -> 1 .. Len(stack[r])]
      <4>1. \A k \in 1 .. n + 2 : k = n + 2 \/ k \in 1 .. n + 1
        BY <1>5
      <4>2. \A k \in 1 .. n + 2 : g[k] \in 1 .. Len(stack[r])
        BY <3>2, <3>5, <3>7, <4>1
      <4> QED BY <3>4, <4>2
    <3>9. \A x, i, w : /\ Inherits(x, r, w) => Inherits(x, r, w)'
                       /\ Arrives(x, i, r, w) => Arrives(x, i, r, w)'
      BY <1>10, ArrivesKept
    <3>10. Inherits(b, r, v)'
      <4>1. Arrives(a, EndOfBlock(a) + 1, r, v)
        <5>1. frames[n] = Current
          BY <1>3, <1>4
        <5>2. Arrives(frames[n].bb, frames[n].at, r, stack[r][h[n + 1]])
          BY <3>2, <3>6
        <5> QED BY <1>1, <1>4, <3>2, <3>3, <5>1, <5>2
      <4>2. Inherits(b, r, v)
        BY <1>3, <1>5, <4>1, EndToChild
      <4> QED BY <4>2, <3>9
    <3>11. Arrives(b, 0, r, v)'
      <4>1. DefPoints(b, r)' = DefPoints(b, r)
        BY <1>10, PointsKept
      <4> QED BY <1>12, <3>10, <4>1 DEF Arrives
    <3>12. ASSUME NEW k \in 1 .. n + 1
           PROVE  /\ g[k + 1] = g[k] + frames'[k].memRegs[r]
                  /\ Inherits(frames[k].bb, r, stack[r][g[k]])'
                  /\ Arrives(frames[k].bb, frames[k].at, r, stack[r][g[k + 1]])'
      <4>1. CASE k = n + 1
        <5>1. frames'[k].bb = b /\ frames'[k].at = 0
          BY <1>8, <1>9, <4>1
        <5>2. frames'[k].memRegs[r] = 0
          BY <1>3, <1>9, <4>1 DEF Called, None
        <5>3. k + 1 = n + 2 /\ m \in Nat
          BY <1>5, <3>2, <3>3, <3>7, <4>1
        <5>4. g[k] = m /\ g[k + 1] = m
          BY <3>5, <3>7, <4>1, <5>3
        <5>5. Inherits(frames[k].bb, r, stack[r][g[k]])'
          BY <2>1, <3>3, <3>10, <5>1, <5>4
        <5>6. Arrives(frames[k].bb, frames[k].at, r, stack[r][g[k + 1]])'
          BY <2>1, <3>3, <3>11, <5>1, <5>4
        <5> QED BY <5>2, <5>3, <5>4, <5>5, <5>6
      <4>2. CASE k # n + 1
        <5>1. k \in 1 .. n /\ k + 1 \in 1 .. n + 1
          BY <1>5, <4>2
        <5>2. g[k] = h[k] /\ g[k + 1] = h[k + 1]
          BY <1>13, <3>5, <5>1
        <5>3. PICK x, i, v1, v2 : /\ x = frames[k].bb /\ i = frames[k].at
                                  /\ v1 = stack[r][h[k]] /\ v2 = stack[r][h[k + 1]]
          OBVIOUS
        <5>4. Inherits(x, r, v1)' /\ Arrives(x, i, r, v2)'
          BY <3>2, <3>9, <5>1, <5>3
        <5>5. frames'[k].bb = x /\ frames'[k].at = i /\ frames'[k].memRegs = frames[k].memRegs
          BY <1>15, <5>1, <5>3
        <5>6. Inherits(frames[k].bb, r, stack[r][g[k]])'
          BY <2>1, <5>2, <5>3, <5>4, <5>5
        <5>7. Arrives(frames[k].bb, frames[k].at, r, stack[r][g[k + 1]])'
          BY <2>1, <5>2, <5>3, <5>4, <5>5
        <5> QED BY <3>2, <5>1, <5>2, <5>5, <5>6, <5>7
      <4> QED BY <4>1, <4>2
    <3>13. \A k \in 1 .. n + 1 : /\ Inherits(frames[k].bb, r, stack[r][g[k]])'
                                 /\ Arrives(frames[k].bb, frames[k].at, r, stack[r][g[k + 1]])'
      BY <3>12
    <3>14. Len(frames)' = n + 1 /\ n + 1 + 1 = n + 2
      BY <1>5, <1>9
    <3>15. Heights(r, g)'
      BY <2>1, <3>3, <3>5, <3>8, <3>12, <3>13, <3>14 DEF Heights
    <3> QED BY <3>15
  <2> QED BY <1>1, <1>3, <2>1, <2>2 DEF StacksInv
<1> QED BY <1>1, <1>3, <1>10, <1>16, <1>17 DEF SSAInv
(* A finished block whose children are finished: its subtree is.           *)
LEMMA SubtreeDone ==
  ASSUME prog \in Bodies, NEW a \in Live, NamedUpTo(a, EndOfBlock(a) + 1),
         \A c \in Children(a) : SubtreeNamed(c)
  PROVE  SubtreeNamed(a)
<1> SUFFICES ASSUME NEW x \in Live, Dominates(a, x)
             PROVE  NamedUpTo(x, EndOfBlock(x) + 1)
  BY DEF SubtreeNamed
<1>1. CASE x = a
  BY <1>1
<1>2. CASE x # a
  <2>1. PICK c \in Children(a) : Dominates(c, x)
    BY <1>2, ChildAbove DEF StrictlyDominates
  <2> QED BY <2>1 DEF SubtreeNamed
<1> QED BY <1>1, <1>2

LEMMA ReturnStep ==
  ASSUME SSAInv, Return
  PROVE  SSAInv'
<1> DEFINE F == [bb : Live, at : Nat, memRegs : [Region -> Nat], children : SUBSET Live]
<1>1. /\ frames # <<>> /\ Current.at = EndOfBlock(Current.bb) + 1 /\ Current.children = {}
      /\ stack' = Popped(Current.memRegs) /\ frames' = SubSeq(frames, 1, Len(frames) - 1)
      /\ pass' = IF Len(frames) = 1 THEN "done" ELSE "rename"
      /\ prog' = prog /\ UNCHANGED placing /\ counter' = counter /\ UNCHANGED versions
  BY DEF Return, Renamed, EndOfBlock
<1>2. /\ prog \in Bodies /\ FramesInv /\ StacksInv /\ pass = "rename" /\ usedRegs \subseteq Region
      /\ Current \in F /\ frames \in Seq(F) /\ NamedUpTo(Current.bb, Current.at)
      /\ frames[Len(frames)] = Current
  BY <1>1, CurrentFacts DEF SSAInv, FramesInv
<1>3. PICK n, a : n = Len(frames) - 1 /\ a = Current.bb
  OBVIOUS
<1>4. n \in Nat /\ Len(frames) = n + 1 /\ a \in Live
  BY <1>1, <1>2, <1>3
<1>5. /\ frames' \in Seq(F) /\ Len(frames') = n /\ \A k \in 1 .. n : frames'[k] = frames[k]
  <2> HIDE DEF F
  <2>1. frames \in Seq(F) /\ frames' = SubSeq(frames, 1, n) /\ n \in Nat /\ n < Len(frames)
    BY <1>1, <1>2, <1>3, <1>4
  <2> QED BY <2>1
<1>6. pass' \in {"rename", "done"} /\ (pass' = "rename" <=> n # 0) /\ (pass' = "done" <=> n = 0)
  BY <1>1, <1>4
<1>7. RecordsGrow /\ Made' = Made /\ PlacingInv' /\ ReadsInv' /\ WritesInv'
  BY <1>1, <1>2, <1>6, NothingNew
<1>8. /\ Live' = Live /\ \A x : EndOfBlock(x)' = EndOfBlock(x) /\ Children(x)' = Children(x)
  BY <1>1, SameGraph, SameTree
<1>9. ASSUME NEW k \in 1 .. n + 1
      PROVE  /\ frames[k].at <= EndOfBlock(frames[k].bb) + 1
             /\ frames[k].children \subseteq Children(frames[k].bb)
             /\ NamedUpTo(frames[k].bb, frames[k].at)
             /\ frames[k].at = EndOfBlock(frames[k].bb) + 1 =>
                  \A c \in Children(frames[k].bb) :
                    c \in frames[k].children \/ (k < n + 1 /\ c = frames[k + 1].bb) \/ SubtreeNamed(c)
             /\ k < n + 1 =>
                  /\ frames[k].at = EndOfBlock(frames[k].bb) + 1
                  /\ frames[k + 1].bb \in Children(frames[k].bb)
  BY <1>2, <1>4 DEF FramesInv
<1>10. SubtreeNamed(a)
  <2>1. n + 1 \in 1 .. n + 1 /\ ~(n + 1 < n + 1) /\ frames[n + 1] = Current
    BY <1>2, <1>4
  <2>2. \A c \in Children(a) : SubtreeNamed(c)
    BY <1>1, <1>3, <1>9, <2>1
  <2>3. NamedUpTo(a, EndOfBlock(a) + 1)
    BY <1>1, <1>2, <1>3
  <2> QED BY <1>2, <1>4, <2>2, <2>3, SubtreeDone
<1>11. \A k \in 1 .. n : k \in 1 .. n + 1 /\ k < n + 1 /\ k + 1 \in 1 .. n + 1 /\ (k # n => k < n /\ k + 1 \in 1 .. n)
  BY <1>4
<1>12. FramesInv'
  <2>1. /\ \A x, i : NamedUpTo(x, i) => NamedUpTo(x, i)'
        /\ \A x : SubtreeNamed(x) => SubtreeNamed(x)'
    BY <1>7, NamedKept
  <2>2. ASSUME NEW k \in 1 .. n
        PROVE  /\ (frames[k].at <= EndOfBlock(frames[k].bb) + 1)'
               /\ (frames[k].children \subseteq Children(frames[k].bb))'
               /\ NamedUpTo(frames[k].bb, frames[k].at)'
               /\ (frames[k].at = EndOfBlock(frames[k].bb) + 1 =>
                    \A c \in Children(frames[k].bb) :
                      c \in frames[k].children \/ (k < n /\ c = frames[k + 1].bb) \/ SubtreeNamed(c))'
               /\ (k < n =>
                    /\ frames[k].at = EndOfBlock(frames[k].bb) + 1
                    /\ frames[k + 1].bb \in Children(frames[k].bb))'
    <3>1. frames'[k] = frames[k] /\ k \in 1 .. n + 1 /\ k < n + 1
      BY <1>5, <1>11
    <3>2. NamedUpTo(frames[k].bb, frames[k].at)'
      <4>1. PICK x, i : x = frames[k].bb /\ i = frames[k].at
        OBVIOUS
      <4>2. NamedUpTo(x, i)'
        BY <1>9, <2>1, <3>1, <4>1
      <4> QED BY <3>1, <4>1, <4>2
    <3>3. k < n => frames'[k + 1] = frames[k + 1]
      BY <1>4, <1>5, <1>11
    <3>4. ASSUME NEW c \in Children(frames[k].bb)
          PROVE  c \in frames[k].children \/ (k < n /\ c = frames'[k + 1].bb) \/ SubtreeNamed(c)'
      <4>1. c \in frames[k].children \/ c = frames[k + 1].bb \/ SubtreeNamed(c)
        BY <1>9, <3>1
      <4>2. CASE k = n
        <5>1. frames[k + 1].bb = a
          BY <1>2, <1>3, <1>4, <4>2
        <5> QED BY <1>10, <2>1, <4>1, <5>1
      <4>3. CASE k # n
        BY <1>11, <2>1, <3>3, <4>1, <4>3
      <4> QED BY <4>2, <4>3
    <3> QED BY <1>8, <1>9, <3>1, <3>2, <3>3, <3>4
  <2>3. frames' # <<>> => frames'[1].bb = prog'.entry
    <3>1. ASSUME frames' # <<>>
          PROVE  1 \in 1 .. n
      BY <1>4, <1>5, <3>1
    <3> QED BY <1>1, <1>2, <1>5, <3>1 DEF FramesInv
  <2>4. frames' \in Seq([bb : Live', at : Nat, memRegs : [Region -> Nat], children : SUBSET Live'])
    BY <1>5, <1>8
  <2>5. Len(frames)' = n
    BY <1>5
  <2>6. pass' = "rename" <=> frames' # <<>>
    BY <1>4, <1>5, <1>6
  <2>7. (pass = "done" => SubtreeNamed(prog.entry))'
    <3>1. ASSUME pass' = "done"
          PROVE  SubtreeNamed(prog.entry)'
      <4>1. n = 0
        BY <1>6, <3>1
      <4>2. a = prog.entry
        BY <1>1, <1>2, <1>3, <1>4, <4>1 DEF FramesInv
      <4>3. SubtreeNamed(a)'
        BY <1>10, <2>1
      <4> QED BY <1>1, <4>2, <4>3
    <3> QED BY <3>1
  <2> QED BY <2>2, <2>3, <2>4, <2>5, <2>6, <2>7 DEF FramesInv
<1>13. ASSUME NEW r \in Region
       PROVE  /\ stack'[r] \in Seq(Nat)
              /\ \A i \in 1 .. Len(stack'[r]) : i \in 1 .. Len(stack[r]) /\ stack'[r][i] = stack[r][i]
              /\ \A m \in 1 .. Len(stack[r]) : Len(stack[r]) = m + Current.memRegs[r] => Len(stack'[r]) = m
  <2>1. PICK s, d : s = stack[r] /\ d = Current.memRegs[r]
    OBVIOUS
  <2>2. s \in Seq(Nat) /\ d \in Nat /\ stack'[r] = SubSeq(s, 1, Len(s) - d)
    BY <1>1, <1>2, <2>1 DEF StacksInv, Popped
  <2>3. PICK t : t = SubSeq(s, 1, Len(s) - d)
    OBVIOUS
  <2>4. /\ t \in Seq(Nat) /\ \A i \in 1 .. Len(t) : i \in 1 .. Len(s) /\ t[i] = s[i]
        /\ \A m \in 1 .. Len(s) : Len(s) = m + d => Len(t) = m
    BY <2>2, <2>3, SMTT(20)
  <2> QED BY <2>1, <2>2, <2>3, <2>4
<1>14. StacksInv'
  <2>1. counter' = counter /\ usedRegs' = usedRegs
    BY <1>1 DEF placing
  <2>2. stack' \in [Region -> Seq(Nat)]
    <3>1. stack' = [r \in Region |-> stack'[r]]
      BY <1>1 DEF Popped
    <3> QED BY <1>13, <3>1
  <2>3. \A r \in Region : \A i \in 1 .. Len(stack'[r]) : stack'[r][i] < counter[r]
    BY <1>2, <1>13 DEF StacksInv
  <2>4. ASSUME NEW r \in usedRegs
        PROVE  \E h : Heights(r, h)'
    <3>1. PICK h : Heights(r, h)
      BY <1>2 DEF StacksInv
    <3>2. /\ h \in [1 .. n + 2 -> 1 .. Len(stack[r])] /\ h[n + 2] = Len(stack[r])
          /\ \A k \in 1 .. n + 1 :
               /\ h[k + 1] = h[k] + frames[k].memRegs[r]
               /\ Inherits(frames[k].bb, r, stack[r][h[k]])
               /\ Arrives(frames[k].bb, frames[k].at, r, stack[r][h[k + 1]])
      <4>1. Len(frames) = n + 1 /\ n + 1 + 1 = n + 2
        BY <1>4
      <4> QED BY <3>1, <4>1 DEF Heights
    <3>3. PICK g : g = [k \in 1 .. n + 1 |-> h[k]]
      OBVIOUS
    <3>4. \A k \in 1 .. n + 1 : k \in 1 .. n + 2 /\ g[k] = h[k]
      BY <1>4, <3>3
    <3>5. n + 1 \in 1 .. n + 1 /\ n + 1 + 1 = n + 2
      BY <1>4
    <3>6. Len(stack[r]) = h[n + 1] + Current.memRegs[r] /\ h[n + 1] \in 1 .. Len(stack[r])
      BY <1>2, <1>4, <3>2, <3>4, <3>5
    <3>7. Len(stack'[r]) = h[n + 1]
      BY <1>2, <1>13, <3>6
    <3>8. \A k \in 1 .. n + 1 : h[k] <= h[n + 1]
      <4> SUFFICES ASSUME {k \in 1 .. n + 1 : ~(h[k] <= h[n + 1])} # {}
                   PROVE  FALSE
        OBVIOUS
      <4>1. PICK X : X = {k \in 1 .. n + 1 : ~(h[k] <= h[n + 1])}
        OBVIOUS
      <4>2. X \subseteq 0 .. n + 1 /\ n + 1 \in Nat
        BY <1>4, <4>1
      <4>3. PICK k \in X : \A j \in X : j <= k
        BY <4>1, <4>2, GreatestPosition
      <4>4. k \in 1 .. n + 1 /\ ~(h[k] <= h[n + 1])
        BY <4>1, <4>3
      <4>5. Len(stack[r]) \in Nat /\ \A j \in 1 .. n + 1 : h[j] \in Nat
        <5>1. Len(stack[r]) \in Nat
          BY <1>2 DEF StacksInv
        <5>2. \A j \in 1 .. n + 1 : h[j] \in 1 .. Len(stack[r])
          BY <3>2, <3>4
        <5> QED BY <5>1, <5>2
      <4>6. k # n + 1
        BY <3>5, <4>4, <4>5
      <4>7. k + 1 \in 1 .. n + 1 /\ ~(k + 1 <= k)
        BY <1>4, <4>4, <4>6
      <4>8. h[k + 1] <= h[n + 1]
        BY <4>1, <4>3, <4>7
      <4>9. h[k + 1] = h[k] + frames[k].memRegs[r]
        BY <3>2, <4>4
      <4>10. frames[k].memRegs[r] \in Nat
        <5>1. k \in 1 .. Len(frames)
          BY <1>4, <4>4
        <5>2. frames[k] \in F
          <6> HIDE DEF F
          <6> QED BY <1>2, <5>1
        <5> QED BY <1>2, <5>2
      <4>11. h[k] \in Nat /\ h[n + 1] \in Nat
        BY <3>5, <4>4, <4>5
      <4> QED BY <4>4, <4>8, <4>9, <4>10, <4>11
    <3>9. g \in [1 .. n + 1 -> 1 .. Len(stack'[r])]
      <4>1. ASSUME NEW k \in 1 .. n + 1
            PROVE  g[k] \in 1 .. Len(stack'[r])
        <5>1. h[k] \in 1 .. Len(stack[r]) /\ h[k] <= h[n + 1] /\ g[k] = h[k]
          BY <3>2, <3>4, <3>8
        <5> QED BY <3>6, <3>7, <5>1
      <4> QED BY <3>3, <4>1
    <3>10. \A x, i, w : /\ Inherits(x, r, w) => Inherits(x, r, w)'
                        /\ Arrives(x, i, r, w) => Arrives(x, i, r, w)'
      BY <1>7, ArrivesKept
    <3>11. \A i \in 1 .. Len(stack'[r]) : stack'[r][i] = stack[r][i]
      BY <1>2, <1>13
    <3>12. ASSUME NEW k \in 1 .. n
           PROVE  /\ g[k + 1] = g[k] + frames'[k].memRegs[r]
                  /\ Inherits(frames[k].bb, r, stack[r][g[k]])'
                  /\ Arrives(frames[k].bb, frames[k].at, r, stack[r][g[k + 1]])'
      <4>1. frames'[k] = frames[k] /\ k \in 1 .. n + 1 /\ k + 1 \in 1 .. n + 1
        BY <1>5, <1>11
      <4>2. g[k] = h[k] /\ g[k + 1] = h[k + 1] /\ g[k] \in 1 .. Len(stack'[r]) /\ g[k + 1] \in 1 .. Len(stack'[r])
        BY <3>4, <3>9, <4>1
      <4>3. PICK x, i, v1, v2 : /\ x = frames[k].bb /\ i = frames[k].at
                                /\ v1 = stack[r][h[k]] /\ v2 = stack[r][h[k + 1]]
        OBVIOUS
      <4>4. Inherits(x, r, v1)' /\ Arrives(x, i, r, v2)'
        BY <3>2, <3>10, <4>1, <4>3
      <4>5. Inherits(frames[k].bb, r, stack[r][g[k]])'
        BY <3>11, <4>1, <4>2, <4>3, <4>4
      <4>6. Arrives(frames[k].bb, frames[k].at, r, stack[r][g[k + 1]])'
        BY <3>11, <4>1, <4>2, <4>3, <4>4
      <4> QED BY <3>2, <4>1, <4>2, <4>5, <4>6
    <3>13. \A k \in 1 .. n : /\ Inherits(frames[k].bb, r, stack[r][g[k]])'
                             /\ Arrives(frames[k].bb, frames[k].at, r, stack[r][g[k + 1]])'
      BY <3>12
    <3>14. Len(frames)' = n
      BY <1>5
    <3>15. Heights(r, g)'
      BY <3>4, <3>5, <3>7, <3>9, <3>12, <3>13, <3>14 DEF Heights
    <3> QED BY <3>15
  <2>5. counter \in [Region -> Nat] /\ \A r \in usedRegs : counter[r] > 1
    BY <1>2 DEF StacksInv
  <2>6. (pass = "rename" => \A r \in usedRegs : counter[r] > 1 /\ \E h : Heights(r, h))'
    BY <2>1, <2>4, <2>5
  <2>7. pass' # "phi"
    BY <1>6
  <2> QED BY <2>1, <2>2, <2>3, <2>5, <2>6, <2>7 DEF StacksInv
<1> QED BY <1>1, <1>2, <1>6, <1>7, <1>12, <1>14 DEF SSAInv
LEMMA StutterStep ==
  ASSUME SSAInv, UNCHANGED ssaVars
  PROVE  SSAInv'
<1>1. /\ prog' = prog /\ pass' = pass /\ UNCHANGED placing /\ UNCHANGED naming /\ frames' = frames
      /\ UNCHANGED versions /\ stack' = stack /\ counter' = counter
  BY DEF ssaVars, naming
<1>2. /\ prog \in Bodies /\ pass \in {"collect", "phi", "rename", "done"}
      /\ pass \in {"collect", "phi"} => NothingNamed
      /\ FramesInv /\ StacksInv
  BY DEF SSAInv
<1>3. RecordsGrow /\ PlacingInv' /\ ReadsInv' /\ WritesInv'
  BY <1>1, NothingNew
<1>4. pass \in {"collect", "phi"} => NothingNamed'
  BY <1>1, <1>2, NothingRecordedNext
<1>5. /\ Live' = Live /\ \A x : EndOfBlock(x)' = EndOfBlock(x) /\ Children(x)' = Children(x)
  BY <1>1, SameGraph, SameTree
<1>6. /\ \A x, i : NamedUpTo(x, i) => NamedUpTo(x, i)'
      /\ \A x : SubtreeNamed(x) => SubtreeNamed(x)'
  BY <1>3, NamedKept
<1>7. FramesInv'
  <2>1. \A k \in 1 .. Len(frames) : NamedUpTo(frames[k].bb, frames[k].at)'
    <3>1. ASSUME NEW k \in 1 .. Len(frames)
          PROVE  NamedUpTo(frames[k].bb, frames[k].at)'
      <4>1. PICK x, i : x = frames[k].bb /\ i = frames[k].at
        OBVIOUS
      <4>2. NamedUpTo(x, i)
        BY <1>2, <4>1 DEF FramesInv
      <4> QED BY <1>1, <1>6, <4>1, <4>2
    <3> QED BY <3>1
  <2>2. (pass = "done" => SubtreeNamed(prog.entry))'
    <3>1. PICK e : e = prog.entry
      OBVIOUS
    <3>2. pass = "done" => SubtreeNamed(e)
      BY <1>2, <3>1 DEF FramesInv
    <3> QED BY <1>1, <1>6, <3>1, <3>2
  <2>3. ASSUME NEW k \in 1 .. Len(frames)
        PROVE  (/\ frames[k].at <= EndOfBlock(frames[k].bb) + 1
                /\ frames[k].children \subseteq Children(frames[k].bb)
                /\ frames[k].at = EndOfBlock(frames[k].bb) + 1 =>
                     \A c \in Children(frames[k].bb) :
                       c \in frames[k].children \/ (k < Len(frames) /\ c = frames[k + 1].bb) \/ SubtreeNamed(c)
                /\ k < Len(frames) =>
                     /\ frames[k].at = EndOfBlock(frames[k].bb) + 1
                     /\ frames[k + 1].bb \in Children(frames[k].bb))'
    <3>1. /\ frames[k].at <= EndOfBlock(frames[k].bb) + 1
          /\ frames[k].children \subseteq Children(frames[k].bb)
          /\ frames[k].at = EndOfBlock(frames[k].bb) + 1 =>
               \A c \in Children(frames[k].bb) :
                 c \in frames[k].children \/ (k < Len(frames) /\ c = frames[k + 1].bb) \/ SubtreeNamed(c)
          /\ k < Len(frames) =>
               /\ frames[k].at = EndOfBlock(frames[k].bb) + 1
               /\ frames[k + 1].bb \in Children(frames[k].bb)
      BY <1>2 DEF FramesInv
    <3> QED BY <1>1, <1>5, <1>6, <3>1
  <2>4. /\ (frames \in Seq([bb : Live, at : Nat, memRegs : [Region -> Nat], children : SUBSET Live]))'
        /\ (pass = "rename" <=> frames # <<>>)'
        /\ (frames # <<>> => frames[1].bb = prog.entry)'
    BY <1>1, <1>2, <1>5 DEF FramesInv
  <2> QED BY <1>1, <2>1, <2>2, <2>3, <2>4 DEF FramesInv
<1>8. StacksInv'
  <2>1. usedRegs' = usedRegs
    BY <1>3 DEF RecordsGrow
  <2>2. ASSUME NEW r, NEW h, Heights(r, h)
        PROVE  Heights(r, h)'
    <3>1. ASSUME NEW k \in 1 .. Len(frames)
          PROVE  /\ Inherits(frames[k].bb, r, stack[r][h[k]])'
                 /\ Arrives(frames[k].bb, frames[k].at, r, stack[r][h[k + 1]])'
      <4>1. PICK x, i, v1, v2 : /\ x = frames[k].bb /\ i = frames[k].at
                                /\ v1 = stack[r][h[k]] /\ v2 = stack[r][h[k + 1]]
        OBVIOUS
      <4>2. Inherits(x, r, v1) /\ Arrives(x, i, r, v2)
        BY <2>2, <4>1 DEF Heights
      <4>3. Inherits(x, r, v1)' /\ Arrives(x, i, r, v2)'
        BY <1>3, <4>2, ArrivesKept
      <4> QED BY <1>1, <4>1, <4>3
    <3>2. \A k \in 1 .. Len(frames) : /\ Inherits(frames[k].bb, r, stack[r][h[k]])'
                                     /\ Arrives(frames[k].bb, frames[k].at, r, stack[r][h[k + 1]])'
      BY <3>1
    <3> QED BY <1>1, <2>2, <3>2 DEF Heights
  <2>3. (pass = "rename" => \A r \in usedRegs : counter[r] > 1 /\ \E h : Heights(r, h))'
    BY <1>1, <1>2, <2>1, <2>2 DEF StacksInv
  <2> QED BY <1>1, <1>2, <2>1, <2>3 DEF StacksInv
<1> QED BY <1>1, <1>2, <1>3, <1>4, <1>7, <1>8 DEF SSAInv

LEMMA SSAStep == SSAInv /\ [SSANext]_ssaVars => SSAInv'
<1> SUFFICES ASSUME SSAInv, [SSANext]_ssaVars PROVE SSAInv'
  OBVIOUS
<1>1. CASE createMUCHI
  BY <1>1, CollectStep
<1>2. CASE insertPHI
  BY <1>2, InsertStep
<1>3. CASE SSARename
  BY <1>3, StartStep
<1>4. CASE RenamePhiRes
  BY <1>4, PhiResStep
<1>5. CASE RenameStatement
  BY <1>5, StatementStep
<1>6. CASE EndBlock
  BY <1>6, EndBlockStep
<1>7. CASE VisitChild
  BY <1>7, ChildStep
<1>8. CASE Return
  BY <1>8, ReturnStep
<1>9. CASE UNCHANGED ssaVars
  BY <1>9, StutterStep
<1> QED BY <1>1, <1>2, <1>3, <1>4, <1>5, <1>6, <1>7, <1>8, <1>9 DEF SSANext, Terminated

(* The invariant: phis stand on the frontiers, and every version recorded  *)
(* is the one the stacks carry to its point.                               *)
THEOREM SSAInvariance == SSASpec => []SSAInv
<1>1. SSAInit => SSAInv
  BY SSAInitInv
<1>2. SSAInv /\ [SSANext]_ssaVars => SSAInv'
  BY SSAStep
<1> QED BY <1>1, <1>2, PTL DEF SSASpec

LEMMA InvSSATypes == SSAInv => SSATypeOK
<1> SUFFICES ASSUME SSAInv PROVE SSATypeOK
  OBVIOUS
<1>1. /\ prog \in Bodies /\ PlacingInv /\ ReadsInv /\ WritesInv /\ FramesInv /\ StacksInv
      /\ usedRegs \subseteq Region /\ Live \subseteq Block
  BY RegionFacts, LiveFacts DEF SSAInv
<1>2. todo \cup phis \subseteq Block \X Region
  BY <1>1 DEF PlacingInv
<1>3. \A i \in DOMAIN frames : frames[i].bb \in Block /\ frames[i].children \subseteq Block
  <2> DEFINE F == [bb : Live, at : Nat, memRegs : [Region -> Nat], children : SUBSET Live]
  <2>1. frames \in Seq(F)
    BY <1>1 DEF FramesInv
  <2>2. \A f \in F : f.bb \in Live /\ f.children \subseteq Live
    OBVIOUS
  <2> HIDE DEF F
  <2>3. \A i \in DOMAIN frames : frames[i] \in F
    BY <2>1
  <2> QED BY <1>1, <2>2, <2>3
<1>4. \A v \in reads : v[3] \in Region /\ v[4] < counter[v[3]]
  BY <1>1 DEF ReadsInv, IsRead
<1>5. ASSUME NEW v \in writes
      PROVE  v[3] \in Region /\ v[4] < v[5] /\ v[5] < counter[v[3]]
  <2>1. PICK m : m = <<v[1], v[2], v[3], v[5]>>
    OBVIOUS
  <2>2. m \in Made /\ m[3] = v[3] /\ m[4] = v[5]
    BY <2>1 DEF Made
  <2> QED BY <1>1, <2>2 DEF WritesInv, IsWrite, IsMade
<1>6. ASSUME NEW v \in phiRes
      PROVE  <<v[1], v[2]>> \in phis /\ v[3] < counter[v[2]]
  <2>1. PICK m : m = <<v[1], 0, v[2], v[3]>>
    OBVIOUS
  <2>2. m \in Made /\ m[3] = v[2] /\ m[4] = v[3]
    BY <2>1 DEF Made
  <2> QED BY <1>1, <2>2 DEF WritesInv, IsMade
<1>7. \A v \in phiOps : <<v[1], v[2]>> \in phis /\ v[4] < counter[v[2]]
  BY <1>1 DEF ReadsInv, IsPhiOp
<1> QED BY <1>1, <1>2, <1>3, <1>4, <1>5, <1>6, <1>7 DEF SSATypeOK, SSAInv, StacksInv

(* Types of memory SSA: counters bound the versions given out, phi records *)
(* belong to phis placed, a chi's result is newer than its operand.        *)
THEOREM SSATypeCorrect == SSASpec => []SSATypeOK
<1>1. SSAInv => SSATypeOK
  BY InvSSATypes
<1> QED BY <1>1, SSAInvariance, PTL

(* Memory SSA is right for every function: each version read, or taken     *)
(* over by a chi, stands for exactly the definitions that reach it.        *)
THEOREM SSAVersions == SSASpec => []VersionsAreReachingDefs
<1>1. SSAInv => VersionsAreReachingDefs
  BY InvVersions
<1> QED BY <1>1, SSAInvariance, PTL

(* Stephen's test is exact for every function: a region counts as changed  *)
(* just when the function never returns or some write may leave the region *)
(* changed at the return.                                                  *)
THEOREM ChangedRegions == SSASpec => []ChangedIsExact
<1>1. SSAInv => ChangedIsExact
  BY InvChanged
<1> QED BY <1>1, SSAInvariance, PTL

=============================================================================
