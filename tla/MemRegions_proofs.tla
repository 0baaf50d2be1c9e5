-------------------------- MODULE MemRegions_proofs --------------------------
(***************************************************************************)
(* Proofs about the memory regions, for every program: the partitions keep *)
(* definitions and uses together, what arguments lead to is collected as   *)
(* far as the cache allows, and the effects of functions reach their calls *)
(* and are not invented.                                                   *)
(***************************************************************************)
EXTENDS MemRegions, FiniteSetTheorems, WellFoundedInduction, TLAPS

-----------------------------------------------------------------------------
(* Induction over the naturals, for a set of them.                         *)
LEMMA LeastNatural ==
  ASSUME NEW X, X \subseteq Nat, X # {}
  PROVE  \E n \in X : \A m \in X : n <= m
<1>1. PICK n \in X : \A m \in X : <<m, n>> \notin OpToRel(<, Nat)
  BY NatLessThanWellFounded, WFMin
<1>2. \A m \in X : ~(m < n)
  BY <1>1 DEF OpToRel
<1> QED BY <1>2

LEMMA Induction ==
  ASSUME NEW T, T \subseteq Nat, 0 \in T, \A i \in T : i + 1 \in T
  PROVE  T = Nat
<1> SUFFICES ASSUME T # Nat PROVE FALSE
  OBVIOUS
<1>1. PICK x \in Nat \ T : \A y \in Nat \ T : x <= y
  BY LeastNatural
<1>2. x - 1 \in Nat /\ x - 1 \in T
  BY <1>1
<1> QED BY <1>1, <1>2

LEMMA SmallestIsMember ==
  ASSUME NEW R, R # {}, \A q \in R : IsFiniteSet(q)
  PROVE  Smallest(R) \in R
<1> DEFINE sizes == {Cardinality(q) : q \in R}
<1>1. sizes \subseteq Nat /\ sizes # {}
  BY FS_CardinalityType
<1>2. \E n \in sizes : \A k \in sizes : n <= k
  <2> HIDE DEF sizes
  <2> QED BY <1>1, LeastNatural
<1>3. \E q \in R : \A p \in R : Cardinality(q) <= Cardinality(p)
  BY <1>2
<1> QED BY <1>3 DEF Smallest

-----------------------------------------------------------------------------
(* Cutting regions.  Within is what the regions inside a set make up.      *)
Within(R, c) == UNION {q \in R : q \subseteq c}

Covered(R, c) == c \subseteq Within(R, c)

Disjoint(R) == \A p, q \in R : p = q \/ p \cap q = {}

LEMMA CutKeepsWithin ==
  ASSUME NEW acc, NEW r, NEW c
  PROVE  Within(acc.regions, c) \subseteq Within(Cut(acc, r).regions, c)
<1> SUFFICES ASSUME NEW o, NEW q \in acc.regions, q \subseteq c, o \in q
             PROVE  \E p \in Cut(acc, r).regions : p \subseteq c /\ o \in p
  BY DEF Within
<1>1. CASE r \cap acc.rest = {} \/ r \cap acc.rest = r \/ q # r
  BY <1>1 DEF Cut
<1>2. CASE r \cap acc.rest # {} /\ r \cap acc.rest # r /\ q = r
  <2>1. r \cap acc.rest \in Cut(acc, r).regions /\ r \ (r \cap acc.rest) \in Cut(acc, r).regions
    BY <1>2 DEF Cut
  <2> QED BY <1>2, <2>1
<1> QED BY <1>1, <1>2

(* What holds while a set is cut out of the regions.                       *)
CutInv(x, regions, cpts) ==
  /\ x.left \subseteq regions /\ x.left \subseteq x.cut.regions
  /\ x.cut.rest \subseteq cpts
  /\ {} \notin x.cut.regions
  /\ \A c : Within(regions, c) \subseteq Within(x.cut.regions, c)
  /\ cpts \ x.cut.rest \subseteq Within(x.cut.regions, cpts)
  /\ \A q \in x.cut.regions : q \subseteq cpts \/ \E p \in regions : q \subseteq p
  /\ Disjoint(regions) =>
       /\ Disjoint(x.cut.regions)
       /\ \A q \in x.cut.regions \ x.left : q \cap x.cut.rest = {}

LEMMA TurnKeepsCut ==
  ASSUME NEW regions, NEW cpts, NEW x, CutInv(x, regions, cpts), x.left # {},
         \A q \in regions : IsFiniteSet(q)
  PROVE  /\ CutInv(Turn(x), regions, cpts)
         /\ \E r \in x.left : Turn(x).left = x.left \ {r}
<1> DEFINE r == Smallest(x.left)
           acc == x.cut
           new == Cut(acc, r)
           y == Turn(x)
           common == r \cap acc.rest
<1>1. r \in x.left /\ r \in regions /\ r \in acc.regions /\ r # {}
  BY SmallestIsMember DEF CutInv
<1>2. y.left = x.left \ {r} /\ y.cut = new
  BY DEF Turn
<1>3. new.rest = acc.rest \ common
  BY DEF Cut
<1>4. \/ new.regions = acc.regions /\ (common = {} \/ common = r)
      \/ /\ new.regions = (acc.regions \ {r}) \cup {common, r \ common}
         /\ common # {} /\ r \ common # {}
  BY DEF Cut
<1> HIDE DEF new, y, r
<1>5. y.left \subseteq regions /\ y.left \subseteq y.cut.regions
  BY <1>1, <1>2, <1>4 DEF CutInv
<1>6. y.cut.rest \subseteq cpts /\ {} \notin y.cut.regions
  BY <1>2, <1>3, <1>4 DEF CutInv
<1>7. \A c : Within(acc.regions, c) \subseteq Within(new.regions, c)
  BY CutKeepsWithin DEF new
<1>8. \A c : Within(regions, c) \subseteq Within(y.cut.regions, c)
  BY <1>2, <1>7 DEF CutInv
<1>9. cpts \ y.cut.rest \subseteq Within(y.cut.regions, cpts)
  <2>1. cpts \ acc.rest \subseteq Within(new.regions, cpts)
    BY <1>7 DEF CutInv
  <2>2. common # {} => common \in new.regions
    BY <1>1, <1>4
  <2>3. common \subseteq cpts
    BY DEF CutInv
  <2>4. common \subseteq Within(new.regions, cpts)
    BY <2>2, <2>3 DEF Within
  <2> QED BY <1>2, <1>3, <2>1, <2>4
<1>10. \A q \in y.cut.regions : q \subseteq cpts \/ \E p \in regions : q \subseteq p
  <2> SUFFICES ASSUME NEW q \in new.regions
               PROVE  q \subseteq cpts \/ \E p \in regions : q \subseteq p
    BY <1>2
  <2>1. q \in acc.regions \/ q \subseteq r
    BY <1>4
  <2> QED BY <1>1, <2>1 DEF CutInv
<1>11. ASSUME Disjoint(regions)
       PROVE  /\ Disjoint(y.cut.regions)
              /\ \A q \in y.cut.regions \ y.left : q \cap y.cut.rest = {}
  <2>1. Disjoint(acc.regions) /\ \A q \in acc.regions \ x.left : q \cap acc.rest = {}
    BY <1>11 DEF CutInv
  <2>2. \A q \in acc.regions \ {r} : q \cap r = {}
    BY <1>1, <2>1 DEF Disjoint
  <2>3. ASSUME NEW p \in new.regions, NEW q \in new.regions
        PROVE  p = q \/ p \cap q = {}
    <3>1. CASE p \in acc.regions /\ q \in acc.regions
      BY <2>1, <3>1 DEF Disjoint
    <3>2. CASE p \notin acc.regions \/ q \notin acc.regions
      <4>1. /\ p \in acc.regions \ {r} \/ p = common \/ p = r \ common
            /\ q \in acc.regions \ {r} \/ q = common \/ q = r \ common
        BY <1>4, <3>2
      <4>2. CASE p \in acc.regions \ {r}
        <5>1. p \cap r = {} /\ \A k \in acc.regions : p = k \/ p \cap k = {}
          BY <2>1, <2>2, <4>2 DEF Disjoint
        <5> QED BY <4>1, <5>1
      <4>3. CASE q \in acc.regions \ {r}
        <5>1. q \cap r = {} /\ \A k \in acc.regions : q = k \/ q \cap k = {}
          BY <2>1, <2>2, <4>3 DEF Disjoint
        <5> QED BY <4>1, <5>1
      <4>4. CASE p \in {common, r \ common} /\ q \in {common, r \ common}
        BY <4>4
      <4> QED BY <4>1, <4>2, <4>3, <4>4
    <3> QED BY <3>1, <3>2
  <2>4. ASSUME NEW q \in new.regions, q \notin x.left \ {r}
        PROVE  q \cap new.rest = {}
    <3>1. CASE q \subseteq r
      BY <1>3, <3>1
    <3>2. CASE ~(q \subseteq r)
      <4>1. q \in acc.regions /\ q # r
        BY <1>4, <3>2
      <4> QED BY <1>3, <2>1, <2>4, <4>1
    <3> QED BY <3>1, <3>2
  <2> QED BY <1>2, <2>3, <2>4 DEF Disjoint
<1> QED BY <1>1, <1>2, <1>5, <1>6, <1>8, <1>9, <1>10, <1>11 DEF CutInv, y

Begin(regions, cpts) == [left |-> regions, cut |-> [rest |-> cpts, regions |-> regions]]

(* f[i] is the loop after i turns.                                         *)
Loops(f, n, regions, cpts) ==
  f = [i \in 0 .. n |-> IF i = 0 THEN Begin(regions, cpts) ELSE Turn(f[i - 1])]

LEMMA LoopExists ==
  ASSUME NEW n \in Nat, NEW regions, NEW cpts
  PROVE  \E f : Loops(f, n, regions, cpts)
<1> DEFINE T == {k \in Nat : \E f : Loops(f, k, regions, cpts)}
           B == Begin(regions, cpts)
<1>1. 0 \in T
  <2> DEFINE f == [i \in 0 .. 0 |-> B]
  <2>1. f = [i \in 0 .. 0 |-> IF i = 0 THEN B ELSE Turn(f[i - 1])]
    OBVIOUS
  <2> QED BY <2>1 DEF Loops
<1>2. ASSUME NEW k \in T
      PROVE  k + 1 \in T
  <2>1. PICK f : Loops(f, k, regions, cpts)
    OBVIOUS
  <2> DEFINE g == [i \in 0 .. k + 1 |-> IF i = k + 1 THEN Turn(f[k]) ELSE f[i]]
             h == [i \in 0 .. k + 1 |-> IF i = 0 THEN B ELSE Turn(g[i - 1])]
  <2>2. k \in Nat /\ \A i \in 0 .. k : f[i] = IF i = 0 THEN B ELSE Turn(f[i - 1])
    BY <2>1 DEF Loops
  <2> HIDE DEF B
  <2>3. \A i \in 0 .. k + 1 : g[i] = h[i]
    <3> TAKE i \in 0 .. k + 1
    <3>1. CASE i = k + 1
      BY <2>2, <3>1
    <3>2. CASE i \in 0 .. k /\ i # 0
      <4>1. i - 1 \in 0 .. k /\ i - 1 # k + 1 /\ i # k + 1 /\ i - 1 \in 0 .. k + 1
        BY <2>2, <3>2
      <4>2. g[i] = f[i] /\ g[i - 1] = f[i - 1]
        BY <4>1
      <4> QED BY <2>2, <3>2, <4>2
    <3>3. CASE i = 0
      BY <2>2, <3>3
    <3> QED BY <2>2, <3>1, <3>2, <3>3
  <2>4. g = h
    BY <2>3
  <2>5. Loops(g, k + 1, regions, cpts)
    BY <2>4 DEF Loops, B
  <2> QED BY <2>2, <2>5
<1> HIDE DEF T
<1>3. T = Nat
  <2>1. T \subseteq Nat
    BY DEF T
  <2> QED BY <1>1, <1>2, <2>1, Induction
<1> QED BY <1>3 DEF T

LEMMA LoopCuts ==
  ASSUME NEW regions, IsFiniteSet(regions), \A q \in regions : IsFiniteSet(q), {} \notin regions,
         NEW cpts, NEW f, Loops(f, Cardinality(regions), regions, cpts)
  PROVE  /\ CutInv(f[Cardinality(regions)], regions, cpts)
         /\ f[Cardinality(regions)].left = {}
<1> DEFINE n == Cardinality(regions)
           T == {i \in Nat : i <= n => /\ CutInv(f[i], regions, cpts)
                                       /\ IsFiniteSet(f[i].left)
                                       /\ Cardinality(f[i].left) = n - i}
<1>1. n \in Nat
  BY FS_CardinalityType
<1>2. f[0] = Begin(regions, cpts) /\ \A i \in Nat : i + 1 <= n => f[i + 1] = Turn(f[i])
  <2>1. \A i \in 0 .. n : f[i] = IF i = 0 THEN Begin(regions, cpts) ELSE Turn(f[i - 1])
    BY DEF Loops
  <2> QED BY <1>1, <2>1
<1>3. 0 \in T
  <2>1. f[0].left = regions /\ f[0].cut.rest = cpts /\ f[0].cut.regions = regions
    BY <1>2 DEF Begin
  <2>2. CutInv(f[0], regions, cpts)
    BY <2>1 DEF CutInv
  <2> QED BY <1>1, <2>1, <2>2
<1>4. ASSUME NEW i \in T
      PROVE  i + 1 \in T
  <2> SUFFICES ASSUME i + 1 <= n
               PROVE  /\ CutInv(f[i + 1], regions, cpts)
                      /\ IsFiniteSet(f[i + 1].left)
                      /\ Cardinality(f[i + 1].left) = n - (i + 1)
    OBVIOUS
  <2>1. /\ CutInv(f[i], regions, cpts) /\ IsFiniteSet(f[i].left)
        /\ Cardinality(f[i].left) = n - i /\ i \in Nat
    BY <1>1
  <2>2. f[i].left # {}
    BY <1>1, <2>1, FS_EmptySet
  <2>3. /\ CutInv(f[i + 1], regions, cpts)
        /\ \E r \in f[i].left : f[i + 1].left = f[i].left \ {r}
    <3>1. f[i + 1] = Turn(f[i])
      BY <1>2, <2>1
    <3>2. /\ CutInv(Turn(f[i]), regions, cpts)
          /\ \E r \in f[i].left : Turn(f[i]).left = f[i].left \ {r}
      BY <2>1, <2>2, TurnKeepsCut
    <3> QED BY <3>1, <3>2
  <2> QED BY <1>1, <2>1, <2>3, FS_RemoveElement
<1>5. T = Nat
  <2>1. T \subseteq Nat
    OBVIOUS
  <2> HIDE DEF T
  <2> QED BY <1>3, <1>4, <2>1, Induction
<1>6. /\ CutInv(f[n], regions, cpts)
      /\ IsFiniteSet(f[n].left) /\ Cardinality(f[n].left) = n - n
  BY <1>1, <1>5
<1> QED BY <1>1, <1>6, FS_EmptySet

(* computeIntersections: each region is part of a region or set given; the *)
(* set and all that was made up of regions is made up of regions.          *)
LEMMA IntersectionsAre ==
  ASSUME NEW regions, IsFiniteSet(regions), \A q \in regions : IsFiniteSet(q), {} \notin regions,
         NEW cpts, cpts # {},
         NEW R, R = computeIntersections(regions, cpts)
  PROVE  /\ {} \notin R
         /\ \A q \in R : q \subseteq cpts \/ \E p \in regions : q \subseteq p
         /\ \A c : Covered(regions, c) => Covered(R, c)
         /\ Covered(R, cpts)
         /\ /\ Disjoint(regions)
            /\ Cardinality(cpts) = 1 => \A q \in regions : q = cpts \/ q \cap cpts = {}
            => Disjoint(R)
<1>1. CASE cpts \in regions \/ Cardinality(cpts) = 1
  <2>1. R = regions \cup {cpts}
    BY <1>1 DEF computeIntersections
  <2> QED BY <1>1, <2>1 DEF Covered, Within, Disjoint
<1>2. CASE ~(cpts \in regions \/ Cardinality(cpts) = 1)
  <2> DEFINE n == Cardinality(regions)
             after == CHOOSE f : Loops(f, n, regions, cpts)
             done == after[n].cut
  <2>1. n \in Nat
    BY FS_CardinalityType
  <2>2. R = done.regions \cup ({done.rest} \ {{}})
    BY <1>2 DEF computeIntersections, Loops, Begin
  <2>3. Loops(after, n, regions, cpts)
    BY <2>1, LoopExists
  <2>4. CutInv(after[n], regions, cpts) /\ after[n].left = {}
    <3> HIDE DEF after
    <3> QED BY <2>3, LoopCuts
  <2> HIDE DEF done, after
  <2>5. /\ done.rest \subseteq cpts /\ {} \notin done.regions
        /\ \A c : Within(regions, c) \subseteq Within(done.regions, c)
        /\ cpts \ done.rest \subseteq Within(done.regions, cpts)
        /\ \A q \in done.regions : q \subseteq cpts \/ \E p \in regions : q \subseteq p
        /\ Disjoint(regions) =>
             Disjoint(done.regions) /\ \A q \in done.regions : q \cap done.rest = {}
    BY <2>4 DEF CutInv, done
  <2>6. \A c : Within(done.regions, c) \subseteq Within(R, c)
    BY <2>2 DEF Within
  <2>7. \A c : Covered(regions, c) => Covered(R, c)
    BY <2>5, <2>6 DEF Covered
  <2>8. Covered(R, cpts)
    <3>1. done.rest \subseteq Within(R, cpts)
      BY <2>2, <2>5 DEF Within
    <3> QED BY <2>5, <2>6, <3>1 DEF Covered
  <2>9. Disjoint(regions) => Disjoint(R)
    BY <2>2, <2>5 DEF Disjoint
  <2> QED BY <2>2, <2>5, <2>7, <2>8, <2>9
<1> QED BY <1>1, <1>2

-----------------------------------------------------------------------------
(* Types, which parts of the state each phase uses, and no empty regions.  *)
Names == Obj \cup CallSite \cup {Globals}

Call == [of : Names, left : SUBSET Obj]

PhaseInv ==
  /\ phase \in {"modref", "partition", "done"} => calls = <<>> /\ sites = {}
  /\ phase # "modref" => members = {} /\ edges = {} /\ worklist = <<>>
  /\ phase \notin {"partition", "done"} => inters = [f \in Fun \cup {Whole} |-> {}]

RegionsInv ==
  /\ \A l \in Fun \cup {Whole} : {} \notin inters[l]
  /\ \A f \in Fun : {} \notin todo[f]

FormInv == TypeOK /\ PhaseInv /\ RegionsInv

LEMMA ProgramFields ==
  ASSUME prog \in Programs
  PROVE  /\ prog.caller \in [CallSite -> Fun] /\ prog.callees \in [CallSite -> SUBSET Fun]
         /\ prog.args \in [CallSite -> SUBSET Obj] /\ prog.points \in [Obj -> SUBSET Obj]
         /\ prog.home \in [Obj -> Fun \cup {"global", "heap"}]
         /\ prog.stores \in [Fun -> SUBSET SUBSET Obj] /\ prog.loads \in [Fun -> SUBSET SUBSET Obj]
         /\ prog.partition \in {"distinct", "intra", "inter"}
BY ProgramAssumption

LEMMA SetsAreFinite ==
  /\ \A q \in SUBSET Obj : IsFiniteSet(q)
  /\ \A R \in SUBSET SUBSET Obj : IsFiniteSet(R)
<1>1. \A q \in SUBSET Obj : IsFiniteSet(q)
  BY FiniteAssumption, FS_Subset
<1>2. IsFiniteSet(SUBSET Obj)
  BY FiniteAssumption, FS_SUBSET
<1> QED BY <1>1, <1>2, FS_Subset

(* The last call has handled o.                                            *)
LEMMA VisitedIs ==
  ASSUME calls \in Seq(Call), calls # <<>>, NEW o, NEW n, n = Len(calls)
  PROVE  /\ Visited(o) \in Seq(Call) /\ Len(Visited(o)) = n /\ n \in Nat \ {0}
         /\ \A i \in 1 .. n : /\ Visited(o)[i].of = calls[i].of
                              /\ i # n => Visited(o)[i] = calls[i]
         /\ Visited(o)[n].left = calls[n].left \ {o}
<1>1. n \in Nat \ {0} /\ \A i \in 1 .. n : calls[i] \in Call
  OBVIOUS
<1> DEFINE c == [calls[n] EXCEPT !.left = @ \ {o}]
<1>2. c \in Call /\ c.of = calls[n].of /\ c.left = calls[n].left \ {o}
  BY <1>1 DEF Call
<1>3. Visited(o) = [calls EXCEPT ![n] = c]
  BY DEF Visited
<1> HIDE DEF c
<1> QED BY <1>1, <1>2, <1>3

(* The stack of calls after each step of the search.                       *)
LEMMA StackAfter ==
  ASSUME calls \in Seq(Call), NEW n, n = Len(calls)
  PROVE  /\ \A o : calls # <<>> =>
              Visited(o) \in Seq(Call)
         /\ \A o \in Obj, D \in SUBSET Obj : calls # <<>> =>
              LET c == Append(Visited(o), [of |-> o, left |-> D])
              IN  /\ c \in Seq(Call) /\ Len(c) = n + 1
                  /\ \A i \in 1 .. n : c[i] = Visited(o)[i]
                  /\ c[n + 1] = [of |-> o, left |-> D]
         /\ n > 1 => /\ Front(calls) \in Seq(Call) /\ Len(Front(calls)) = n - 1
                     /\ \A i \in 1 .. n - 1 : Front(calls)[i] = calls[i]
<1>1. ASSUME NEW o, calls # <<>>
      PROVE  Visited(o) \in Seq(Call) /\ Len(Visited(o)) = n
  BY <1>1, VisitedIs
<1>2. ASSUME NEW o \in Obj, NEW D \in SUBSET Obj, calls # <<>>
      PROVE  LET c == Append(Visited(o), [of |-> o, left |-> D])
             IN  /\ c \in Seq(Call) /\ Len(c) = n + 1
                 /\ \A i \in 1 .. n : c[i] = Visited(o)[i]
                 /\ c[n + 1] = [of |-> o, left |-> D]
  <2> DEFINE v == Visited(o)
             e == [of |-> o, left |-> D]
  <2>1. v \in Seq(Call) /\ Len(v) = n
    BY <1>1, <1>2
  <2>2. e \in Call
    BY DEF Call, Names
  <2> HIDE DEF v, e
  <2>3. /\ Append(v, e) \in Seq(Call) /\ Len(Append(v, e)) = n + 1
        /\ \A i \in 1 .. n : Append(v, e)[i] = v[i]
        /\ Append(v, e)[n + 1] = e
    BY <2>1, <2>2
  <2> QED BY <2>3 DEF v, e
<1>3. n > 1 => /\ Front(calls) \in Seq(Call) /\ Len(Front(calls)) = n - 1
               /\ \A i \in 1 .. n - 1 : Front(calls)[i] = calls[i]
  BY DEF Front
<1> QED BY <1>1, <1>2, <1>3

LEMMA CallsTyped ==
  ASSUME TypeOK
  PROVE  calls \in Seq(Call) /\ chain \in [Names -> SUBSET Obj] /\ DOMAIN chain = Names
BY DEF TypeOK, Call, Names

LEMMA InitForm == Init => FormInv
<1> SUFFICES ASSUME Init PROVE FormInv
  OBVIOUS
<1>1. prog \in Programs
  BY DEF Init
<1>2. /\ \A f \in Fun : UNION prog.stores[f] \subseteq Obj /\ UNION prog.loads[f] \subseteq Obj
  BY <1>1, ProgramFields
<1>3. {funMods, funRefs} \subseteq [Fun -> SUBSET Obj]
  BY <1>2 DEF Init, NonLocal
<1>4. calls \in Seq([of : DOMAIN chain, left : SUBSET Obj])
  <2> DEFINE D == {o \in Obj : prog.home[o] = "global"}
  <2>1. [of |-> Globals, left |-> D] \in [of : DOMAIN chain, left : SUBSET Obj]
    BY DEF Init
  <2>2. calls = <<[of |-> Globals, left |-> D]>>
    BY DEF Init
  <2> HIDE DEF D
  <2> QED BY <2>1, <2>2
<1>5. worklist \in Seq(Fun) /\ IsInjective(worklist)
  BY DEF Init, IsInjective
<1>6. TypeOK
  BY <1>1, <1>3, <1>4, <1>5 DEF Init, TypeOK
<1> QED BY <1>6 DEF Init, FormInv, PhaseInv, RegionsInv

(* The steps of the search change calls, chain and cached only.            *)
LEMMA CollectForm ==
  ASSUME FormInv, CollectCached \/ CollectNew \/ CollectReturn \/ CollectDone \/ collectCallSitePts
  PROVE  FormInv'
<1>1. calls \in Seq(Call) /\ chain \in [Names -> SUBSET Obj] /\ prog \in Programs
  BY CallsTyped DEF FormInv, TypeOK
<1> DEFINE n == Len(calls)
<1>2. calls # <<>> => n \in Nat \ {0} /\ calls[n].of \in Names /\ calls[n].left \subseteq Obj
  <2>1. calls # <<>> => n \in Nat \ {0} /\ calls[n] \in Call
    BY <1>1
  <2> QED BY <2>1 DEF Call
<1>3. UNCHANGED <<prog, spreading, effects, dividing>>
  BY DEF CollectCached, CollectNew, CollectReturn, CollectDone, collectCallSitePts
<1>4. /\ calls' \in Seq(Call) /\ chain' \in [Names -> SUBSET Obj]
      /\ cached' \subseteq Obj /\ sites' \subseteq CallSite
      /\ phase' \in {"globals", "sites"}
  <2>1. phase \in {"globals", "sites"} /\ cached \subseteq Obj /\ sites \subseteq CallSite
    BY DEF FormInv, PhaseInv, TypeOK, CollectCached, CollectNew, CollectReturn, CollectDone,
           collectCallSitePts
  <2>2. CASE CollectCached
    <3>1. PICK o \in Current.left \cap cached :
            /\ chain' = [chain EXCEPT ![Current.of] = @ \cup chain[o]]
            /\ calls' = Visited(o)
      BY <2>2 DEF CollectCached
    <3>2. chain[o] \subseteq Obj
      BY <1>1, <1>2, <2>1 DEF Names
    <3>3. calls' \in Seq(Call)
      BY <1>1, <2>2, <3>1, VisitedIs DEF CollectCached
    <3> QED BY <1>1, <2>1, <2>2, <3>1, <3>2, <3>3 DEF CollectCached
  <2>3. CASE CollectNew
    <3>1. PICK o \in Current.left \ cached :
            /\ chain' = [chain EXCEPT ![o] = {o}]
            /\ cached' = cached \cup {o}
            /\ calls' = Append(Visited(o), [of |-> o, left |-> prog.points[o]])
      BY <2>3 DEF CollectNew
    <3>2. o \in Obj /\ prog.points[o] \in SUBSET Obj /\ calls # <<>>
      BY <1>1, <1>2, <2>3, ProgramFields DEF Current, CollectNew
    <3>3. calls' \in Seq(Call)
      BY <1>1, <3>1, <3>2, StackAfter
    <3> QED BY <1>1, <2>1, <2>3, <3>1, <3>2, <3>3 DEF CollectNew, Names
  <2>4. CASE CollectReturn
    <3>1. chain' = [chain EXCEPT ![calls[n - 1].of] = @ \cup chain[Current.of]] /\ calls' = Front(calls)
      BY <2>4 DEF CollectReturn, AddedTo
    <3>2. n > 1 /\ chain[Current.of] \subseteq Obj
      BY <1>1, <1>2, <2>4 DEF CollectReturn, Current
    <3>3. calls' \in Seq(Call)
      BY <1>1, <3>1, <3>2, StackAfter
    <3> QED BY <1>1, <2>1, <2>4, <3>1, <3>2, <3>3 DEF CollectReturn
  <2>5. CASE CollectDone
    BY <1>1, <2>1, <2>5 DEF CollectDone
  <2>6. CASE collectCallSitePts
    <3>1. PICK s \in sites : calls' = <<[of |-> s, left |-> prog.args[s]]>> /\ sites' = sites \ {s}
      BY <2>6 DEF collectCallSitePts
    <3>2. [of |-> s, left |-> prog.args[s]] \in Call
      BY <1>1, <2>1, ProgramFields DEF Call, Names
    <3> QED BY <1>1, <2>1, <2>6, <3>1, <3>2 DEF collectCallSitePts
  <2> QED BY <2>2, <2>3, <2>4, <2>5, <2>6
<1>5. calls' \in Seq([of : DOMAIN chain', left : SUBSET Obj])
  BY <1>4 DEF Call
<1>6. TypeOK'
  BY <1>3, <1>4, <1>5 DEF FormInv, TypeOK, Names, spreading, effects, dividing
<1>7. phase \in {"globals", "sites"}
  <2>1. Len(<<>>) = 0
    OBVIOUS
  <2>2. calls # <<>> \/ phase = "sites"
    BY <2>1 DEF CollectCached, CollectNew, CollectReturn, CollectDone, collectCallSitePts
  <2> QED BY <2>2 DEF FormInv, PhaseInv, TypeOK
<1>8. PhaseInv'
  BY <1>3, <1>4, <1>7 DEF FormInv, PhaseInv, spreading, dividing
<1> QED BY <1>3, <1>6, <1>8 DEF FormInv, RegionsInv, dividing

-----------------------------------------------------------------------------
(* A worklist of call graph nodes has each representative.                 *)
LEMMA OrderHasAll ==
  ASSUME NEW R \in SUBSET Fun, NEW w \in SetToSeqs(R)
  PROVE  w \in Seq(Fun) /\ IsInjective(w) /\ \A f \in R : Contains(w, f)
<1> DEFINE n == Cardinality(R)
<1>1. IsFiniteSet(R) /\ n \in Nat
  BY FiniteAssumption, FS_Subset, FS_CardinalityType
<1>2. w \in [1 .. n -> R] /\ \A i, j \in 1 .. n : i # j => w[i] # w[j]
  BY DEF SetToSeqs
<1>3. w \in Seq(Fun) /\ Len(w) = n
  BY <1>1, <1>2
<1>4. IsInjective(w)
  BY <1>2 DEF IsInjective
<1>5. R \subseteq {w[i] : i \in 1 .. n}
  <2> DEFINE W == {w[i] : i \in 1 .. n}
  <2>1. w \in Surjection(1 .. n, W) /\ w \in Injection(1 .. n, W)
    BY <1>2 DEF Surjection, Injection, IsInjective
  <2>2. w \in Bijection(1 .. n, W)
    BY <2>1 DEF Bijection
  <2>3. Cardinality(W) = n
    BY <1>1, <2>2, FS_CountingElements, FS_Interval DEF ExistsBijection
  <2>4. W \subseteq R
    BY <1>2
  <2> HIDE DEF W
  <2>5. W = R
    BY <1>1, <2>3, <2>4, FS_Subset
  <2> QED BY <2>5 DEF W
<1> QED BY <1>3, <1>4, <1>5 DEF Contains

LEMMA RootMapsTyped ==
  ASSUME NEW E, NEW R \in S!RootMaps(E)
  PROVE  R \in [Fun -> Fun]
<1> DEFINE scc == S!Components(E)
           cyclic == {C \in {scc[n] : n \in Fun} : \E m, n \in C : m # n}
<1>1. \A n \in Fun : scc[n] \subseteq Fun
  BY DEF S!Components
<1>2. PICK root \in [cyclic -> UNION cyclic] :
        /\ \A C \in cyclic : root[C] \in C
        /\ R = [n \in Fun |-> IF scc[n] \in cyclic THEN root[scc[n]] ELSE n]
  BY DEF S!RootMaps
<1> HIDE DEF scc
<1>3. ASSUME NEW n \in Fun, scc[n] \in cyclic
      PROVE  root[scc[n]] \in Fun
  BY <1>1, <1>2, <1>3
<1> QED BY <1>2, <1>3

(* The components of the call graph, and what one call passes on.          *)
LEMMA SpreadForm ==
  ASSUME FormInv, StartModRef \/ Pop \/ NextMember \/ modRefAnalysis
  PROVE  FormInv'
<1>1. prog \in Programs /\ UNCHANGED <<prog, collecting, dividing>>
  BY DEF FormInv, TypeOK, StartModRef, Pop, NextMember, modRefAnalysis
<1>2. calls = <<>> /\ sites = {} /\ phase' = "modref" /\ inters = [f \in Fun \cup {Whole} |-> {}]
  BY DEF FormInv, PhaseInv, TypeOK, StartModRef, Pop, NextMember, modRefAnalysis
<1>3. /\ rep' \in [Fun -> Fun] /\ worklist' \in Seq(Fun) /\ IsInjective(worklist')
      /\ members' \subseteq Fun /\ edges' \subseteq Fun \X CallSite
      /\ {funMods', funRefs'} \subseteq [Fun -> SUBSET Obj]
      /\ {siteMods', siteRefs'} \subseteq [CallSite -> SUBSET Obj]
  <2>1. /\ rep \in [Fun -> Fun] /\ worklist \in Seq(Fun) /\ IsInjective(worklist)
        /\ members \subseteq Fun /\ edges \subseteq Fun \X CallSite
        /\ funMods \in [Fun -> SUBSET Obj] /\ funRefs \in [Fun -> SUBSET Obj]
        /\ siteMods \in [CallSite -> SUBSET Obj] /\ siteRefs \in [CallSite -> SUBSET Obj]
    BY DEF FormInv, TypeOK
  <2>2. CASE StartModRef
    <3>1. rep' \in [Fun -> Fun]
      BY <2>2, RootMapsTyped DEF StartModRef
    <3>2. {rep'[f] : f \in Fun} \in SUBSET Fun
      BY <3>1
    <3>3. worklist' \in Seq(Fun) /\ IsInjective(worklist')
      BY <2>2, <3>2, OrderHasAll DEF StartModRef, TopoOrders
    <3> QED BY <2>1, <2>2, <3>1, <3>3 DEF StartModRef, effects
  <2>3. CASE Pop
    <3>1. Tail(worklist) \in Seq(Fun) /\ IsInjective(Tail(worklist))
      <4>1. worklist # <<>>
        BY <2>3 DEF Pop
      <4>2. /\ Tail(worklist) \in Seq(Fun) /\ Len(Tail(worklist)) = Len(worklist) - 1
            /\ \A i \in 1 .. Len(Tail(worklist)) : Tail(worklist)[i] = worklist[i + 1]
        BY <2>1, <4>1
      <4> QED BY <2>1, <4>2 DEF IsInjective
    <3> QED BY <2>1, <2>3, <3>1 DEF Pop, effects
  <2>4. CASE NextMember
    BY <2>1, <2>4 DEF NextMember, effects
  <2>5. CASE modRefAnalysis
    <3>1. PICK e \in edges :
            LET s    == e[2]
                c    == prog.caller[s]
                mods == SeenBy(funMods[e[1]], s)
                refs == SeenBy(funMods[e[1]] \cup funRefs[e[1]], s)
            IN  /\ siteMods' = [siteMods EXCEPT ![s] = @ \cup mods]
                /\ siteRefs' = [siteRefs EXCEPT ![s] = @ \cup refs]
                /\ funMods' = [funMods EXCEPT ![c] = @ \cup NonLocal(mods, c)]
                /\ funRefs' = [funRefs EXCEPT ![c] = @ \cup NonLocal(refs, c)]
                /\ worklist' = Pushed(c, Changed(s, mods, refs))
                /\ edges' = edges \ {e}
                /\ UNCHANGED <<prog, phase, collecting, rep, members, dividing>>
      BY <2>5 DEF modRefAnalysis
    <3> DEFINE s == e[2]
               c == prog.caller[s]
               mods == SeenBy(funMods[e[1]], s)
               refs == SeenBy(funMods[e[1]] \cup funRefs[e[1]], s)
    <3>2. s \in CallSite /\ e[1] \in Fun /\ c \in Fun
      BY <1>1, <2>1, ProgramFields
    <3>3. mods \subseteq Obj /\ refs \subseteq Obj
      BY <2>1, <3>2 DEF SeenBy, GlobalsAndHeap
    <3>4. NonLocal(mods, c) \subseteq Obj /\ NonLocal(refs, c) \subseteq Obj
      BY <3>3 DEF NonLocal
    <3>5. worklist' \in Seq(Fun) /\ IsInjective(worklist')
      <4>1. worklist' = worklist \/ (worklist' = Append(worklist, c) /\ ~Contains(worklist, c))
        BY <3>1 DEF Pushed
      <4>2. /\ Append(worklist, c) \in Seq(Fun) /\ Len(Append(worklist, c)) = Len(worklist) + 1
            /\ \A i \in 1 .. Len(worklist) : Append(worklist, c)[i] = worklist[i]
            /\ Append(worklist, c)[Len(worklist) + 1] = c
        BY <2>1, <3>2
      <4>3. ~Contains(worklist, c) => IsInjective(Append(worklist, c))
        BY <2>1, <4>2 DEF IsInjective, Contains
      <4> QED BY <2>1, <4>1, <4>2, <4>3
    <3> HIDE DEF mods, refs, s, c
    <3>6. /\ siteMods' = [siteMods EXCEPT ![s] = @ \cup mods]
          /\ siteRefs' = [siteRefs EXCEPT ![s] = @ \cup refs]
          /\ funMods' = [funMods EXCEPT ![c] = @ \cup NonLocal(mods, c)]
          /\ funRefs' = [funRefs EXCEPT ![c] = @ \cup NonLocal(refs, c)]
          /\ rep' = rep /\ members' = members /\ edges' = edges \ {e}
      BY <3>1 DEF mods, refs, s, c
    <3> QED BY <2>1, <3>2, <3>3, <3>4, <3>5, <3>6
  <2> QED BY <2>2, <2>3, <2>4, <2>5
<1>4. TypeOK'
  BY <1>1, <1>2, <1>3 DEF FormInv, TypeOK, collecting, dividing
<1> QED BY <1>1, <1>2, <1>4 DEF FormInv, PhaseInv, RegionsInv, collecting, dividing

(* The step of a partition: one set of one function enters the regions.    *)
Enters(f, cpts) ==
  /\ f \in Fun /\ cpts \in todo[f]
  /\ \A d \in todo[f] : Cardinality(cpts) <= Cardinality(d)
  /\ inters' = [inters EXCEPT ![ListOf(f)] = Refined(@, cpts)]
  /\ todo' = [todo EXCEPT ![f] = @ \ {cpts}]

LEMMA PartitionEnters ==
  ASSUME partitionMRs
  PROVE  /\ \E f, cpts : Enters(f, cpts)
         /\ phase = "partition" /\ UNCHANGED <<prog, phase, collecting, spreading, effects>>
BY DEF partitionMRs, Enters

LEMMA RefinedTyped ==
  ASSUME NEW R \in SUBSET SUBSET Obj, {} \notin R, NEW cpts \in SUBSET Obj, cpts # {}
  PROVE  Refined(R, cpts) \in SUBSET SUBSET Obj /\ {} \notin Refined(R, cpts)
<1>1. CASE prog.partition = "distinct"
  BY <1>1 DEF Refined, createDistinctMR
<1>2. CASE prog.partition # "distinct"
  <2> DEFINE N == computeIntersections(R, cpts)
  <2>1. /\ {} \notin N
        /\ \A q \in N : q \subseteq cpts \/ \E p \in R : q \subseteq p
    BY SetsAreFinite, IntersectionsAre
  <2> HIDE DEF N
  <2>2. N \in SUBSET SUBSET Obj
    BY <2>1
  <2>3. Refined(R, cpts) = N
    BY <1>2 DEF Refined, N
  <2> QED BY <2>1, <2>2, <2>3
<1> QED BY <1>1, <1>2

LEMMA CPtsTyped ==
  ASSUME FormInv, NEW f \in Fun
  PROVE  CPts(f) \subseteq SUBSET Obj /\ {} \notin CPts(f)
<1>1. /\ prog \in Programs
      /\ siteMods \in [CallSite -> SUBSET Obj] /\ siteRefs \in [CallSite -> SUBSET Obj]
  BY DEF FormInv, TypeOK
<1>2. Defs(f) \subseteq SUBSET Obj /\ Uses(f) \subseteq SUBSET Obj
  BY <1>1, ProgramFields DEF Defs, Uses
<1> QED BY <1>2 DEF CPts

LEMMA DivideForm ==
  ASSUME FormInv, StartPartition \/ partitionMRs \/ Finish
  PROVE  FormInv'
<1>1. UNCHANGED <<prog, collecting, spreading, effects>>
  BY DEF StartPartition, partitionMRs, Finish
<1>2. /\ calls = <<>> /\ sites = {} /\ members = {} /\ edges = {} /\ worklist = <<>>
      /\ phase' \in {"partition", "done"}
  BY DEF FormInv, PhaseInv, TypeOK, StartPartition, partitionMRs, Finish
<1>3. /\ inters \in [Fun \cup {Whole} -> SUBSET SUBSET Obj]
      /\ todo \in [Fun -> SUBSET SUBSET Obj]
      /\ \A l \in Fun \cup {Whole} : {} \notin inters[l]
      /\ \A f \in Fun : {} \notin todo[f]
  BY DEF FormInv, TypeOK, RegionsInv
<1>4. /\ inters' \in [Fun \cup {Whole} -> SUBSET SUBSET Obj]
      /\ todo' \in [Fun -> SUBSET SUBSET Obj]
      /\ \A l \in Fun \cup {Whole} : {} \notin inters'[l]
      /\ \A f \in Fun : {} \notin todo'[f]
  <2>1. CASE StartPartition
    <3>1. inters' = inters /\ todo' = [f \in Fun |-> CPts(f)]
      BY <2>1 DEF StartPartition
    <3> QED BY <1>3, <3>1, CPtsTyped
  <2>2. CASE partitionMRs
    <3>1. PICK f, cpts : Enters(f, cpts)
      BY <2>2, PartitionEnters
    <3> DEFINE l == ListOf(f)
               N == Refined(inters[l], cpts)
    <3>2. f \in Fun /\ cpts \in todo[f] /\ l \in Fun \cup {Whole}
      BY <3>1 DEF Enters, ListOf
    <3>3. N \in SUBSET SUBSET Obj /\ {} \notin N
      BY <1>3, <3>2, RefinedTyped
    <3>4. inters' = [inters EXCEPT ![l] = N] /\ todo' = [todo EXCEPT ![f] = @ \ {cpts}]
      BY <3>1 DEF Enters
    <3> HIDE DEF N, l
    <3> QED BY <1>3, <3>2, <3>3, <3>4
  <2>3. CASE Finish
    BY <1>3, <2>3 DEF Finish, dividing
  <2> QED BY <2>1, <2>2, <2>3
<1>5. TypeOK'
  BY <1>1, <1>2, <1>4 DEF FormInv, TypeOK, collecting, spreading, effects
<1> QED BY <1>1, <1>2, <1>4, <1>5 DEF FormInv, PhaseInv, RegionsInv, collecting, spreading

LEMMA NextForm == FormInv /\ [Next]_vars => FormInv'
<1> SUFFICES ASSUME FormInv, [Next]_vars PROVE FormInv'
  OBVIOUS
<1>1. CASE UNCHANGED vars
  BY <1>1 DEF FormInv, TypeOK, PhaseInv, RegionsInv, vars, collecting, spreading, effects, dividing
<1> QED BY <1>1, CollectForm, SpreadForm, DivideForm DEF Next, Terminated

(* What is collected, spread and divided keeps its types.                  *)
THEOREM TypeCorrect == Spec => []TypeOK
<1>1. FormInv => TypeOK
  BY DEF FormInv
<1> QED BY <1>1, InitForm, NextForm, PTL DEF Spec

-----------------------------------------------------------------------------
(* Effects.  One call is handled for one of its callees.                   *)
Passes(f, s) ==
  LET c    == prog.caller[s]
      mods == SeenBy(funMods[f], s)
      refs == SeenBy(funMods[f] \cup funRefs[f], s)
  IN  /\ <<f, s>> \in edges
      /\ siteMods' = [siteMods EXCEPT ![s] = @ \cup mods]
      /\ siteRefs' = [siteRefs EXCEPT ![s] = @ \cup refs]
      /\ funMods' = [funMods EXCEPT ![c] = @ \cup NonLocal(mods, c)]
      /\ funRefs' = [funRefs EXCEPT ![c] = @ \cup NonLocal(refs, c)]
      /\ worklist' = Pushed(c, Changed(s, mods, refs))
      /\ edges' = edges \ {<<f, s>>}

LEMMA AnalysisPasses ==
  ASSUME FormInv, modRefAnalysis
  PROVE  /\ \E f \in Fun, s \in CallSite : Passes(f, s)
         /\ UNCHANGED <<prog, phase, collecting, rep, members, dividing>>
<1>1. PICK e \in edges :
        LET s    == e[2]
            c    == prog.caller[s]
            mods == SeenBy(funMods[e[1]], s)
            refs == SeenBy(funMods[e[1]] \cup funRefs[e[1]], s)
        IN  /\ siteMods' = [siteMods EXCEPT ![s] = @ \cup mods]
            /\ siteRefs' = [siteRefs EXCEPT ![s] = @ \cup refs]
            /\ funMods' = [funMods EXCEPT ![c] = @ \cup NonLocal(mods, c)]
            /\ funRefs' = [funRefs EXCEPT ![c] = @ \cup NonLocal(refs, c)]
            /\ worklist' = Pushed(c, Changed(s, mods, refs))
            /\ edges' = edges \ {e}
            /\ UNCHANGED <<prog, phase, collecting, rep, members, dividing>>
  BY DEF modRefAnalysis
<1>2. e[1] \in Fun /\ e[2] \in CallSite /\ e = <<e[1], e[2]>>
  BY DEF FormInv, TypeOK
<1>3. Passes(e[1], e[2])
  BY <1>1, <1>2 DEF Passes
<1> QED BY <1>1, <1>2, <1>3

(* Only a call that is handled changes effects.                            *)
LEMMA EffectsChange ==
  ASSUME FormInv, [Next]_vars
  PROVE  /\ prog' = prog
         /\ modRefAnalysis \/ UNCHANGED effects
         /\ phase \notin {"globals", "sites"} => chain' = chain /\ phase' \notin {"globals", "sites"}
<1>1. prog' = prog /\ (modRefAnalysis \/ UNCHANGED effects)
  BY DEF Next, Terminated, vars, CollectCached, CollectNew, CollectReturn, CollectDone, collectCallSitePts,
         StartModRef, Pop, NextMember, modRefAnalysis, StartPartition, partitionMRs, Finish
<1>2. Len(<<>>) = 0
  OBVIOUS
<1>3. ASSUME phase \notin {"globals", "sites"}
      PROVE  chain' = chain /\ phase' \notin {"globals", "sites"}
  <2>1. phase \in {"modref", "partition", "done"} /\ calls = <<>>
    BY <1>3 DEF FormInv, PhaseInv, TypeOK
  <2>2. \/ Pop \/ NextMember \/ modRefAnalysis \/ StartPartition \/ partitionMRs \/ Finish
        \/ UNCHANGED vars
    BY <1>2, <1>3, <2>1 DEF Next, Terminated, CollectCached, CollectNew, CollectReturn, CollectDone,
         collectCallSitePts, StartModRef
  <2> QED BY <2>1, <2>2 DEF vars, collecting, Pop, NextMember, modRefAnalysis, StartPartition,
         partitionMRs, Finish
<1> QED BY <1>1, <1>3

(* A function that represents its component and has effects which a call   *)
(* of it does not have yet is still to be handled for that call.           *)
Has(s, f) ==
  /\ SeenBy(funMods[f], s) \subseteq siteMods[s]
  /\ SeenBy(funMods[f] \cup funRefs[f], s) \subseteq siteRefs[s]

Awaits(s, f) == Contains(worklist, f) \/ f \in members \/ <<f, s>> \in edges

Kept(s) ==
  /\ NonLocal(siteMods[s], prog.caller[s]) \subseteq funMods[prog.caller[s]]
  /\ NonLocal(siteRefs[s], prog.caller[s]) \subseteq funRefs[prog.caller[s]]

SpreadInv ==
  /\ \A s \in CallSite : Kept(s)
  /\ phase \notin {"globals", "sites"} =>
       \A s \in CallSite : \A f \in prog.callees[s] : rep[f] = f => Awaits(s, f) \/ Has(s, f)

LEMMA InitSpread == Init => SpreadInv
BY ProgramFields DEF Init, SpreadInv, Kept, NonLocal

LEMMA PassesSpreads ==
  ASSUME FormInv, SpreadInv, modRefAnalysis
  PROVE  SpreadInv'
<1>1. PICK f \in Fun, s \in CallSite : Passes(f, s)
  BY AnalysisPasses
<1> DEFINE c == prog.caller[s]
           mods == SeenBy(funMods[f], s)
           refs == SeenBy(funMods[f] \cup funRefs[f], s)
<1>2. /\ prog' = prog /\ phase' = phase /\ chain' = chain /\ rep' = rep /\ members' = members
  BY AnalysisPasses DEF collecting
<1>3. /\ prog \in Programs /\ phase = "modref"
      /\ funMods \in [Fun -> SUBSET Obj] /\ funRefs \in [Fun -> SUBSET Obj]
      /\ siteMods \in [CallSite -> SUBSET Obj] /\ siteRefs \in [CallSite -> SUBSET Obj]
      /\ worklist \in Seq(Fun)
  BY <1>1 DEF FormInv, TypeOK, PhaseInv, Passes
<1>4. c \in Fun /\ prog.caller \in [CallSite -> Fun] /\ prog.callees \in [CallSite -> SUBSET Fun]
  BY <1>3, ProgramFields
<1>5. /\ siteMods' = [siteMods EXCEPT ![s] = @ \cup mods]
      /\ siteRefs' = [siteRefs EXCEPT ![s] = @ \cup refs]
      /\ funMods' = [funMods EXCEPT ![c] = @ \cup NonLocal(mods, c)]
      /\ funRefs' = [funRefs EXCEPT ![c] = @ \cup NonLocal(refs, c)]
      /\ worklist' = Pushed(c, Changed(s, mods, refs))
      /\ edges' = edges \ {<<f, s>>}
  BY <1>1 DEF Passes
<1>6. ASSUME NEW objs, NEW g
      PROVE  /\ NonLocal(objs, g)' = NonLocal(objs, g)
             /\ NonLocal(objs, g) \subseteq objs
  BY <1>2 DEF NonLocal, isNonLocalObject, IsRecursive, CallEdges
<1>7. ASSUME NEW objs, NEW t
      PROVE  SeenBy(objs, t)' = SeenBy(objs, t)
  BY <1>2 DEF SeenBy, GlobalsAndHeap
<1> HIDE DEF mods, refs, c
<1>8. ASSUME NEW t \in CallSite
      PROVE  /\ NonLocal(siteMods'[t], prog.caller[t]) \subseteq funMods'[prog.caller[t]]
             /\ NonLocal(siteRefs'[t], prog.caller[t]) \subseteq funRefs'[prog.caller[t]]
  <2>1. /\ NonLocal(siteMods[t], prog.caller[t]) \subseteq funMods[prog.caller[t]]
        /\ NonLocal(siteRefs[t], prog.caller[t]) \subseteq funRefs[prog.caller[t]]
    BY DEF SpreadInv, Kept
  <2>2. /\ funMods[prog.caller[t]] \subseteq funMods'[prog.caller[t]]
        /\ funRefs[prog.caller[t]] \subseteq funRefs'[prog.caller[t]]
    BY <1>3, <1>4, <1>5
  <2>3. CASE t # s
    BY <1>3, <1>5, <2>1, <2>2, <2>3
  <2>4. CASE t = s
    <3>1. siteMods'[t] = siteMods[t] \cup mods /\ siteRefs'[t] = siteRefs[t] \cup refs
      BY <1>3, <1>5, <2>4
    <3>2. /\ funMods'[c] = funMods[c] \cup NonLocal(mods, c)
          /\ funRefs'[c] = funRefs[c] \cup NonLocal(refs, c)
      BY <1>3, <1>4, <1>5
    <3>3. \A a, b : NonLocal(a \cup b, c) = NonLocal(a, c) \cup NonLocal(b, c)
      BY DEF NonLocal
    <3>4. prog.caller[t] = c
      BY <2>4 DEF c
    <3> QED BY <2>1, <3>1, <3>2, <3>3, <3>4
  <2> QED BY <2>3, <2>4
<1>9. ASSUME NEW t \in CallSite, NEW g \in prog.callees[t], rep[g] = g
      PROVE  Awaits(t, g)' \/ Has(t, g)'
  <2>1. g \in Fun
    BY <1>4
  <2>2. /\ \A k : Contains(worklist, k) => Contains(worklist', k)
        /\ Changed(s, mods, refs) => Contains(worklist', c)
    <3>1. \/ worklist' = worklist /\ (Changed(s, mods, refs) => Contains(worklist, c))
          \/ worklist' = Append(worklist, c)
      BY <1>5 DEF Pushed
    <3>2. /\ Len(Append(worklist, c)) = Len(worklist) + 1 /\ Len(worklist) \in Nat
          /\ \A i \in 1 .. Len(worklist) : Append(worklist, c)[i] = worklist[i]
          /\ Append(worklist, c)[Len(worklist) + 1] = c
      BY <1>3, <1>4
    <3> QED BY <3>1, <3>2 DEF Contains
  <2>3. CASE Changed(s, mods, refs) /\ g = c
    BY <2>2, <2>3 DEF Awaits
  <2>4. CASE ~(Changed(s, mods, refs) /\ g = c)
    <3>1. funMods'[g] = funMods[g] /\ funRefs'[g] = funRefs[g]
      <4>1. CASE g # c
        BY <1>3, <1>5, <2>1, <4>1
      <4>2. CASE g = c /\ ~Changed(s, mods, refs)
        <5>1. mods \subseteq siteMods[s] /\ refs \subseteq siteRefs[s]
          BY <4>2 DEF Changed
        <5>2. NonLocal(mods, c) \subseteq NonLocal(siteMods[s], c) /\ NonLocal(refs, c) \subseteq NonLocal(siteRefs[s], c)
          BY <5>1 DEF NonLocal
        <5>3. NonLocal(mods, c) \subseteq funMods[c] /\ NonLocal(refs, c) \subseteq funRefs[c]
          BY <5>2 DEF SpreadInv, Kept, c
        <5> QED BY <1>3, <1>4, <1>5, <4>2, <5>3
      <4> QED BY <2>4, <4>1, <4>2
    <3>2. siteMods[t] \subseteq siteMods'[t] /\ siteRefs[t] \subseteq siteRefs'[t]
      BY <1>3, <1>5
    <3>3. Has(t, g) => Has(t, g)'
      BY <1>7, <3>1, <3>2 DEF Has
    <3>4. CASE t = s /\ g = f
      <4>1. mods \subseteq siteMods'[t] /\ refs \subseteq siteRefs'[t]
        BY <1>3, <1>5, <3>4
      <4>2. SeenBy(funMods[g], t) = mods /\ SeenBy(funMods[g] \cup funRefs[g], t) = refs
        BY <3>4 DEF mods, refs
      <4> QED BY <1>7, <3>1, <4>1, <4>2 DEF Has
    <3>5. CASE ~(t = s /\ g = f)
      <4>1. <<g, t>> \in edges => <<g, t>> \in edges'
        BY <1>5, <3>5
      <4>2. Awaits(t, g) \/ Has(t, g)
        BY <1>3, <1>9 DEF SpreadInv
      <4> QED BY <1>2, <2>2, <3>3, <4>1, <4>2 DEF Awaits
    <3> QED BY <3>4, <3>5
  <2> QED BY <2>3, <2>4
<1>10. ASSUME NEW t \in CallSite
       PROVE  Kept(t)'
  BY <1>2, <1>6, <1>8 DEF Kept
<1> QED BY <1>2, <1>9, <1>10 DEF SpreadInv

LEMMA NextSpread ==
  ASSUME FormInv, SpreadInv, [Next]_vars
  PROVE  SpreadInv'
<1>1. CASE modRefAnalysis
  BY <1>1, PassesSpreads
<1>2. CASE ~modRefAnalysis
  <2>1. prog' = prog /\ UNCHANGED effects
    BY <1>2, EffectsChange
  <2>2. ASSUME NEW s \in CallSite
        PROVE  Kept(s)'
    <3>1. Kept(s)
      BY DEF SpreadInv
    <3>2. \A objs, g : NonLocal(objs, g)' = NonLocal(objs, g)
      BY <2>1 DEF NonLocal, isNonLocalObject, IsRecursive, CallEdges
    <3> QED BY <2>1, <3>1, <3>2 DEF Kept, effects
  <2>4. ASSUME phase' \notin {"globals", "sites"}, NEW s \in CallSite, NEW f \in prog'.callees[s], rep'[f] = f
        PROVE  Awaits(s, f)' \/ Has(s, f)'
    <3>1. f \in Fun /\ f \in prog.callees[s]
      BY <2>1, ProgramFields DEF FormInv, TypeOK
    <3>2. CASE phase \in {"globals", "sites"}
      <4>1. StartModRef
        BY <2>4, <3>2 DEF Next, Terminated, vars, CollectCached, CollectNew, CollectReturn, CollectDone,
             collectCallSitePts, StartModRef, Pop, NextMember, modRefAnalysis, StartPartition,
             partitionMRs, Finish, FormInv, PhaseInv
      <4>2. f \in {rep'[g] : g \in Fun}
        BY <2>4, <3>1
      <4>3. {rep'[g] : g \in Fun} \in SUBSET Fun
        BY <4>1, RootMapsTyped DEF StartModRef
      <4>4. Contains(worklist', f)
        BY <4>1, <4>2, <4>3, OrderHasAll DEF StartModRef, TopoOrders
      <4> QED BY <4>4 DEF Awaits
    <3>3. CASE phase \notin {"globals", "sites"}
      <4>1. chain' = chain
        BY <3>3, EffectsChange
      <4>2. \A objs : SeenBy(objs, s)' = SeenBy(objs, s)
        BY <2>1, <4>1 DEF SeenBy, GlobalsAndHeap
      <4>3. Has(s, f)' <=> Has(s, f)
        BY <2>1, <4>2 DEF Has, effects
      <4>4. ~StartModRef
        BY <3>3 DEF StartModRef
      <4>5. rep' = rep
        BY <1>2, <4>4 DEF Next, Terminated, vars, spreading, CollectCached, CollectNew, CollectReturn,
             CollectDone, collectCallSitePts, Pop, NextMember, StartPartition, partitionMRs, Finish
      <4>6. Awaits(s, f) \/ Has(s, f)
        BY <2>4, <3>1, <3>3, <4>5 DEF SpreadInv
      <4>7. Awaits(s, f) => Awaits(s, f)'
        <5> SUFFICES ASSUME Awaits(s, f) PROVE Awaits(s, f)'
          OBVIOUS
        <5>1. CASE Pop
          <6>1. /\ worklist # <<>> /\ worklist' = Tail(worklist) /\ edges' = edges
                /\ members = {} /\ members' = {g \in Fun : rep[g] = Head(worklist)}
            BY <5>1 DEF Pop
          <6>2. worklist \in Seq(Fun)
            BY DEF FormInv, TypeOK
          <6>3. /\ Len(worklist) \in Nat /\ Len(Tail(worklist)) = Len(worklist) - 1
                /\ \A i \in 1 .. Len(worklist) : i = 1 \/ worklist[i] = Tail(worklist)[i - 1]
                /\ Head(worklist) = worklist[1]
            BY <6>1, <6>2
          <6>4. Contains(worklist, f) => Contains(worklist', f) \/ f = Head(worklist)
            <7> SUFFICES ASSUME NEW i \in 1 .. Len(worklist), worklist[i] = f, i # 1
                         PROVE  \E j \in 1 .. Len(worklist') : worklist'[j] = f
              BY <6>3 DEF Contains
            <7>1. i - 1 \in 1 .. Len(worklist') /\ worklist'[i - 1] = f
              BY <6>1, <6>3
            <7> QED BY <7>1
          <6> QED BY <2>4, <3>1, <4>5, <6>1, <6>4 DEF Awaits
        <5>2. CASE NextMember
          <6>1. PICK g \in members : /\ members' = members \ {g}
                                     /\ edges' = {g} \X {t \in CallSite : g \in prog.callees[t]}
            BY <5>2 DEF NextMember
          <6>2. worklist' = worklist /\ edges = {}
            BY <5>2 DEF NextMember
          <6> QED BY <3>1, <6>1, <6>2 DEF Awaits
        <5>3. CASE ~Pop /\ ~NextMember
          <6>1. phase \in {"modref", "partition", "done"} /\ calls = <<>>
            BY <3>3 DEF FormInv, PhaseInv, TypeOK
          <6>2. Len(<<>>) = 0
            OBVIOUS
          <6>3. worklist' = worklist /\ members' = members /\ edges' = edges
            BY <1>2, <4>4, <5>3, <6>1, <6>2 DEF Next, Terminated, vars, spreading, CollectCached, CollectNew,
               CollectReturn, CollectDone, collectCallSitePts, StartPartition, partitionMRs, Finish
          <6> QED BY <6>3 DEF Awaits
        <5> QED BY <5>1, <5>2, <5>3
      <4> QED BY <4>3, <4>6, <4>7
    <3> QED BY <3>2, <3>3
  <2> QED BY <2>2, <2>4 DEF SpreadInv
<1> QED BY <1>1, <1>2

(* Effects of a function that represents its component have reached its    *)
(* callers when the worklist is empty, for every call graph, every choice  *)
(* of representatives and every order of the calls.                        *)
THEOREM RepresentativesClosed == Spec => []DoneIsClosedAtReps
<1>1. FormInv /\ SpreadInv => DoneIsClosedAtReps
  <2> SUFFICES ASSUME FormInv, SpreadInv, phase \in {"partition", "done"},
                      NEW s \in CallSite, NEW f \in prog.callees[s], rep[f] = f
               PROVE  ClosedAt(s, f)
    BY DEF DoneIsClosedAtReps
  <2>1. worklist = <<>> /\ members = {} /\ edges = {}
    BY DEF FormInv, PhaseInv
  <2>2. ~Awaits(s, f)
    BY <2>1 DEF Awaits, Contains
  <2> QED BY <2>2 DEF SpreadInv, Kept, Has, ClosedAt
<1>2. FormInv /\ SpreadInv /\ [Next]_vars => FormInv' /\ SpreadInv'
  BY NextForm, NextSpread
<1> QED BY <1>1, <1>2, InitForm, InitSpread, PTL DEF Spec

-----------------------------------------------------------------------------
(* Chains.  LeadTo is the least closed set.                                *)
LEMMA LeadToIsClosed ==
  ASSUME NEW X \in SUBSET Obj
  PROVE  /\ X \subseteq LeadTo(X) /\ LeadTo(X) \subseteq Obj
         /\ \A a \in LeadTo(X) : \A b \in prog.points[a] \cap Obj : b \in LeadTo(X)
<1>1. X \subseteq LeadTo(X) /\ LeadTo(X) \subseteq Obj
  BY DEF LeadTo
<1>2. ASSUME NEW a \in LeadTo(X), NEW b \in prog.points[a] \cap Obj
      PROVE  b \in LeadTo(X)
  <2> SUFFICES ASSUME NEW C \in O!ClosedSets(Points), X \subseteq C
               PROVE  b \in C
    BY DEF LeadTo
  <2>1. a \in C /\ a \in Obj
    BY DEF LeadTo
  <2> DEFINE e == <<a, b>>
  <2>2. e \in Points /\ e[1] = a /\ e[2] = b
    BY <2>1 DEF Points
  <2> HIDE DEF e
  <2> QED BY <2>1, <2>2 DEF O!ClosedSets
<1> QED BY <1>1, <1>2

LEMMA LeadToIsLeast ==
  ASSUME NEW X, NEW C \in SUBSET Obj, X \subseteq C,
         \A a \in C : prog.points[a] \subseteq C
  PROVE  LeadTo(X) \subseteq C
<1>1. C \in O!ClosedSets(Points)
  BY DEF O!ClosedSets, Points
<1> QED BY <1>1 DEF LeadTo

LEMMA LeadToFacts ==
  ASSUME prog \in Programs
  PROVE  /\ \A X, Y \in SUBSET Obj : X \subseteq LeadTo(Y) => LeadTo(X) \subseteq LeadTo(Y)
         /\ \A o \in Obj : LeadTo({o}) = {o} \cup LeadTo(prog.points[o])
         /\ \A X \in SUBSET Obj : \A Y : (\A d \in X : LeadTo({d}) \subseteq Y) => LeadTo(X) \subseteq Y
<1>1. prog.points \in [Obj -> SUBSET Obj]
  BY ProgramFields
<1>2. ASSUME NEW X \in SUBSET Obj
      PROVE  \A a \in LeadTo(X) : prog.points[a] \subseteq LeadTo(X)
  BY <1>1, LeadToIsClosed
<1>3. ASSUME NEW X \in SUBSET Obj, NEW Y \in SUBSET Obj, X \subseteq LeadTo(Y)
      PROVE  LeadTo(X) \subseteq LeadTo(Y)
  BY <1>2, <1>3, LeadToIsClosed, LeadToIsLeast
<1>4. ASSUME NEW o \in Obj
      PROVE  LeadTo({o}) = {o} \cup LeadTo(prog.points[o])
  <2> DEFINE D == prog.points[o]
             C == {o} \cup LeadTo(D)
  <2>1. D \in SUBSET Obj /\ {o} \in SUBSET Obj
    BY <1>1
  <2>2. o \in LeadTo({o}) /\ D \subseteq LeadTo({o})
    BY <1>2, <2>1, LeadToIsClosed
  <2>3. C \subseteq LeadTo({o})
    BY <1>3, <2>1, <2>2
  <2>4. C \in SUBSET Obj /\ \A a \in C : prog.points[a] \subseteq C
    BY <1>2, <2>1, LeadToIsClosed
  <2>5. LeadTo({o}) \subseteq C
    BY <2>4, LeadToIsLeast
  <2> QED BY <2>3, <2>5
<1>5. ASSUME NEW X \in SUBSET Obj, NEW Y, \A d \in X : LeadTo({d}) \subseteq Y
      PROVE  LeadTo(X) \subseteq Y
  <2> DEFINE C == UNION {LeadTo({d}) : d \in X}
  <2>1. \A d \in X : /\ d \in LeadTo({d}) /\ LeadTo({d}) \subseteq Obj
                     /\ \A a \in LeadTo({d}) : prog.points[a] \subseteq LeadTo({d})
    BY <1>2, LeadToIsClosed
  <2>2. X \subseteq C /\ C \in SUBSET Obj /\ \A a \in C : prog.points[a] \subseteq C
    BY <2>1
  <2> HIDE DEF C
  <2>3. LeadTo(X) \subseteq C
    BY <2>2, LeadToIsLeast
  <2> QED BY <1>5, <2>3 DEF C
<1> QED BY <1>3, <1>4, <1>5

(* What is looked at first for an object, the arguments of a call, or the  *)
(* globals; and what is to be collected.                                   *)
GlobalObjs == {g \in Obj : prog.home[g] = "global"}

Direct(n) == IF n \in Obj THEN prog.points[n]
             ELSE IF n \in CallSite THEN prog.args[n] ELSE GlobalObjs

Chain(n) == (IF n \in Obj THEN {n} ELSE {}) \cup LeadTo(Direct(n))

Acyclic == \A o \in Obj : o \notin LeadTo(prog.points[o])

OnStack(n) == \E i \in 1 .. Len(calls) : calls[i].of = n

(* Nothing is collected that does not belong to the chain.  Each object on *)
(* the stack is reached from those below it.                               *)
ChainInv ==
  /\ \A n \in Names : chain[n] \subseteq Chain(n)
  /\ \A i \in 1 .. Len(calls) :
       /\ calls[i].left \subseteq Direct(calls[i].of)
       /\ calls[i].of \in Obj => calls[i].of \in cached
       /\ calls[i].of \notin sites
  /\ \A i, j \in 1 .. Len(calls) : i < j =>
       /\ calls[j].of \in Obj /\ calls[j].of # calls[i].of
       /\ calls[j].of \in LeadTo(Direct(calls[i].of))
  /\ calls # <<>> => calls[1].of \notin Obj

(* Without cycles, what has been collected is complete once it is off the  *)
(* stack; on the stack, what is behind the objects handled is there.       *)
CompleteInv ==
  Acyclic =>
    /\ \A n \in cached \cup (CallSite \ sites) : OnStack(n) \/ Chain(n) \subseteq chain[n]
    /\ \A i \in 1 .. Len(calls) : \A d \in Direct(calls[i].of) :
         \/ d \in calls[i].left
         \/ i < Len(calls) /\ d = calls[i + 1].of
         \/ LeadTo({d}) \subseteq chain[calls[i].of]
    /\ \A o \in cached : o \in chain[o]

LEMMA InitChain == Init => ChainInv /\ CompleteInv
<1> SUFFICES ASSUME Init PROVE ChainInv /\ CompleteInv
  OBVIOUS
<1> DEFINE c == [of |-> Globals, left |-> GlobalObjs]
<1>1. /\ calls = <<c>> /\ sites = CallSite /\ cached = {}
      /\ chain = [n \in Names |-> {}]
  BY DEF Init, Names, GlobalObjs
<1>2. /\ Len(calls) = 1 /\ calls[1] = c /\ c.of = Globals /\ c.left = GlobalObjs
      /\ calls # <<>>
  BY <1>1
<1>3. Direct(Globals) = GlobalObjs /\ Globals \notin Obj /\ Globals \notin CallSite
  BY NamesAssumption DEF Direct
<1> HIDE DEF c
<1>4. ChainInv
  BY <1>1, <1>2, <1>3 DEF ChainInv
<1>5. CompleteInv
  BY <1>1, <1>2, <1>3 DEF CompleteInv
<1> QED BY <1>4, <1>5

(* What a program determines does not change.                              *)
LEMMA ProgramKept ==
  ASSUME prog' = prog
  PROVE  /\ \A X : LeadTo(X)' = LeadTo(X)
         /\ \A n : Direct(n)' = Direct(n) /\ Chain(n)' = Chain(n)
         /\ Acyclic' = Acyclic
<1>1. \A X : LeadTo(X)' = LeadTo(X)
  BY DEF LeadTo, Points
<1>2. \A n : Direct(n)' = Direct(n)
  BY DEF Direct, GlobalObjs
<1> QED BY <1>1, <1>2 DEF Chain, Acyclic

LEMMA DirectTyped ==
  ASSUME prog \in Programs
  PROVE  \A n \in Names : Direct(n) \in SUBSET Obj
BY ProgramFields DEF Direct, Names, GlobalObjs

(* The chain of a name is that of what is looked at first.                 *)
LEMMA ChainBehind ==
  ASSUME prog \in Programs, NEW n \in Names, NEW o \in LeadTo(Direct(n))
  PROVE  /\ o \in Obj /\ Chain(o) = LeadTo({o}) /\ Chain(o) \subseteq Chain(n)
<1>1. o \in Obj /\ Direct(n) \in SUBSET Obj
  BY DirectTyped, LeadToIsClosed
<1>2. Chain(o) = LeadTo({o})
  BY <1>1, LeadToFacts DEF Chain, Direct
<1>3. LeadTo({o}) \subseteq LeadTo(Direct(n))
  BY <1>1, LeadToFacts
<1> QED BY <1>1, <1>2, <1>3 DEF Chain

-----------------------------------------------------------------------------
(* The search, step by step.  What is known of the last call:              *)
LEMMA LastCall ==
  ASSUME FormInv, ChainInv, calls # <<>>, NEW n, n = Len(calls)
  PROVE  /\ n \in Nat \ {0} /\ Current = calls[n] /\ prog \in Programs
         /\ calls \in Seq(Call) /\ chain \in [Names -> SUBSET Obj]
         /\ \A i \in 1 .. n : calls[i].of \in Names /\ Direct(calls[i].of) \in SUBSET Obj
         /\ calls[n].left \subseteq Direct(calls[n].of) /\ calls[n].left \subseteq Obj
         /\ n > 1 => calls[n].of \in Obj
<1>1. calls \in Seq(Call) /\ chain \in [Names -> SUBSET Obj] /\ prog \in Programs
  BY CallsTyped DEF FormInv, TypeOK
<1>2. n \in Nat \ {0} /\ \A i \in 1 .. n : calls[i] \in Call
  BY <1>1
<1>3. \A i \in 1 .. n : calls[i].of \in Names /\ Direct(calls[i].of) \in SUBSET Obj
  BY <1>1, <1>2, DirectTyped DEF Call
<1>4. calls[n].left \subseteq Direct(calls[n].of)
  BY <1>2 DEF ChainInv
<1>5. n > 1 => calls[n].of \in Obj
  BY <1>2 DEF ChainInv
<1> QED BY <1>1, <1>2, <1>3, <1>4, <1>5 DEF Current

LEMMA CachedKeepsChain ==
  ASSUME FormInv, ChainInv, CollectCached
  PROVE  ChainInv' /\ (CompleteInv => CompleteInv')
<1> DEFINE n == Len(calls)
           u == calls[n].of
<1>1. PICK o \in Current.left \cap cached :
        /\ chain' = [chain EXCEPT ![Current.of] = @ \cup chain[o]]
        /\ calls' = Visited(o)
  BY DEF CollectCached
<1>2. UNCHANGED <<prog, cached, sites>> /\ calls # <<>>
  BY DEF CollectCached
<1>3. /\ n \in Nat \ {0} /\ Current = calls[n] /\ prog \in Programs
      /\ calls \in Seq(Call) /\ chain \in [Names -> SUBSET Obj]
      /\ \A i \in 1 .. n : calls[i].of \in Names /\ Direct(calls[i].of) \in SUBSET Obj
      /\ calls[n].left \subseteq Direct(calls[n].of) /\ calls[n].left \subseteq Obj
      /\ n > 1 => calls[n].of \in Obj
  BY <1>2, LastCall
<1>4. /\ Len(calls') = n
      /\ \A i \in 1 .. n : calls'[i].of = calls[i].of /\ (i # n => calls'[i] = calls[i])
      /\ calls'[n].left = calls[n].left \ {o}
  BY <1>1, <1>2, <1>3, VisitedIs
<1>5. u \in Names /\ o \in Names /\ o \in Obj /\ o \in Direct(u) /\ o \in cached /\ o \in calls[n].left
  BY <1>1, <1>3 DEF Names
<1>6. chain' = [chain EXCEPT ![u] = @ \cup chain[o]]
  BY <1>1, <1>3
<1>7. o \in LeadTo(Direct(u))
  BY <1>3, <1>5, LeadToIsClosed
<1>8. Chain(o) \subseteq Chain(u) /\ Chain(o) = LeadTo({o})
  BY <1>3, <1>5, <1>7, ChainBehind
<1> HIDE DEF u
<1>9. \A m \in Names : chain[m] \subseteq chain'[m] /\ (m # u => chain'[m] = chain[m])
  BY <1>3, <1>6
<1>10. chain'[u] = chain[u] \cup chain[o]
  BY <1>3, <1>5, <1>6
<1>11. ChainInv'
  <2>1. \A m \in Names : chain'[m] \subseteq Chain(m)
    BY <1>5, <1>8, <1>9, <1>10 DEF ChainInv
  <2>2. ASSUME NEW i \in 1 .. n
        PROVE  /\ calls'[i].left \subseteq Direct(calls'[i].of)
               /\ calls'[i].of \in Obj => calls'[i].of \in cached
               /\ calls'[i].of \notin sites
    BY <1>4 DEF ChainInv
  <2>3. ASSUME NEW i \in 1 .. n, NEW j \in 1 .. n, i < j
        PROVE  /\ calls'[j].of \in Obj /\ calls'[j].of # calls'[i].of
               /\ calls'[j].of \in LeadTo(Direct(calls'[i].of))
    BY <1>4, <2>3 DEF ChainInv
  <2>4. calls'[1].of \notin Obj
    BY <1>2, <1>3, <1>4 DEF ChainInv
  <2> QED BY <1>2, <1>4, <2>1, <2>2, <2>3, <2>4, ProgramKept DEF ChainInv
<1>12. ASSUME CompleteInv, Acyclic
       PROVE  /\ \A m \in cached \cup (CallSite \ sites) : OnStack(m)' \/ Chain(m) \subseteq chain'[m]
              /\ \A i \in 1 .. n : \A d \in Direct(calls'[i].of) :
                   \/ d \in calls'[i].left
                   \/ i < n /\ d = calls'[i + 1].of
                   \/ LeadTo({d}) \subseteq chain'[calls'[i].of]
              /\ \A p \in cached : p \in chain'[p]
  <2>1. ~OnStack(o)
    <3> SUFFICES ASSUME NEW i \in 1 .. n, calls[i].of = o PROVE FALSE
      BY DEF OnStack
    <3>1. Direct(o) = prog.points[o] /\ o \notin LeadTo(Direct(o)) /\ Direct(o) \in SUBSET Obj
      BY <1>3, <1>5, <1>12, ProgramFields DEF Direct, Acyclic
    <3>2. CASE i = n
      BY <1>5, <3>1, <3>2, LeadToIsClosed DEF u
    <3>3. CASE i # n
      <4>1. u \in LeadTo(Direct(o)) /\ u \in Obj
        BY <1>3, <3>3 DEF ChainInv, u
      <4>2. o \in prog.points[u]
        BY <1>5, <4>1 DEF Direct
      <4> QED BY <1>5, <3>1, <4>1, <4>2, LeadToIsClosed
    <3> QED BY <3>2, <3>3
  <2>2. Chain(o) \subseteq chain[o]
    BY <1>5, <1>12, <2>1 DEF CompleteInv
  <2>3. \A m : OnStack(m)' <=> OnStack(m)
    BY <1>4 DEF OnStack
  <2>4. \A m \in cached \cup (CallSite \ sites) : OnStack(m)' \/ Chain(m) \subseteq chain'[m]
    <3>1. cached \cup (CallSite \ sites) \subseteq Names
      BY DEF FormInv, TypeOK, Names
    <3> QED BY <1>9, <1>12, <2>3, <3>1 DEF CompleteInv
  <2>5. ASSUME NEW i \in 1 .. n, NEW d \in Direct(calls'[i].of)
        PROVE  \/ d \in calls'[i].left
               \/ i < n /\ d = calls'[i + 1].of
               \/ LeadTo({d}) \subseteq chain'[calls'[i].of]
    <3>1. \/ d \in calls[i].left
          \/ i < n /\ d = calls[i + 1].of
          \/ LeadTo({d}) \subseteq chain[calls[i].of]
      BY <1>4, <1>12, <2>5 DEF CompleteInv
    <3>2. chain[calls[i].of] \subseteq chain'[calls'[i].of]
      BY <1>3, <1>4, <1>9
    <3>3. i < n => i + 1 \in 1 .. n
      BY <1>3
    <3>4. CASE i = n /\ d = o
      BY <1>4, <1>8, <1>10, <2>2, <3>4 DEF u
    <3>5. CASE ~(i = n /\ d = o)
      BY <1>4, <3>1, <3>2, <3>3, <3>5
    <3> QED BY <3>4, <3>5
  <2>6. \A p \in cached : p \in chain'[p]
    BY <1>9, <1>12 DEF CompleteInv, FormInv, TypeOK, Names
  <2> QED BY <2>4, <2>5, <2>6
<1>13. CompleteInv => CompleteInv'
  <2> SUFFICES ASSUME CompleteInv, Acyclic'
               PROVE  /\ \A m \in (cached \cup (CallSite \ sites))' : OnStack(m)' \/ Chain(m)' \subseteq chain'[m]
                      /\ \A i \in 1 .. Len(calls') : \A d \in Direct(calls[i].of)' :
                           \/ d \in calls'[i].left
                           \/ i < Len(calls') /\ d = calls'[i + 1].of
                           \/ LeadTo({d})' \subseteq chain'[calls'[i].of]
                      /\ \A p \in cached' : p \in chain'[p]
    BY DEF CompleteInv
  <2>1. /\ Acyclic /\ \A m : Chain(m)' = Chain(m) /\ Direct(m)' = Direct(m)
        /\ \A X : LeadTo(X)' = LeadTo(X)
    BY <1>2, ProgramKept
  <2> QED BY <1>2, <1>4, <1>12, <2>1
<1> QED BY <1>11, <1>13

LEMMA NewKeepsChain ==
  ASSUME FormInv, ChainInv, CollectNew
  PROVE  ChainInv' /\ (CompleteInv => CompleteInv')
<1> DEFINE n == Len(calls)
           u == calls[n].of
<1>1. PICK o \in Current.left \ cached :
        /\ chain' = [chain EXCEPT ![o] = {o}]
        /\ cached' = cached \cup {o}
        /\ calls' = Append(Visited(o), [of |-> o, left |-> prog.points[o]])
  BY DEF CollectNew
<1>2. UNCHANGED <<prog, sites>> /\ calls # <<>>
  BY DEF CollectNew
<1>3. /\ n \in Nat \ {0} /\ Current = calls[n] /\ prog \in Programs
      /\ calls \in Seq(Call) /\ chain \in [Names -> SUBSET Obj]
      /\ \A i \in 1 .. n : calls[i].of \in Names /\ Direct(calls[i].of) \in SUBSET Obj
      /\ calls[n].left \subseteq Direct(calls[n].of) /\ calls[n].left \subseteq Obj
      /\ n > 1 => calls[n].of \in Obj
  BY <1>2, LastCall
<1>4. u \in Names /\ o \in Names /\ o \in Obj /\ o \in Direct(u) /\ o \notin cached /\ o \in calls[n].left
  BY <1>1, <1>3 DEF Names
<1>5. /\ Len(calls') = n + 1
      /\ \A i \in 1 .. n : calls'[i].of = calls[i].of /\ (i # n => calls'[i] = calls[i])
      /\ calls'[n].left = calls[n].left \ {o}
      /\ calls'[n + 1].of = o /\ calls'[n + 1].left = prog.points[o]
  <2>1. prog.points[o] \in SUBSET Obj
    BY <1>3, <1>4, ProgramFields
  <2>2. /\ Len(calls') = n + 1 /\ \A i \in 1 .. n : calls'[i] = Visited(o)[i]
        /\ calls'[n + 1] = [of |-> o, left |-> prog.points[o]]
    <3> DEFINE D == prog.points[o]
    <3> HIDE DEF D
    <3>1. LET c == Append(Visited(o), [of |-> o, left |-> D])
          IN  /\ c \in Seq(Call) /\ Len(c) = n + 1
              /\ \A i \in 1 .. n : c[i] = Visited(o)[i]
              /\ c[n + 1] = [of |-> o, left |-> D]
      BY <1>2, <1>3, <1>4, <2>1, StackAfter DEF D
    <3> QED BY <1>1, <3>1 DEF D
  <2>3. /\ \A i \in 1 .. n : Visited(o)[i].of = calls[i].of /\ (i # n => Visited(o)[i] = calls[i])
        /\ Visited(o)[n].left = calls[n].left \ {o}
    BY <1>2, <1>3, VisitedIs
  <2> QED BY <1>3, <2>2, <2>3
<1>6. \A m \in Names : chain'[m] = IF m = o THEN {o} ELSE chain[m]
  BY <1>1, <1>3
<1>7. ASSUME NEW i \in 1 .. n
      PROVE  o # calls[i].of /\ o \in LeadTo(Direct(calls[i].of))
  <2>1. o # calls[i].of
    <3>1. calls[i].of \in Obj => calls[i].of \in cached
      BY DEF ChainInv
    <3> QED BY <1>4, <3>1
  <2>2. CASE i = n
    <3>1. o \in Direct(calls[i].of) /\ Direct(calls[i].of) \in SUBSET Obj
      BY <1>3, <1>4, <2>2
    <3> QED BY <2>1, <3>1, LeadToIsClosed
  <2>3. CASE i # n
    <3>1. u \in Obj /\ u \in LeadTo(Direct(calls[i].of))
      BY <1>3, <2>3 DEF ChainInv
    <3>2. o \in prog.points[u]
      BY <1>4, <3>1 DEF Direct
    <3> QED BY <1>3, <1>4, <2>1, <3>1, <3>2, LeadToIsClosed
  <2> QED BY <2>1, <2>2, <2>3
<1>8. Direct(o) = prog.points[o]
  BY <1>4 DEF Direct
<1> HIDE DEF u
<1>9. ChainInv'
  <2>1. \A m \in Names : chain'[m] \subseteq Chain(m)
    BY <1>4, <1>6 DEF ChainInv, Chain
  <2>2. ASSUME NEW i \in 1 .. n + 1
        PROVE  /\ calls'[i].left \subseteq Direct(calls'[i].of)
               /\ calls'[i].of \in Obj => calls'[i].of \in cached'
               /\ calls'[i].of \notin sites
    <3>1. CASE i = n + 1
      BY <1>1, <1>4, <1>5, <1>8, <3>1, NamesAssumption DEF FormInv, TypeOK
    <3>2. CASE i # n + 1
      <4>1. i \in 1 .. n
        BY <1>3, <3>2
      <4> QED BY <1>1, <1>5, <4>1 DEF ChainInv
    <3> QED BY <3>1, <3>2
  <2>3. ASSUME NEW i \in 1 .. n + 1, NEW j \in 1 .. n + 1, i < j
        PROVE  /\ calls'[j].of \in Obj /\ calls'[j].of # calls'[i].of
               /\ calls'[j].of \in LeadTo(Direct(calls'[i].of))
    <3>1. i \in 1 .. n
      BY <1>3, <2>3
    <3>2. CASE j = n + 1
      BY <1>4, <1>5, <1>7, <3>1, <3>2
    <3>3. CASE j # n + 1
      <4>1. j \in 1 .. n
        BY <1>3, <3>3
      <4> QED BY <1>5, <2>3, <3>1, <4>1 DEF ChainInv
    <3> QED BY <3>2, <3>3
  <2>4. calls'[1].of \notin Obj
    BY <1>2, <1>3, <1>5 DEF ChainInv
  <2> QED BY <1>2, <1>5, <2>1, <2>2, <2>3, <2>4, ProgramKept DEF ChainInv
<1>10. ASSUME CompleteInv, Acyclic
       PROVE  /\ \A m \in cached' \cup (CallSite \ sites) : OnStack(m)' \/ Chain(m) \subseteq chain'[m]
              /\ \A i \in 1 .. n + 1 : \A d \in Direct(calls'[i].of) :
                   \/ d \in calls'[i].left
                   \/ i < n + 1 /\ d = calls'[i + 1].of
                   \/ LeadTo({d}) \subseteq chain'[calls'[i].of]
              /\ \A p \in cached' : p \in chain'[p]
  <2>1. ASSUME NEW m \in cached' \cup (CallSite \ sites)
        PROVE  OnStack(m)' \/ Chain(m) \subseteq chain'[m]
    <3>1. CASE m = o
      <4>1. n + 1 \in 1 .. Len(calls')
        BY <1>3, <1>5
      <4> QED BY <1>5, <3>1, <4>1 DEF OnStack
    <3>2. CASE m # o
      <4>1. m \in cached \cup (CallSite \ sites) /\ m \in Names
        BY <1>1, <2>1, <3>2 DEF FormInv, TypeOK, Names
      <4>2. OnStack(m) => OnStack(m)'
        BY <1>3, <1>5 DEF OnStack
      <4> QED BY <1>6, <1>10, <3>2, <4>1, <4>2 DEF CompleteInv
    <3> QED BY <3>1, <3>2
  <2>2. ASSUME NEW i \in 1 .. n + 1, NEW d \in Direct(calls'[i].of)
        PROVE  \/ d \in calls'[i].left
               \/ i < n + 1 /\ d = calls'[i + 1].of
               \/ LeadTo({d}) \subseteq chain'[calls'[i].of]
    <3>1. CASE i = n + 1
      BY <1>5, <1>8, <2>2, <3>1
    <3>2. CASE i # n + 1
      <4>1. i \in 1 .. n /\ calls'[i].of = calls[i].of /\ calls'[i].of \in Names
        BY <1>3, <1>5, <3>2
      <4>2. chain'[calls'[i].of] = chain[calls[i].of]
        BY <1>6, <1>7, <4>1
      <4>3. \/ d \in calls[i].left
            \/ i < n /\ d = calls[i + 1].of
            \/ LeadTo({d}) \subseteq chain[calls[i].of]
        BY <1>10, <2>2, <4>1 DEF CompleteInv
      <4>4. CASE i = n
        <5>1. i < n + 1 /\ ~(i < n) /\ calls'[i + 1].of = o /\ calls'[i].left = calls[i].left \ {o}
          BY <1>3, <1>5, <4>4
        <5> QED BY <4>2, <4>3, <5>1
      <4>5. CASE i # n
        <5>1. i + 1 \in 1 .. n /\ i < n /\ i < n + 1
          BY <1>3, <4>1, <4>5
        <5>2. calls'[i + 1].of = calls[i + 1].of /\ calls'[i] = calls[i]
          BY <1>5, <4>1, <4>5, <5>1
        <5> QED BY <4>2, <4>3, <5>1, <5>2
      <4> QED BY <4>4, <4>5
    <3> QED BY <3>1, <3>2
  <2>3. \A p \in cached' : p \in chain'[p]
    <3>1. \A p \in cached : p \in Names
      BY DEF FormInv, TypeOK, Names
    <3> QED BY <1>1, <1>4, <1>6, <1>10, <3>1 DEF CompleteInv
  <2> QED BY <2>1, <2>2, <2>3
<1>11. CompleteInv => CompleteInv'
  <2> SUFFICES ASSUME CompleteInv, Acyclic'
               PROVE  /\ \A m \in (cached \cup (CallSite \ sites))' : OnStack(m)' \/ Chain(m)' \subseteq chain'[m]
                      /\ \A i \in 1 .. Len(calls') : \A d \in Direct(calls[i].of)' :
                           \/ d \in calls'[i].left
                           \/ i < Len(calls') /\ d = calls'[i + 1].of
                           \/ LeadTo({d})' \subseteq chain'[calls'[i].of]
                      /\ \A p \in cached' : p \in chain'[p]
    BY DEF CompleteInv
  <2>1. /\ Acyclic /\ \A m : Chain(m)' = Chain(m) /\ Direct(m)' = Direct(m)
        /\ \A X : LeadTo(X)' = LeadTo(X)
    BY <1>2, ProgramKept
  <2> QED BY <1>2, <1>5, <1>10, <2>1
<1> QED BY <1>9, <1>11

(* A call whose objects are all handled has the whole chain.               *)
LEMMA HandledIsComplete ==
  ASSUME FormInv, ChainInv, CompleteInv, Acyclic, calls # <<>>, Current.left = {}
  PROVE  Chain(Current.of) \subseteq chain[Current.of]
<1> DEFINE n == Len(calls)
           u == calls[n].of
<1>1. /\ n \in Nat \ {0} /\ Current = calls[n] /\ prog \in Programs
      /\ u \in Names /\ Direct(u) \in SUBSET Obj
  BY LastCall
<1>2. \A d \in Direct(u) : LeadTo({d}) \subseteq chain[u]
  <2>1. n \in 1 .. Len(calls) /\ ~(n < Len(calls)) /\ calls[n].left = {}
    BY <1>1
  <2> QED BY <2>1 DEF CompleteInv
<1> HIDE DEF u
<1>3. LeadTo(Direct(u)) \subseteq chain[u]
  <2>1. \A X \in SUBSET Obj : \A Y : (\A d \in X : LeadTo({d}) \subseteq Y) => LeadTo(X) \subseteq Y
    BY <1>1, LeadToFacts
  <2> QED BY <1>1, <1>2, <2>1
<1>4. u \in Obj => u \in chain[u]
  <2>1. n \in 1 .. Len(calls)
    BY <1>1
  <2> QED BY <2>1 DEF ChainInv, CompleteInv, u
<1> QED BY <1>1, <1>3, <1>4 DEF Chain, u

LEMMA ReturnKeepsChain ==
  ASSUME FormInv, ChainInv, CollectReturn
  PROVE  ChainInv' /\ (CompleteInv => CompleteInv')
<1> DEFINE n == Len(calls)
           o == calls[n].of
           u == calls[n - 1].of
<1>1. n > 1 /\ Current.left = {} /\ UNCHANGED <<prog, cached, sites>> /\ calls' = Front(calls)
  BY DEF CollectReturn
<1>2. calls # <<>>
  <2>1. Len(<<>>) = 0
    OBVIOUS
  <2> QED BY <1>1, <2>1
<1>3. /\ n \in Nat \ {0} /\ Current = calls[n] /\ prog \in Programs
      /\ calls \in Seq(Call) /\ chain \in [Names -> SUBSET Obj]
      /\ \A i \in 1 .. n : calls[i].of \in Names /\ Direct(calls[i].of) \in SUBSET Obj
      /\ n > 1 => calls[n].of \in Obj
  BY <1>2, LastCall
<1>4. /\ Len(calls') = n - 1 /\ \A i \in 1 .. n - 1 : calls'[i] = calls[i]
  BY <1>1, <1>3, StackAfter
<1>5. n - 1 \in 1 .. n /\ n \in 1 .. n /\ n - 1 < n /\ n - 1 \in 1 .. n - 1
  BY <1>1, <1>3
<1>6. u \in Names /\ o \in Names /\ o \in Obj /\ o # u /\ o \in LeadTo(Direct(u))
  BY <1>1, <1>3, <1>5 DEF ChainInv
<1>7. chain' = [chain EXCEPT ![u] = @ \cup chain[o]]
  BY <1>3 DEF CollectReturn, AddedTo
<1>8. Chain(o) \subseteq Chain(u) /\ Chain(o) = LeadTo({o})
  BY <1>3, <1>6, ChainBehind
<1>9. \A i \in 1 .. n - 1 : i \in 1 .. n
  BY <1>3
<1> HIDE DEF o, u
<1>10. \A m \in Names : chain[m] \subseteq chain'[m] /\ (m # u => chain'[m] = chain[m])
  BY <1>3, <1>7
<1>11. chain'[u] = chain[u] \cup chain[o]
  BY <1>3, <1>6, <1>7
<1>12. ChainInv'
  <2>1. \A m \in Names : chain'[m] \subseteq Chain(m)
    BY <1>6, <1>8, <1>10, <1>11 DEF ChainInv
  <2>2. ASSUME NEW i \in 1 .. n - 1
        PROVE  /\ calls'[i].left \subseteq Direct(calls'[i].of)
               /\ calls'[i].of \in Obj => calls'[i].of \in cached
               /\ calls'[i].of \notin sites
    BY <1>4, <1>9 DEF ChainInv
  <2>3. ASSUME NEW i \in 1 .. n - 1, NEW j \in 1 .. n - 1, i < j
        PROVE  /\ calls'[j].of \in Obj /\ calls'[j].of # calls'[i].of
               /\ calls'[j].of \in LeadTo(Direct(calls'[i].of))
    BY <1>4, <1>9, <2>3 DEF ChainInv
  <2>4. calls'[1].of \notin Obj
    <3>1. 1 \in 1 .. n - 1
      BY <1>1, <1>3
    <3> QED BY <1>2, <1>4, <3>1 DEF ChainInv
  <2> QED BY <1>1, <1>4, <2>1, <2>2, <2>3, <2>4, ProgramKept DEF ChainInv
<1>13. ASSUME CompleteInv, Acyclic
       PROVE  /\ \A m \in cached \cup (CallSite \ sites) : OnStack(m)' \/ Chain(m) \subseteq chain'[m]
              /\ \A i \in 1 .. n - 1 : \A d \in Direct(calls'[i].of) :
                   \/ d \in calls'[i].left
                   \/ i < n - 1 /\ d = calls'[i + 1].of
                   \/ LeadTo({d}) \subseteq chain'[calls'[i].of]
              /\ \A p \in cached : p \in chain'[p]
  <2>1. Chain(o) \subseteq chain[o]
    BY <1>1, <1>2, <1>3, <1>13, HandledIsComplete DEF o
  <2>2. ASSUME NEW m \in cached \cup (CallSite \ sites)
        PROVE  OnStack(m)' \/ Chain(m) \subseteq chain'[m]
    <3>1. m \in Names
      BY DEF FormInv, TypeOK, Names
    <3>2. CASE m = o
      BY <1>6, <1>10, <2>1, <3>2
    <3>3. CASE m # o
      <4>1. OnStack(m) => OnStack(m)'
        <5> SUFFICES ASSUME NEW i \in 1 .. n, calls[i].of = m
                     PROVE  OnStack(m)'
          BY DEF OnStack
        <5>1. i \in 1 .. n - 1
          BY <1>3, <3>3 DEF o
        <5> QED BY <1>4, <5>1 DEF OnStack
      <4> QED BY <1>10, <1>13, <3>1, <4>1 DEF CompleteInv
    <3> QED BY <3>2, <3>3
  <2>3. ASSUME NEW i \in 1 .. n - 1, NEW d \in Direct(calls'[i].of)
        PROVE  \/ d \in calls'[i].left
               \/ i < n - 1 /\ d = calls'[i + 1].of
               \/ LeadTo({d}) \subseteq chain'[calls'[i].of]
    <3>1. i \in 1 .. n /\ calls'[i] = calls[i] /\ calls[i].of \in Names
      BY <1>3, <1>4, <1>9
    <3>2. \/ d \in calls[i].left
          \/ i < n /\ d = calls[i + 1].of
          \/ LeadTo({d}) \subseteq chain[calls[i].of]
      BY <1>13, <2>3, <3>1 DEF CompleteInv
    <3>3. CASE i = n - 1 /\ d = o
      BY <1>8, <1>11, <2>1, <3>1, <3>3 DEF u
    <3>4. CASE i = n - 1 /\ d # o
      <4>1. i + 1 = n
        BY <1>3, <3>4
      <4> QED BY <1>10, <3>1, <3>2, <3>4, <4>1 DEF o
    <3>5. CASE i # n - 1
      <4>1. i + 1 \in 1 .. n - 1 /\ i < n - 1
        BY <1>3, <3>5
      <4> QED BY <1>4, <1>10, <3>1, <3>2, <4>1
    <3> QED BY <3>3, <3>4, <3>5
  <2>4. \A p \in cached : p \in chain'[p]
    BY <1>10, <1>13 DEF CompleteInv, FormInv, TypeOK, Names
  <2> QED BY <2>2, <2>3, <2>4
<1>14. CompleteInv => CompleteInv'
  <2> SUFFICES ASSUME CompleteInv, Acyclic'
               PROVE  /\ \A m \in (cached \cup (CallSite \ sites))' : OnStack(m)' \/ Chain(m)' \subseteq chain'[m]
                      /\ \A i \in 1 .. Len(calls') : \A d \in Direct(calls[i].of)' :
                           \/ d \in calls'[i].left
                           \/ i < Len(calls') /\ d = calls'[i + 1].of
                           \/ LeadTo({d})' \subseteq chain'[calls'[i].of]
                      /\ \A p \in cached' : p \in chain'[p]
    BY DEF CompleteInv
  <2>1. /\ Acyclic /\ \A m : Chain(m)' = Chain(m) /\ Direct(m)' = Direct(m)
        /\ \A X : LeadTo(X)' = LeadTo(X)
    BY <1>1, ProgramKept
  <2>2. \A i \in 1 .. Len(calls') : \A d \in Direct(calls'[i].of) :
          \/ d \in calls'[i].left
          \/ i < Len(calls') /\ d = calls'[i + 1].of
          \/ LeadTo({d}) \subseteq chain'[calls'[i].of]
    BY <1>4, <1>13, <2>1
  <2>3. /\ \A m \in (cached \cup (CallSite \ sites))' : OnStack(m)' \/ Chain(m)' \subseteq chain'[m]
        /\ \A p \in cached' : p \in chain'[p]
    BY <1>1, <1>13, <2>1
  <2>4. \A i : Direct(calls[i].of)' = Direct(calls'[i].of)
    BY <2>1
  <2> QED BY <2>1, <2>2, <2>3, <2>4
<1> QED BY <1>12, <1>14

(* The last call ends, the next call site is taken, or the search stands.  *)
LEMMA DoneKeepsChain ==
  ASSUME FormInv, ChainInv, CollectDone
  PROVE  ChainInv' /\ (CompleteInv => CompleteInv')
<1>1. /\ Len(calls) = 1 /\ Current.left = {} /\ calls' = <<>>
      /\ UNCHANGED <<prog, chain, cached, sites>>
  BY DEF CollectDone
<1>2. calls # <<>> /\ Len(calls') = 0
  <2>1. Len(<<>>) = 0
    OBVIOUS
  <2> QED BY <1>1, <2>1
<1>3. ChainInv'
  <2>1. \A n \in Names : chain'[n] \subseteq Chain(n)
    BY <1>1 DEF ChainInv
  <2> QED BY <1>1, <1>2, <2>1, ProgramKept DEF ChainInv
<1>4. ASSUME CompleteInv, Acyclic
      PROVE  \A m \in cached \cup (CallSite \ sites) : Chain(m) \subseteq chain[m]
  <2>1. Chain(Current.of) \subseteq chain[Current.of]
    BY <1>1, <1>2, <1>4, HandledIsComplete
  <2>2. \A m : OnStack(m) => m = Current.of
    BY <1>1 DEF OnStack, Current
  <2> QED BY <1>4, <2>1, <2>2 DEF CompleteInv
<1>5. ASSUME CompleteInv, Acyclic
      PROVE  \A p \in cached : p \in chain[p]
  BY <1>5 DEF CompleteInv
<1>6. CompleteInv => CompleteInv'
  <2> SUFFICES ASSUME CompleteInv, Acyclic'
               PROVE  /\ \A m \in (cached \cup (CallSite \ sites))' : Chain(m)' \subseteq chain'[m]
                      /\ \A i \in 1 .. Len(calls') : FALSE
                      /\ \A p \in cached' : p \in chain'[p]
    BY DEF CompleteInv
  <2>1. Acyclic /\ \A m : Chain(m)' = Chain(m)
    BY <1>1, ProgramKept
  <2> QED BY <1>1, <1>2, <1>4, <1>5, <2>1
<1> QED BY <1>3, <1>6

LEMMA SiteKeepsChain ==
  ASSUME FormInv, ChainInv, collectCallSitePts
  PROVE  ChainInv' /\ (CompleteInv => CompleteInv')
<1>1. PICK s \in sites : calls' = <<[of |-> s, left |-> prog.args[s]]>> /\ sites' = sites \ {s}
  BY DEF collectCallSitePts
<1>2. calls = <<>> /\ UNCHANGED <<prog, chain, cached>>
  BY DEF collectCallSitePts
<1>3. s \in CallSite /\ s \notin Obj /\ Direct(s) = prog.args[s]
  BY NamesAssumption DEF Direct, FormInv, TypeOK
<1>4. Len(calls') = 1 /\ calls'[1].of = s /\ calls'[1].left = prog.args[s]
  BY <1>1
<1>5. ChainInv'
  <2>1. \A n \in Names : chain'[n] \subseteq Chain(n)
    BY <1>2 DEF ChainInv
  <2> QED BY <1>1, <1>2, <1>3, <1>4, <2>1, ProgramKept DEF ChainInv
<1>6. \A m : ~OnStack(m)
  BY <1>2 DEF OnStack
<1>7. ASSUME CompleteInv, Acyclic
      PROVE  /\ \A m \in cached \cup (CallSite \ sites') : OnStack(m)' \/ Chain(m) \subseteq chain[m]
             /\ \A d \in Direct(s) : d \in calls'[1].left
             /\ \A p \in cached : p \in chain[p]
  <2>1. \A m \in cached \cup (CallSite \ sites) : Chain(m) \subseteq chain[m]
    BY <1>6, <1>7 DEF CompleteInv
  <2>2. OnStack(s)'
    BY <1>4 DEF OnStack
  <2> QED BY <1>1, <1>3, <1>4, <1>7, <2>1, <2>2 DEF CompleteInv
<1>8. CompleteInv => CompleteInv'
  <2> SUFFICES ASSUME CompleteInv, Acyclic'
               PROVE  /\ \A m \in (cached \cup (CallSite \ sites))' : OnStack(m)' \/ Chain(m)' \subseteq chain'[m]
                      /\ \A i \in 1 .. Len(calls') : \A d \in Direct(calls[i].of)' : d \in calls'[i].left
                      /\ \A p \in cached' : p \in chain'[p]
    BY DEF CompleteInv
  <2>1. Acyclic /\ \A m : Chain(m)' = Chain(m) /\ Direct(m)' = Direct(m)
    BY <1>2, ProgramKept
  <2> QED BY <1>2, <1>4, <1>7, <2>1
<1> QED BY <1>5, <1>8

LEMMA NextChain ==
  ASSUME FormInv, ChainInv, CompleteInv, [Next]_vars
  PROVE  ChainInv' /\ CompleteInv'
<1>1. CASE CollectCached \/ CollectNew \/ CollectReturn \/ CollectDone \/ collectCallSitePts
  BY <1>1, CachedKeepsChain, NewKeepsChain, ReturnKeepsChain, DoneKeepsChain, SiteKeepsChain
<1>2. CASE ~(CollectCached \/ CollectNew \/ CollectReturn \/ CollectDone \/ collectCallSitePts)
  <2>1. UNCHANGED <<prog, collecting>>
    BY <1>2 DEF Next, Terminated, vars, StartModRef, Pop, NextMember, modRefAnalysis, StartPartition,
         partitionMRs, Finish
  <2>2. prog' = prog /\ chain' = chain /\ cached' = cached /\ calls' = calls /\ sites' = sites
    BY <2>1 DEF collecting
  <2>3. \A m : OnStack(m)' <=> OnStack(m)
    BY <2>2 DEF OnStack
  <2>4. ChainInv'
    BY <2>2, ProgramKept DEF ChainInv
  <2>5. CompleteInv'
    BY <2>2, <2>3, ProgramKept DEF CompleteInv
  <2> QED BY <2>4, <2>5
<1> QED BY <1>1, <1>2

(* What arguments lead to is collected completely, for every program in    *)
(* which no object leads back to itself: the cache is never read unfinished*)
THEOREM Chains == Spec => []ChainsAreComplete
<1>1. FormInv /\ ChainInv /\ CompleteInv => ChainsAreComplete
  <2> SUFFICES ASSUME FormInv, ChainInv, CompleteInv, phase \in {"modref", "partition", "done"},
                      Acyclic, NEW s \in CallSite
               PROVE  chain[s] = LeadTo(prog.args[s])
    BY DEF ChainsAreComplete, Acyclic
  <2>1. calls = <<>> /\ sites = {}
    BY DEF FormInv, PhaseInv
  <2>2. ~OnStack(s)
    BY <2>1 DEF OnStack
  <2>3. Chain(s) = LeadTo(prog.args[s]) /\ s \in Names
    BY NamesAssumption DEF Chain, Direct, Names
  <2>4. Chain(s) \subseteq chain[s]
    BY <2>1, <2>2 DEF CompleteInv
  <2>5. chain[s] \subseteq Chain(s)
    BY <2>3 DEF ChainInv
  <2> QED BY <2>3, <2>4, <2>5
<1>2. FormInv /\ ChainInv /\ CompleteInv /\ [Next]_vars => FormInv' /\ ChainInv' /\ CompleteInv'
  BY NextForm, NextChain
<1> QED BY <1>1, <1>2, InitForm, InitChain, PTL DEF Spec

-----------------------------------------------------------------------------
(* The functions a call may reach.                                         *)
LEMMA MayRunFacts ==
  ASSUME prog \in Programs
  PROVE  /\ \A X \in SUBSET Fun : X \subseteq MayRun(X) /\ MayRun(X) \subseteq Fun
         /\ \A X, Y : X \subseteq MayRun(Y) => MayRun(X) \subseteq MayRun(Y)
         /\ \A s \in CallSite : prog.callees[s] \subseteq MayRun({prog.caller[s]})
<1>1. \A X \in SUBSET Fun : X \subseteq MayRun(X) /\ MayRun(X) \subseteq Fun
  BY DEF MayRun
<1>2. ASSUME NEW X, NEW Y, X \subseteq MayRun(Y), NEW f \in MayRun(X)
      PROVE  f \in MayRun(Y)
  <2>1. ASSUME NEW C \in S!ClosedSets(CallEdges), Y \subseteq C
        PROVE  f \in C
    <3>1. X \subseteq C
      BY <1>2, <2>1 DEF MayRun
    <3> QED BY <3>1 DEF MayRun
  <2> QED BY <2>1 DEF MayRun
<1>3. ASSUME NEW s \in CallSite, NEW f \in prog.callees[s]
      PROVE  f \in MayRun({prog.caller[s]})
  <2> DEFINE e == <<prog.caller[s], f>>
  <2>1. f \in Fun /\ e \in Fun \X Fun /\ e[1] = prog.caller[s] /\ e[2] = f
    BY ProgramFields
  <2>2. e \in CallEdges
    BY <2>1 DEF CallEdges
  <2> HIDE DEF e
  <2>3. ASSUME NEW C \in S!ClosedSets(CallEdges), prog.caller[s] \in C
        PROVE  f \in C
    BY <2>1, <2>2, <2>3 DEF S!ClosedSets
  <2> QED BY <2>1, <2>3 DEF MayRun
<1> QED BY <1>1, <1>2, <1>3

(* Where effects come from.                                                *)
StoredIn(o, funs) == \E f \in MayRun(funs) : o \in UNION prog.stores[f]

InReach(o, s) == prog.home[o] = "heap" \/ o \in LeadTo(prog.args[s] \cup GlobalObjs)

OriginInv ==
  /\ \A e \in edges : e[1] \in prog.callees[e[2]]
  /\ \A f \in Fun : \A o \in funMods[f] : StoredIn(o, {f})
  /\ \A s \in CallSite : \A o \in siteMods[s] : StoredIn(o, prog.callees[s]) /\ InReach(o, s)

LEMMA InitOrigin == Init => OriginInv
<1> SUFFICES ASSUME Init PROVE OriginInv
  OBVIOUS
<1>1. ASSUME NEW f \in Fun, NEW o \in funMods[f]
      PROVE  StoredIn(o, {f})
  <2>1. o \in UNION prog.stores[f]
    BY DEF Init, NonLocal
  <2>2. prog \in Programs /\ {f} \in SUBSET Fun
    BY DEF Init
  <2>3. f \in MayRun({f})
    BY <2>2, MayRunFacts
  <2> QED BY <2>1, <2>3 DEF StoredIn
<1> QED BY <1>1 DEF Init, OriginInv

(* What the caller sees of the effects of a callee it can get at.          *)
LEMMA SeenIsInReach ==
  ASSUME FormInv, ChainInv, NEW s \in CallSite, NEW objs \in SUBSET Obj, NEW o \in SeenBy(objs, s)
  PROVE  o \in objs /\ InReach(o, s)
<1> DEFINE A == prog.args[s]
<1>1. prog \in Programs /\ A \in SUBSET Obj /\ GlobalObjs \in SUBSET Obj
  BY ProgramFields DEF FormInv, TypeOK, GlobalObjs
<1>2. Chain(s) = LeadTo(A) /\ Chain(Globals) = LeadTo(GlobalObjs)
  BY NamesAssumption DEF Chain, Direct
<1>3. chain[s] \subseteq LeadTo(A) /\ chain[Globals] \subseteq LeadTo(GlobalObjs)
  BY <1>2 DEF ChainInv, Names
<1>4. /\ LeadTo(A) \subseteq LeadTo(A \cup GlobalObjs)
      /\ LeadTo(GlobalObjs) \subseteq LeadTo(A \cup GlobalObjs)
  <2> DEFINE B == A \cup GlobalObjs
  <2>1. B \in SUBSET Obj /\ A \subseteq B /\ GlobalObjs \subseteq B
    BY <1>1
  <2> HIDE DEF A, B
  <2>2. A \subseteq LeadTo(B) /\ GlobalObjs \subseteq LeadTo(B)
    BY <2>1, LeadToIsClosed
  <2>3. \A X, Y \in SUBSET Obj : X \subseteq LeadTo(Y) => LeadTo(X) \subseteq LeadTo(Y)
    BY <1>1, LeadToFacts
  <2>4. LeadTo(A) \subseteq LeadTo(B) /\ LeadTo(GlobalObjs) \subseteq LeadTo(B)
    BY <1>1, <2>1, <2>2, <2>3
  <2> QED BY <2>4 DEF B
<1>5. o \in objs /\ (o \in chain[s] \/ o \in chain[Globals] \/ prog.home[o] = "heap")
  BY DEF SeenBy, GlobalsAndHeap
<1> QED BY <1>3, <1>4, <1>5 DEF InReach

LEMMA PassesOrigin ==
  ASSUME FormInv, ChainInv, OriginInv, modRefAnalysis
  PROVE  OriginInv'
<1>1. PICK f \in Fun, s \in CallSite : Passes(f, s)
  BY AnalysisPasses
<1> DEFINE c == prog.caller[s]
           mods == SeenBy(funMods[f], s)
<1>2. prog' = prog
  BY AnalysisPasses
<1>3. /\ prog \in Programs /\ c \in Fun
      /\ prog.caller \in [CallSite -> Fun] /\ prog.callees \in [CallSite -> SUBSET Fun]
      /\ funMods \in [Fun -> SUBSET Obj] /\ siteMods \in [CallSite -> SUBSET Obj]
  BY ProgramFields DEF FormInv, TypeOK
<1>4. /\ <<f, s>> \in edges /\ edges' = edges \ {<<f, s>>}
      /\ siteMods' = [siteMods EXCEPT ![s] = @ \cup mods]
      /\ funMods' = [funMods EXCEPT ![c] = @ \cup NonLocal(mods, c)]
  BY <1>1 DEF Passes
<1>5. f \in prog.callees[s]
  <2> DEFINE e == <<f, s>>
  <2>1. e \in edges /\ e[1] = f /\ e[2] = s
    BY <1>4
  <2> HIDE DEF e
  <2> QED BY <2>1 DEF OriginInv
<1>6. \A o \in mods : StoredIn(o, {f}) /\ InReach(o, s)
  <2>1. \A o \in mods : o \in funMods[f] /\ InReach(o, s)
    BY <1>3, SeenIsInReach
  <2> QED BY <2>1 DEF OriginInv
<1>7. MayRun({f}) \subseteq MayRun(prog.callees[s]) /\ MayRun({f}) \subseteq MayRun({c})
  <2>1. {f} \subseteq MayRun(prog.callees[s]) /\ {f} \subseteq MayRun({c})
    BY <1>3, <1>5, MayRunFacts
  <2> QED BY <1>3, <2>1, MayRunFacts
<1>8. \A o \in mods : StoredIn(o, prog.callees[s]) /\ StoredIn(o, {c})
  BY <1>6, <1>7 DEF StoredIn
<1>9. NonLocal(mods, c) \subseteq mods
  BY DEF NonLocal
<1> HIDE DEF mods, c
<1>10. \A g \in Fun : \A o \in funMods'[g] : StoredIn(o, {g})
  BY <1>3, <1>4, <1>8, <1>9 DEF OriginInv
<1>11. \A t \in CallSite : \A o \in siteMods'[t] : StoredIn(o, prog.callees[t]) /\ InReach(o, t)
  BY <1>3, <1>4, <1>6, <1>8 DEF OriginInv
<1>12. /\ \A o, X : StoredIn(o, X)' <=> StoredIn(o, X)
       /\ \A o, t : InReach(o, t)' <=> InReach(o, t)
  BY <1>2 DEF StoredIn, MayRun, CallEdges, InReach, LeadTo, Points, GlobalObjs
<1> QED BY <1>2, <1>4, <1>10, <1>11, <1>12 DEF OriginInv

LEMMA NextOrigin ==
  ASSUME FormInv, ChainInv, OriginInv, [Next]_vars
  PROVE  OriginInv'
<1>1. CASE modRefAnalysis
  BY <1>1, PassesOrigin
<1>2. CASE ~modRefAnalysis
  <2>1. prog' = prog /\ funMods' = funMods /\ siteMods' = siteMods
    BY <1>2, EffectsChange DEF effects
  <2>2. \A e \in edges' : e[1] \in prog.callees[e[2]]
    <3>1. CASE NextMember
      <4>1. PICK f : edges' = {f} \X {s \in CallSite : f \in prog.callees[s]}
        BY <3>1 DEF NextMember
      <4> QED BY <4>1
    <3>2. CASE ~NextMember
      <4>1. edges' = edges
        BY <1>2, <3>2 DEF Next, Terminated, vars, spreading, CollectCached, CollectNew, CollectReturn,
           CollectDone, collectCallSitePts, StartModRef, Pop, StartPartition, partitionMRs, Finish
      <4> QED BY <4>1 DEF OriginInv
    <3> QED BY <3>1, <3>2
  <2>3. /\ \A o, X : StoredIn(o, X)' <=> StoredIn(o, X)
        /\ \A o, t : InReach(o, t)' <=> InReach(o, t)
    BY <2>1 DEF StoredIn, MayRun, CallEdges, InReach, LeadTo, Points, GlobalObjs
  <2> QED BY <2>1, <2>2, <2>3 DEF OriginInv
<1> QED BY <1>1, <1>2

(* The effects of calls are not invented: for every program, whatever a    *)
(* call is said to modify is stored to in a function it may reach and is   *)
(* known to the caller.                                                    *)
THEOREM NothingSpurious == Spec => []NeverSpurious
<1>1. OriginInv => NeverSpurious
  BY DEF OriginInv, NeverSpurious, StoredIn, InReach, GlobalObjs
<1>2. /\ FormInv /\ ChainInv /\ CompleteInv /\ OriginInv /\ [Next]_vars
      => FormInv' /\ ChainInv' /\ CompleteInv' /\ OriginInv'
  BY NextForm, NextChain, NextOrigin
<1> QED BY <1>1, <1>2, InitForm, InitChain, InitOrigin, PTL DEF Spec

-----------------------------------------------------------------------------
(* Partitions.  The sets of a function that are in the regions so far.     *)
Entered(f) == CPts(f) \ todo[f]

(* Each such set is made up of regions.  The regions of one function are   *)
(* disjoint because its smaller sets come first: a set of one object is    *)
(* added as it is.                                                         *)
MadeUp(f) ==
  \A c \in Entered(f) :
    IF prog.partition = "distinct" THEN \A o \in c : {o} \in inters[f]
    ELSE Covered(inters[ListOf(f)], c)

SmallFirst(f) ==
  /\ \A q \in inters[f] : \E c \in Entered(f) : q \subseteq c
  /\ \A c \in Entered(f) : \A d \in todo[f] : Cardinality(c) <= Cardinality(d)

PartitionInv ==
  /\ phase \in {"partition", "done"} =>
       \A f \in Fun :
         /\ todo[f] \subseteq CPts(f)
         /\ MadeUp(f)
         /\ prog.partition = "distinct" => \A q \in inters[f] : \E o \in Obj : q = {o}
         /\ prog.partition = "intra" => Disjoint(inters[f]) /\ SmallFirst(f)
  /\ phase = "done" => \A f \in Fun : todo[f] = {}

(* A set of one object, added as it is, meets no other region.             *)
LEMMA SingleIsApart ==
  ASSUME FormInv, NEW f \in Fun, Disjoint(inters[f]), SmallFirst(f), todo[f] \subseteq CPts(f),
         NEW cpts \in todo[f], Cardinality(cpts) = 1
  PROVE  \A q \in inters[f] : q = cpts \/ q \cap cpts = {}
<1> SUFFICES ASSUME NEW q \in inters[f]
             PROVE  q = cpts \/ q \cap cpts = {}
  OBVIOUS
<1>1. PICK c \in Entered(f) : q \subseteq c
  BY DEF SmallFirst
<1>2. /\ c # {} /\ IsFiniteSet(c) /\ IsFiniteSet(cpts) /\ q # {}
  BY CPtsTyped, SetsAreFinite DEF Entered, FormInv, RegionsInv
<1>3. Cardinality(c) <= Cardinality(cpts) /\ Cardinality(c) \in Nat
  BY <1>2, FS_CardinalityType DEF SmallFirst
<1>4. Cardinality(c) = 1
  BY <1>2, <1>3, FS_EmptySet
<1>5. (\E x : c = {x}) /\ (\E y : cpts = {y})
  BY <1>2, <1>4, FS_Singleton
<1> QED BY <1>1, <1>2, <1>5

(* The sets of a function do not change while it is partitioned.           *)
LEMMA CPtsKept ==
  ASSUME UNCHANGED <<prog, effects>>
  PROVE  \A f : CPts(f)' = CPts(f) /\ ListOf(f)' = ListOf(f)
BY DEF effects, CPts, Defs, Uses, ListOf

LEMMA StartsPartition ==
  ASSUME FormInv, PartitionInv, StartPartition
  PROVE  PartitionInv'
<1>1. /\ UNCHANGED <<prog, effects>> /\ inters' = [f \in Fun \cup {Whole} |-> {}]
      /\ todo' = [f \in Fun |-> CPts(f)] /\ phase' = "partition"
  BY DEF StartPartition, FormInv, PhaseInv
<1>2. \A f \in Fun : CPts(f)' = CPts(f) /\ todo'[f] = CPts(f) /\ inters'[f] = {}
  BY <1>1, CPtsKept
<1>3. \A f \in Fun : Entered(f)' = {}
  BY <1>2 DEF Entered
<1>4. \A f \in Fun : MadeUp(f)' /\ SmallFirst(f)'
  BY <1>2, <1>3 DEF MadeUp, SmallFirst
<1> QED BY <1>1, <1>2, <1>4 DEF PartitionInv, Disjoint

(* The regions of one function after a set of it has entered.              *)
LEMMA OwnRegions ==
  ASSUME FormInv, PartitionInv, phase = "partition", prog.partition = "intra",
         NEW f \in Fun, NEW cpts \in todo[f],
         NEW R, R = computeIntersections(inters[f], cpts)
  PROVE  /\ Disjoint(R)
         /\ \A q \in R : \E c \in Entered(f) \cup {cpts} : q \subseteq c
<1>1. /\ inters[f] \in SUBSET SUBSET Obj /\ {} \notin inters[f] /\ cpts \in SUBSET Obj /\ cpts # {}
      /\ todo[f] \subseteq CPts(f) /\ Disjoint(inters[f]) /\ SmallFirst(f)
  BY DEF FormInv, TypeOK, RegionsInv, PartitionInv
<1>2. Cardinality(cpts) = 1 => \A q \in inters[f] : q = cpts \/ q \cap cpts = {}
  BY <1>1, SingleIsApart
<1>3. Disjoint(R) /\ \A q \in R : q \subseteq cpts \/ \E p \in inters[f] : q \subseteq p
  BY <1>1, <1>2, SetsAreFinite, IntersectionsAre
<1>4. \A p \in inters[f] : \E c \in Entered(f) : p \subseteq c
  BY <1>1 DEF SmallFirst
<1> QED BY <1>3, <1>4

LEMMA EntersPartition ==
  ASSUME FormInv, PartitionInv, partitionMRs
  PROVE  PartitionInv'
<1>1. PICK f, cpts : Enters(f, cpts)
  BY PartitionEnters
<1>2. phase = "partition" /\ phase' = "partition" /\ UNCHANGED <<prog, effects>>
  BY PartitionEnters
<1> DEFINE l == ListOf(f)
           R == Refined(inters[l], cpts)
<1>3. /\ f \in Fun /\ cpts \in todo[f] /\ l \in Fun \cup {Whole}
      /\ \A d \in todo[f] : Cardinality(cpts) <= Cardinality(d)
      /\ inters' = [inters EXCEPT ![l] = R]
      /\ todo' = [todo EXCEPT ![f] = @ \ {cpts}]
  BY <1>1 DEF Enters, ListOf
<1>4. /\ inters \in [Fun \cup {Whole} -> SUBSET SUBSET Obj] /\ todo \in [Fun -> SUBSET SUBSET Obj]
      /\ {} \notin inters[l] /\ cpts \in SUBSET Obj /\ cpts # {}
      /\ prog.partition \in {"distinct", "intra", "inter"}
  BY <1>3, ProgramFields DEF FormInv, TypeOK, RegionsInv
<1>5. /\ prog.partition # "distinct" => R = computeIntersections(inters[l], cpts)
      /\ prog.partition = "distinct" => R = inters[l] \cup {{o} : o \in cpts}
      /\ prog.partition # "inter" => l = f
  BY DEF Refined, createDistinctMR, ListOf
<1> HIDE DEF R
<1>6. prog.partition # "distinct" =>
        Covered(R, cpts) /\ \A c : Covered(inters[l], c) => Covered(R, c)
  <2>1. /\ inters[l] \in SUBSET SUBSET Obj /\ IsFiniteSet(inters[l])
        /\ \A q \in inters[l] : IsFiniteSet(q)
    BY <1>3, <1>4, SetsAreFinite
  <2> HIDE DEF l
  <2>2. ASSUME R = computeIntersections(inters[l], cpts)
        PROVE  Covered(R, cpts) /\ \A c : Covered(inters[l], c) => Covered(R, c)
    BY <1>4, <2>1, <2>2, IntersectionsAre
  <2> QED BY <1>5, <2>2
<1>7. /\ inters'[l] = R /\ todo'[f] = todo[f] \ {cpts}
      /\ \A m \in Fun \cup {Whole} : m # l => inters'[m] = inters[m]
      /\ \A g \in Fun : g # f => todo'[g] = todo[g]
  BY <1>3, <1>4
<1>8. \A g : CPts(g)' = CPts(g) /\ ListOf(g)' = ListOf(g)
  BY <1>2, CPtsKept
<1> HIDE DEF l
<1>9. \A g \in Fun : todo[g] \subseteq CPts(g) /\ MadeUp(g)
  BY <1>2 DEF PartitionInv
<1>10. Entered(f)' = Entered(f) \cup {cpts} /\ \A g \in Fun : g # f => Entered(g)' = Entered(g)
  BY <1>3, <1>7, <1>8, <1>9 DEF Entered
<1>11. ASSUME NEW g \in Fun
       PROVE  MadeUp(g)'
  <2> SUFFICES ASSUME NEW c \in Entered(g)'
               PROVE  IF prog.partition = "distinct" THEN \A o \in c : {o} \in inters'[g]
                      ELSE Covered(inters'[ListOf(g)], c)
    BY <1>2, <1>8 DEF MadeUp
  <2>1. c \in Entered(g) \/ (g = f /\ c = cpts)
    BY <1>10
  <2>2. CASE prog.partition = "distinct"
    <3>1. inters[g] \subseteq inters'[g] /\ \A o \in cpts : {o} \in inters'[f]
      BY <1>5, <1>7, <2>2
    <3>2. c \in Entered(g) => \A o \in c : {o} \in inters[g]
      BY <1>9, <2>2 DEF MadeUp
    <3> QED BY <2>1, <2>2, <3>1, <3>2
  <2>3. CASE prog.partition # "distinct"
    <3>1. ListOf(f) = l /\ ListOf(g) \in Fun \cup {Whole}
      BY DEF ListOf, l
    <3>2. c \in Entered(g) => Covered(inters[ListOf(g)], c)
      BY <1>9, <2>3 DEF MadeUp
    <3>3. Covered(inters'[ListOf(g)], c)
      BY <1>6, <1>7, <2>1, <2>3, <3>1, <3>2
    <3> QED BY <2>3, <3>3
  <2> QED BY <2>2, <2>3
<1>12. ASSUME NEW g \in Fun, prog.partition = "distinct", NEW q \in inters'[g]
       PROVE  \E o \in Obj : q = {o}
  <2>1. \A p \in inters[g] : \E o \in Obj : p = {o}
    BY <1>2, <1>12 DEF PartitionInv
  <2>2. CASE q \in inters[g]
    BY <2>1, <2>2
  <2>3. CASE q \notin inters[g]
    <3>1. q \in {{o} : o \in cpts}
      BY <1>5, <1>7, <1>12, <2>3
    <3> QED BY <1>4, <3>1
  <2> QED BY <2>2, <2>3
<1>13. ASSUME NEW g \in Fun, prog.partition = "intra"
       PROVE  /\ Disjoint(inters'[g])
              /\ \A q \in inters'[g] : \E c \in Entered(g)' : q \subseteq c
              /\ \A c \in Entered(g)' : \A d \in todo'[g] : Cardinality(c) <= Cardinality(d)
  <2>1. Disjoint(inters[g]) /\ SmallFirst(g) /\ SmallFirst(f)
    BY <1>2, <1>3, <1>13 DEF PartitionInv
  <2>2. CASE g = f
    <3>1. R = computeIntersections(inters[f], cpts) /\ inters'[f] = R
      BY <1>5, <1>7, <1>13
    <3>2. Disjoint(R) /\ \A q \in R : \E c \in Entered(f) \cup {cpts} : q \subseteq c
      BY <1>2, <1>3, <1>13, <3>1, OwnRegions
    <3>3. \A c \in Entered(f) \cup {cpts} : \A d \in todo[f] : Cardinality(c) <= Cardinality(d)
      BY <1>3, <2>1 DEF SmallFirst
    <3> QED BY <1>7, <1>10, <2>2, <3>1, <3>2, <3>3
  <2>3. CASE g # f
    BY <1>5, <1>7, <1>10, <1>13, <2>1, <2>3 DEF SmallFirst
  <2> QED BY <2>2, <2>3
<1>14. \A g \in Fun : todo'[g] \subseteq CPts(g)
  BY <1>7, <1>9
<1> QED BY <1>2, <1>8, <1>11, <1>12, <1>13, <1>14 DEF PartitionInv, SmallFirst

LEMMA NextPartition ==
  ASSUME FormInv, PartitionInv, [Next]_vars
  PROVE  PartitionInv'
<1>1. CASE StartPartition \/ partitionMRs
  BY <1>1, StartsPartition, EntersPartition
<1>2. CASE Finish
  <2>1. /\ UNCHANGED <<prog, effects>> /\ inters' = inters /\ todo' = todo
        /\ phase = "partition" /\ phase' = "done" /\ \A f \in Fun : todo[f] = {}
    BY <1>2 DEF Finish, dividing
  <2>2. \A f : CPts(f)' = CPts(f) /\ ListOf(f)' = ListOf(f)
    BY <2>1, CPtsKept
  <2>3. \A f : Entered(f)' = Entered(f)
    BY <2>1, <2>2 DEF Entered
  <2>4. \A f : (MadeUp(f)' <=> MadeUp(f)) /\ (SmallFirst(f)' <=> SmallFirst(f))
    BY <2>1, <2>2, <2>3 DEF MadeUp, SmallFirst
  <2> QED BY <2>1, <2>2, <2>4 DEF PartitionInv
<1>3. CASE UNCHANGED vars
  <2>1. UNCHANGED <<prog, effects>> /\ inters' = inters /\ todo' = todo /\ phase' = phase
    BY <1>3 DEF vars, dividing
  <2>2. \A f : CPts(f)' = CPts(f) /\ ListOf(f)' = ListOf(f)
    BY <2>1, CPtsKept
  <2>3. \A f : Entered(f)' = Entered(f)
    BY <2>1, <2>2 DEF Entered
  <2>4. \A f : (MadeUp(f)' <=> MadeUp(f)) /\ (SmallFirst(f)' <=> SmallFirst(f))
    BY <2>1, <2>2, <2>3 DEF MadeUp, SmallFirst
  <2> QED BY <2>1, <2>2, <2>4 DEF PartitionInv
<1>4. CASE ~(StartPartition \/ partitionMRs \/ Finish \/ UNCHANGED vars)
  <2>1. Len(<<>>) = 0
    OBVIOUS
  <2>2. \/ CollectCached \/ CollectNew \/ CollectReturn \/ CollectDone \/ collectCallSitePts
        \/ StartModRef \/ Pop \/ NextMember \/ modRefAnalysis
    BY <1>4 DEF Next, Terminated
  <2>3. phase \notin {"partition", "done"}
    <3> SUFFICES ASSUME phase \in {"partition", "done"} PROVE FALSE
      OBVIOUS
    <3>1. calls = <<>> /\ members = {} /\ edges = {}
      BY DEF FormInv, PhaseInv
    <3> QED BY <2>1, <2>2, <3>1 DEF CollectCached, CollectNew, CollectReturn, CollectDone,
       collectCallSitePts, StartModRef, Pop, NextMember, modRefAnalysis
  <2>4. phase' = phase \/ phase' \in {"sites", "modref"}
    BY <2>2 DEF CollectCached, CollectNew, CollectReturn, CollectDone, collectCallSitePts,
       StartModRef, Pop, NextMember, modRefAnalysis
  <2> QED BY <2>3, <2>4 DEF PartitionInv
<1> QED BY <1>1, <1>2, <1>3, <1>4

(* What a load reads, in regions; and what it shares with a store.         *)
LEMMA PartitionMeets ==
  ASSUME FormInv, PartitionInv, phase = "done", NEW f \in Fun
  PROVE  /\ \A u \in Uses(f) :
              /\ UNION getMRsForLoad(f, u) = u
              /\ \A d \in Defs(f) :
                   d \cap u \subseteq UNION (getAliasMemRegions(f, d) \cap getMRsForLoad(f, u))
         /\ prog.partition # "inter" => \A q, r \in FunMRs(f) : q = r \/ q \cap r = {}
<1>1. /\ MadeUp(f) /\ Entered(f) = CPts(f)
      /\ prog.partition = "distinct" => \A q \in inters[f] : \E o \in Obj : q = {o}
      /\ prog.partition = "intra" => Disjoint(inters[f])
      /\ prog.partition \in {"distinct", "intra", "inter"}
  BY ProgramFields DEF PartitionInv, Entered, FormInv, TypeOK
<1>2. ASSUME NEW u \in Uses(f), NEW o \in u
      PROVE  \E r \in getMRsForLoad(f, u) : o \in r /\ r \in FunMRs(f)
  <2>1. u \in CPts(f)
    BY <1>2 DEF CPts
  <2>2. CASE prog.partition = "distinct"
    <3>1. \A c \in Entered(f) : \A p \in c : {p} \in inters[f]
      BY <1>1, <2>2 DEF MadeUp
    <3>2. {o} \in inters[f]
      BY <1>1, <1>2, <2>1, <3>1
    <3> QED BY <1>2, <2>2, <3>2 DEF getMRsForLoad, FunMRs
  <2>3. CASE prog.partition # "distinct"
    <3>1. PICK r \in inters[ListOf(f)] : r \subseteq u /\ o \in r
      BY <1>1, <2>1, <2>3 DEF MadeUp, Covered, Within
    <3> QED BY <2>1, <2>3, <3>1 DEF getMRsForLoad, FunMRs, ListOf
  <2> QED BY <2>2, <2>3
<1>3. ASSUME NEW u \in Uses(f)
      PROVE  UNION getMRsForLoad(f, u) = u
  <2>1. \A r \in getMRsForLoad(f, u) : r \subseteq u
    BY DEF getMRsForLoad
  <2> QED BY <1>2, <2>1
<1>4. ASSUME NEW u \in Uses(f), NEW d \in Defs(f), NEW o \in d \cap u
      PROVE  o \in UNION (getAliasMemRegions(f, d) \cap getMRsForLoad(f, u))
  <2>1. PICK r \in getMRsForLoad(f, u) : o \in r /\ r \in FunMRs(f)
    BY <1>2
  <2> QED BY <2>1 DEF getAliasMemRegions
<1>5. ASSUME prog.partition # "inter", NEW q \in FunMRs(f), NEW r \in FunMRs(f)
      PROVE  q = r \/ q \cap r = {}
  <2>1. q \in inters[f] /\ r \in inters[f]
    BY <1>5 DEF FunMRs
  <2>2. CASE prog.partition = "distinct"
    <3>1. (\E a \in Obj : q = {a}) /\ (\E b \in Obj : r = {b})
      BY <1>1, <2>1, <2>2
    <3> QED BY <3>1
  <2>3. CASE prog.partition = "intra"
    BY <1>1, <2>1, <2>3 DEF Disjoint
  <2> QED BY <1>1, <1>5, <2>2, <2>3
<1> QED BY <1>3, <1>4, <1>5

(* Memory SSA connects definitions and uses, for every program: a load     *)
(* reads exactly the regions of its objects, what it shares with a store   *)
(* lies in regions of both, and the regions of a function are disjoint.    *)
THEOREM Partition == Spec => []DefsMeetUses
<1>1. Init => PartitionInv
  BY DEF Init, PartitionInv
<1>2. FormInv /\ PartitionInv /\ [Next]_vars => FormInv' /\ PartitionInv'
  BY NextForm, NextPartition
<1>3. FormInv /\ PartitionInv => DefsMeetUses
  BY PartitionMeets DEF DefsMeetUses
<1> QED BY <1>1, <1>2, <1>3, InitForm, PTL DEF Spec

=============================================================================
