----------------------------- MODULE MCSVFGOPT -----------------------------
(***************************************************************************)
(* SVFGOPT on the graphs of a program of two functions.  h stores to o,    *)
(* calls g at c (actual-in ai, actual-out ao), perhaps in a loop with head *)
(* hd, and loads o.  g (formal-in fi, formal-out fo) has a store sg, a     *)
(* load lg and two joins ph and k, whose operands, and the definition that *)
(* reaches the return, vary.  g may call itself at d (ai2, ao2).  The call *)
(* at c is direct or indirect; g writes and reads a second object, which   *)
(* h does not use.  In some of the graphs h or g is the program's entry,   *)
(* and the initializer gs of a global reaches its formal-in, hi or fi.  If *)
(* it is h, h may also call g before it stores.                            *)
(***************************************************************************)
EXTENDS SVFGOPT, TLC

CONSTANTS s, ai, ao, hd, l, hi, fi, fo, sg, lg, ph, k, ai2, ao2, gs,
          o, p, callC, retC, callD, retD

Nodes == {s, ai, ao, hd, l, hi, fi, fo, sg, lg, ph, k, ai2, ao2, gs}

Kinds ==
  s :> "store" @@ sg :> "store" @@ gs :> "store" @@ l :> "load" @@ lg :> "load" @@
  ai :> "ain" @@ ai2 :> "ain" @@ ao :> "aout" @@ ao2 :> "aout" @@
  hi :> "fin" @@ fi :> "fin" @@ fo :> "fout" @@ hd :> "phi" @@ ph :> "phi" @@ k :> "phi"

Labels == [n \in Nodes |-> IF n \in {s, ai, ao, hd, l, hi} THEN {o} ELSE {o, p}]

Within(pairs) == {<<q[1][1], q[1][2], Intra, q[2]>> : q \in {r \in pairs \X {o, p} : r[2] \in Labels[r[1][2]]}}

Calls(triples, objs) == {<<t[1], t[2], t[3], q>> : t \in triples, q \in objs}

AtC == {<<ai, fi, callC>>, <<fo, ao, retC>>}
AtD == {<<ai2, fi, callD>>, <<fo, ao2, retD>>}

(* What is within h, and what the initializer reaches.                     *)
Caller(entry, loop) ==
  CASE loop             -> {<<s, hd>>, <<ao, hd>>, <<hd, ai>>, <<hd, l>>}
                             \cup (IF entry = "h" THEN {<<hi, s>>, <<hi, hd>>} ELSE {})
    [] ~loop /\ entry # "h" -> {<<s, ai>>, <<ao, l>>}
    [] ~loop /\ entry = "h" -> {<<hi, ai>>, <<ao, s>>, <<s, l>>}

Initialized(entry) ==
  CASE entry = "none" -> {} [] entry = "h" -> {<<gs, hi>>} [] entry = "g" -> {<<gs, fi>>}

(* loop: the call is in a loop of h; P, K: the operands of the joins;      *)
(* f: the definition at g's return; rec: g calls itself.                   *)
Graph(entry, loop, P, K, f, rec, direct) ==
  Within(Caller(entry, loop) \cup Initialized(entry)
         \cup {<<n, ph>> : n \in P} \cup {<<n, k>> : n \in K}
         \cup {<<f, fo>>, <<fi, sg>>, <<ph, lg>>}
         \cup (IF rec THEN {<<ph, ai2>>, <<ao2, k>>} ELSE {}))
  \cup (IF direct THEN Calls(AtC, {o}) ELSE {})
  \cup (IF rec THEN Calls(AtD, {o, p}) ELSE {})

Program(entry, loop, P, K, f, rec, direct, keep, keepAOFI) ==
  [kind |-> [n \in Nodes \ ((IF loop THEN {} ELSE {hd}) \cup (IF rec THEN {} ELSE {ai2, ao2})
                             \cup (IF entry = "h" THEN {} ELSE {hi})
                             \cup (IF entry = "none" THEN {gs} ELSE {})) |-> Kinds[n]],
   edges |-> Graph(entry, loop, P, K, f, rec, direct), label |-> Labels,
   needed |-> IF direct THEN {} ELSE {ai, ao, fi, fo},
   later |-> IF direct THEN {} ELSE AtC,
   keepSelfCycle |-> keep, keepActualOutFormalIn |-> keepAOFI]

(* How self cycles are kept is varied without initializers.                *)
Graphs ==
  {Program(keeping[1], loop, P, K, f, rec, direct, keeping[2], FALSE) :
     keeping \in ({"none"} \X {"all", "context", "none"}) \cup ({"h", "g"} \X {"none"}),
     loop \in BOOLEAN, P \in {{fi, sg}, {fi, k}, {sg, k}}, K \in {{ph}, {ph, sg}},
     f \in {fi, ph, k}, rec \in BOOLEAN, direct \in BOOLEAN}
  \cup {Program(entry, TRUE, {fi, k}, {ph}, k, TRUE, TRUE, "all", TRUE) : entry \in {"none", "h", "g"}}

=============================================================================
