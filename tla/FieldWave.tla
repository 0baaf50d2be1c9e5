------------------------------ MODULE FieldWave ------------------------------
(***************************************************************************)
(* AndersenWaveDiff on programs with field accesses.                       *)
(*                                                                         *)
(* Every memory object has a node for the whole of it and one for each     *)
(* field.  A gep edge passes on, for each object, the field at its offset. *)
(* An object becomes field-insensitive when it is reached by an offset     *)
(* unknown to the analysis (variant gep) or sits in a cycle that keeps     *)
(* adding an offset (PWC node): it is then collapsed, that is, its fields  *)
(* are replaced by the whole in every points-to set and merged into it,    *)
(* in the middle of a wave.                                                *)
(*                                                                         *)
(* What does not concern fields is done by AndersenWaveDiff, whose actions *)
(* are used here between nodes.  A field node is created on its first use; *)
(* here all exist from the start, without edges or points-to sets.         *)
(***************************************************************************)
EXTENDS AndersenWaveDiff, SequencesExt

CONSTANTS
  Mem,            \* memory objects; the nodes of m are <<m, -1>> for the
                  \* whole of it and <<m, k>> for the field at offset k
  Limit,          \* getMaxFieldOffsetLimit
  BlkOrConstant,  \* isBlkObjOrConstantObj: have no fields
  GepPrograms,    \* the gep edges programs may have
  Misread         \* what isZeroOffsettedGepCGEdge may say of a critical edge
                  \* that has been deleted: {FALSE}, or BOOLEAN

whole(o)   == <<o[1], -1>>
isField(o) == o[2] # -1

(* Gep edges: <<source, destination, offset>>, at most one for each pair.  *)
Gep == Node \X Node \X Nat
Pairs(E) == {<<e[1], e[2]>> : e \in E}

Named(n) == n \in Obj => ~isField(n)

(* The nodes of a program are finitely many.  Its text names no fields: a  *)
(* field node is created by getGepObjNode, when the solver first meets it. *)
(* No gep is made of its own result.                                       *)
ASSUME FieldAssumption ==
  /\ IsFiniteSet(Node)
  /\ Obj \subseteq Mem \X Int
  /\ \A o \in Obj : whole(o) \in Obj
  /\ Limit \in [Mem -> Nat \ {0}]
  /\ BlkOrConstant \subseteq Mem
  /\ \A m \in Mem \ BlkOrConstant : \A k \in 0 .. Limit[m] - 1 : <<m, k>> \in Obj
  /\ \A p \in GepPrograms :
       /\ p.normal \subseteq Gep /\ p.variant \subseteq Edge
       /\ \A e, f \in p.normal : e[1] = f[1] /\ e[2] = f[2] => e = f
       /\ \A e \in p.normal \cup p.variant : e[1] # e[2] /\ Named(e[1]) /\ Named(e[2])
  /\ \A p \in Programs :
       /\ \A e \in p.addr \cup p.copy \cup p.load \cup p.store : Named(e[1]) /\ Named(e[2])
       /\ \A c \in p.callee : \A e \in p.params[c] : Named(e[1]) /\ Named(e[2])
  /\ Misread \subseteq BOOLEAN /\ FALSE \in Misread

VARIABLES
  geps,         \* the program's gep edges
  gepEdges,     \* directEdgeSet: normal gep edges,
  variantEdges, \*                and variant ones
  insensitive,  \* objects marked field-insensitive
  pwc,          \* nodes marked as in a positive-weight cycle
  waveEdges,    \* direct edges when the wave began: they order it
  current,      \* the node processNode is at, as a set
  pendingPts,   \* objects collapseNodePts has still to look at
  toCollapse    \* nodesToBeCollapsed; FIFO order is abstracted

fieldGraph == <<gepEdges, variantEdges, insensitive, pwc>>
fieldVars  == <<geps, fieldGraph, waveEdges, current, pendingPts, toCollapse>>
allVars    == <<vars, fieldVars>>

(* Between nodes of a wave, and outside waves.                             *)
Idle == current = {} /\ pendingPts = {} /\ toCollapse = {}

FieldTypeOK ==
  /\ TypeOK
  /\ geps \in GepPrograms
  /\ gepEdges \subseteq Gep
  /\ \A e, f \in gepEdges : e[1] = f[1] /\ e[2] = f[2] => e = f
  /\ variantEdges \subseteq Edge
  /\ insensitive \subseteq Mem \ BlkOrConstant
  /\ pwc \subseteq Node
  /\ waveEdges \subseteq Edge
  /\ current \subseteq Node
  /\ pendingPts \subseteq Obj
  /\ toCollapse \subseteq insensitive

FieldInit ==
  /\ Init
  /\ geps \in GepPrograms
  /\ gepEdges = geps.normal
  /\ variantEdges = geps.variant
  /\ insensitive = {} /\ pwc = {}
  /\ waveEdges = {} /\ current = {} /\ pendingPts = {} /\ toCollapse = {}

-----------------------------------------------------------------------------
(***************************************************************************)
(* Merging.  The graph as a record, so that nodes can be merged one after  *)
(* the other: which of two gep edges survives depends on the order.        *)
(***************************************************************************)
Graph == [rep |-> rep, subs |-> subs, copy |-> copyEdges, load |-> loadEdges,
          store |-> storeEdges, pts |-> pts, propa |-> propaPts,
          gep |-> gepEdges, variant |-> variantEdges, pwc |-> pwc]

(* The edges of merged nodes are replaced by new ones, not handled yet.    *)
Emptied(cache, g) ==
  [e \in Edge |-> IF g.rep[e[1]] = rep[e[1]] /\ g.rep[e[2]] = rep[e[2]] THEN cache[e] ELSE {}]

Becomes(g) ==
  /\ rep' = g.rep /\ subs' = g.subs
  /\ copyEdges' = g.copy /\ loadEdges' = g.load /\ storeEdges' = g.store
  /\ loadCache' = Emptied(loadCache, g) /\ storeCache' = Emptied(storeCache, g)
  /\ pts' = g.pts /\ propaPts' = g.propa
  /\ gepEdges' = g.gep /\ variantEdges' = g.variant /\ pwc' = g.pwc

(***************************************************************************)
(* mergeNodeToRep: fold n into r.  Gep edges between n and r disappear and *)
(* make r a PWC node, unless their offset is 0; so does a merged PWC node. *)
(* The other gep edges of n move to r, except where r has one to or from   *)
(* the same node already.                                                  *)
(***************************************************************************)
Ends(e) == {e[1], e[2]}

Pwc(g, n, r, misread) ==
  IF \/ \E e \in g.variant : Ends(e) = {n, r}
     \/ ~misread /\ \E e \in g.gep : Ends(e) = {n, r} /\ e[3] # 0
     \/ n \in g.pwc
  THEN (g.pwc \ {n}) \cup {r} ELSE g.pwc

MergeNodeToRep(g, n, r, misread) ==
  LET mv       == [m \in Node |-> IF m = n THEN r ELSE m]
      moved(e) == n \in Ends(e)
      taken(e) == \E f \in g.gep : ~moved(f) /\ f[1] = mv[e[1]] /\ f[2] = mv[e[2]]
  IN  [rep     |-> [m \in Node |-> IF m \in g.subs[n] THEN r ELSE g.rep[m]],
       subs    |-> [g.subs EXCEPT ![r] = @ \cup g.subs[n]],
       copy    |-> NoLoops(Moved(g.copy, mv)),
       load    |-> Moved(g.load, mv),
       store   |-> Moved(g.store, mv),
       pts     |-> [g.pts EXCEPT ![r] = @ \cup g.pts[n]],
       propa   |-> [g.propa EXCEPT ![r] = @ \cap g.propa[n]],
       gep     |-> {e \in g.gep : ~moved(e)} \cup
                   NoLoops({<<mv[e[1]], mv[e[2]], e[3]>> :
                              e \in {f \in g.gep : moved(f) /\ ~taken(f)}}),
       variant |-> NoLoops(Moved(g.variant, mv)),
       pwc     |-> Pwc(g, n, r, misread)]

(* What merging, for each pair <<n, r>>, n into r may make of graph g: of  *)
(* each order, and of what is read of deleted edges.                       *)
MergeInOrder(g, order, misread) ==
  LET merge(h, e) == MergeNodeToRep(h, e[1], e[2], misread)
  IN  FoldLeft(merge, g, order)

Merges(g, pairs) ==
  {MergeInOrder(g, order, misread) : order \in SetToSeqs(pairs), misread \in Misread}

(* mergeSccCycle: the members of every component, in any order.            *)
FieldSCCDetect ==
  /\ phase = "scc"
  /\ \E root \in RootMaps(copyEdges \cup Pairs(gepEdges) \cup variantEdges) :
       \E merged \in Merges(Graph, {<<n, root[n]>> : n \in MergedNodes(root)}) :
         /\ Becomes(merged)
         /\ nodeStack' = {n \in Node : rep[n] = n /\ root[n] = n}
         /\ waveEdges' = merged.copy \cup Pairs(merged.gep) \cup merged.variant
  /\ phase' = "solve"
  /\ UNCHANGED <<prog, geps, worklist, pendLoads, pendStores, pendParams, indCalls,
                 reanalyze, insensitive, current, pendingPts, toCollapse>>

-----------------------------------------------------------------------------
(***************************************************************************)
(* Collapsing.                                                             *)
(***************************************************************************)
hasFields(m) == m \notin BlkOrConstant /\ Limit[m] # 1
fields(m)    == {o \in Obj : o[1] = m /\ isField(o)}

(***************************************************************************)
(* collapseField(m): mark m, put the whole for its fields wherever they    *)
(* are pointed to, and merge the fields' nodes into that of the whole; if  *)
(* that is a PWC node, the objects it points to are collapsed next.        *)
(* Another wave is needed if a points-to set changed.                      *)
(***************************************************************************)
(* Faulty: only the whole's own points-to set is searched.                 *)
ReplacedAtWhole(m) ==
  [n \in Node |-> IF pts[n] \cap fields(m) = {} \/ n # <<m, -1>> THEN pts[n]
                  ELSE (pts[n] \ fields(m)) \cup {<<m, -1>>}]

Replaced(m) ==
  [n \in Node |-> IF pts[n] \cap fields(m) = {} THEN pts[n]
                  ELSE (pts[n] \ fields(m)) \cup {<<m, -1>>}]

(* Faulty: the rest of the wave is relied on.                              *)
ReanalyzeAfterNone(m) == reanalyze

ReanalyzeAfter(m) == reanalyze \/ Replaced(m) # pts

collapseNodePts(S, marked) == {o \in S : o[1] \notin marked}

(* Faulty: a change is reported where nothing was collapsed.               *)
CollapseNothingChanged(rest) ==
  /\ pendingPts' = rest
  /\ reanalyze' = TRUE
  /\ UNCHANGED <<rep, subs, copyEdges, loadEdges, storeEdges, loadCache, storeCache,
                 pts, propaPts, gepEdges, variantEdges, pwc, insensitive>>

(* The early return: no change is reported, nor the object marked.         *)
CollapseNothing(rest) ==
  /\ pendingPts' = rest
  /\ UNCHANGED <<rep, subs, copyEdges, loadEdges, storeEdges, loadCache, storeCache,
                 pts, propaPts, gepEdges, variantEdges, pwc, insensitive, reanalyze>>

CollapseField(m, rest) ==
  \/ /\ ~hasFields(m)
     /\ CollapseNothing(rest)
  \/ /\ hasFields(m)
     /\ insensitive' = insensitive \cup {m}
     /\ reanalyze' = ReanalyzeAfter(m)
     /\ LET base == rep[<<m, -1>>]
        IN  \E merged \in Merges([Graph EXCEPT !.pts = Replaced(m)],
                                ({rep[f] : f \in fields(m)} \ {base}) \X {base}) :
              /\ Becomes(merged)
              /\ pendingPts' = rest \cup
                   IF base \in merged.pwc
                   THEN collapseNodePts(merged.pts[base], insensitive \cup {m}) ELSE {}

(* One of the objects collapseNodePts has still to look at.                *)
CollapsePointee(o) ==
  /\ o \in pendingPts
  /\ IF o[1] \in insensitive
     THEN /\ pendingPts' = pendingPts \ {o}
          /\ UNCHANGED <<vars, fieldGraph>>
     ELSE /\ CollapseField(o[1], pendingPts \ {o})
          /\ UNCHANGED <<prog, phase, worklist, nodeStack, pendLoads, pendStores,
                         pendParams, indCalls>>
  /\ UNCHANGED <<geps, waveEdges, current, toCollapse>>

(* An object marked during the node's variant gep edges.                   *)
CollapseNext(m) ==
  /\ current = {} /\ pendingPts = {}
  /\ m \in toCollapse
  /\ toCollapse' = toCollapse \ {m}
  /\ CollapseField(m, {})
  /\ UNCHANGED <<prog, phase, worklist, nodeStack, pendLoads, pendStores, pendParams,
                 indCalls, geps, waveEdges, current>>

-----------------------------------------------------------------------------
(***************************************************************************)
(* processNode: take the next node in topological order; if it is a PWC    *)
(* node, collapse what it points to; then pass on its diff.                *)
(***************************************************************************)
StartNode(n) ==
  /\ phase = "solve" /\ Idle
  /\ n \in nodeStack
  /\ \A e \in waveEdges : e[2] = n => e[1] \notin nodeStack
  /\ nodeStack' = nodeStack \ {n}
  /\ waveEdges' = IF nodeStack' = {} THEN {} ELSE waveEdges
  /\ current' = {n}
  /\ pendingPts' = IF rep[n] \in pwc THEN collapseNodePts(pts[rep[n]], insensitive) ELSE {}
  /\ UNCHANGED <<prog, phase, rep, subs, copyEdges, loadEdges, storeEdges, pts, propaPts,
                 loadCache, storeCache, worklist, pendLoads, pendStores, pendParams,
                 indCalls, reanalyze, geps, fieldGraph, toCollapse>>

(* getGepObjNode                                                           *)
FieldAt(o, k) ==
  IF o[1] \in BlkOrConstant THEN o
  ELSE IF o[1] \in insensitive THEN whole(o)
  ELSE <<o[1], (IF isField(o) THEN o[2] + k ELSE k) % Limit[o[1]]>>

(* What n's edges of each kind hand on to m of the objects D.              *)
Handed(n, m, D) ==
  (IF <<n, m>> \in copyEdges THEN D ELSE {}) \cup
  (UNION {{FieldAt(o, e[3]) : o \in D} : e \in {f \in gepEdges : f[1] = n /\ f[2] = m}}) \cup
  (IF <<n, m>> \in variantEdges THEN {whole(o) : o \in D} ELSE {})

MarkVariant(D) ==
  LET new == {o[1] : o \in D} \ insensitive
  IN  /\ insensitive' = insensitive \cup new
      /\ toCollapse' = toCollapse \cup new

(***************************************************************************)
(* handleCopyGep.  Edges are handled by kind, variant gep edges last.  A   *)
(* node merged while it was collapsed is left to its representative.       *)
(***************************************************************************)
HandleCopyGep(n) ==
  /\ current = {n} /\ pendingPts = {}
  /\ current' = {}
  /\ IF rep[n] # n
     THEN UNCHANGED <<pts, propaPts, worklist, insensitive, toCollapse>>
     ELSE LET diff == pts[n] \ propaPts[n]
          IN  /\ propaPts' = [propaPts EXCEPT ![n] = pts[n]]
              /\ pts' = [m \in Node |-> pts[m] \cup Handed(n, m, diff)]
              /\ worklist' = worklist \cup {m \in Node : ~(Handed(n, m, diff) \subseteq pts[m])}
              /\ MarkVariant({o \in diff : /\ o[1] \notin BlkOrConstant
                                           /\ \E e \in variantEdges : e[1] = n})
  /\ UNCHANGED <<prog, phase, rep, subs, copyEdges, loadEdges, storeEdges, loadCache,
                 storeCache, nodeStack, pendLoads, pendStores, pendParams, indCalls,
                 reanalyze, geps, gepEdges, variantEdges, pwc, waveEdges, pendingPts>>

-----------------------------------------------------------------------------
(* The rest is as without fields.                                          *)
WaveStep ==
  /\ Idle
  /\ \/ ProcessAllAddr
     \/ \E n \in Node : PopFromWorklist(n)
     \/ \E e \in Edge : HandleLoad(e) \/ HandleStore(e) \/ ConnectParam(e)
     \/ UpdateCallGraph
     \/ EndRound
  /\ UNCHANGED fieldVars

FieldTerminated == phase = "done" /\ UNCHANGED allVars

FieldNext ==
  \/ FieldSCCDetect
  \/ \E n \in Node : StartNode(n) \/ HandleCopyGep(n)
  \/ \E o \in Obj : CollapsePointee(o)
  \/ \E m \in Mem : CollapseNext(m)
  \/ WaveStep
  \/ FieldTerminated

(* One thread runs the analysis and nothing blocks it.                     *)
FieldSpec == FieldInit /\ [][FieldNext]_allVars /\ WF_allVars(FieldNext)

-----------------------------------------------------------------------------
(***************************************************************************)
(* Properties.                                                             *)
(***************************************************************************)
(* Once a collapse is over, an object marked field-insensitive is one node *)
(* and nothing points to its fields, in the middle of every wave: else     *)
(* what is stored through the whole is not found through a field.          *)
(* Objects with a single field are marked but never collapsed, so theirs   *)
(* may be told apart from the whole.                                       *)
CollapsedAreWhole ==
  \A o \in Obj : o[1] \in insensitive \ toCollapse /\ hasFields(o[1]) /\ isField(o) =>
    /\ rep[o] = rep[whole(o)]
    /\ \A n \in Node : o \notin getPts[n]

(* S has x or, of an object with a single field, the whole for the field   *)
(* or the field for the whole: these are never made one.                   *)
Has(S, x) == \E y \in S : y = x \/ (y[1] = x[1] /\ ~hasFields(x[1]))

GepHolds(e)        == \A o \in getPts[e[1]] : Has(getPts[e[2]], FieldAt(o, e[3]))
VariantGepHolds(e) == \A o \in getPts[e[1]] : Has(getPts[e[2]], whole(o))

(* A gep edge no other one was merged with: of two that come to join the   *)
(* same nodes with different offsets, only one is kept (ConsG.cpp:178).    *)
Sole(e) ==
  \A f \in geps.normal :
    f[3] # e[3] => <<rep[f[1]], rep[f[2]]>> # <<rep[e[1]], rep[e[2]]>>

(* A gep edge in a cycle is taken for a copy if its offset is 0, or if it  *)
(* is misread as such.                                                     *)
Cyclic(e) == rep[e[1]] = rep[e[2]] /\ (e[3] = 0 \/ TRUE \in Misread)

(* The whole of a collapsed object some field of which holds no pointer.   *)
Mixed(o) == \E f \in Opaque : f[1] = o[1] /\ o[1] \in insensitive /\ hasFields(o[1])

(* Loads and stores at the pointers that were never merged have seen all   *)
(* that is pointed to, or the whole it has become.  A load of a field that *)
(* holds no pointer is not looked at again when the field has become the   *)
(* whole, which may.                                                       *)
DoneHandledCollapsed ==
  Done =>
    /\ \A e \in prog.load : Unmerged(e[1]) =>
         \A o \in pts[e[1]] \ Opaque : ~Mixed(o) => getPts[o] \subseteq getPts[e[2]]
    /\ \A e \in prog.store : Unmerged(e[2]) =>
         \A o \in pts[e[2]] \ Opaque : ~Mixed(o) => getPts[e[1]] \subseteq getPts[o]

(* What the analysis ends with is closed, although diffs were computed     *)
(* before objects were collapsed and edges moved: a pointer has every      *)
(* field its offset leads to, and a load or store at a pointer that was    *)
(* never merged has seen the fields it reaches, or the whole they became.  *)
FieldDoneIsClosed ==
  /\ Done =>
       /\ AddrHolds(prog, getPts) /\ CopyHolds(prog, getPts)
       /\ \A e \in geps.normal : Sole(e) /\ ~Cyclic(e) => GepHolds(e)
       /\ \A e \in geps.variant : VariantGepHolds(e)
  /\ DoneHandledCollapsed

(* The waves end.                                                          *)
FieldTermination == <>Done

=============================================================================
