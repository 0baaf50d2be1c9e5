# A TLA+ verification of autoMPI

autoMPI finds, in a program that handles several units of work (windows, tabs,
buffers, messages), the function that handles one unit and the *indicator
variable* that tells which unit is current, and instruments the program with an
annotation at each change of that variable. The repository joins a trace tool
in OCaml, a fork of the SVF pointer-analysis framework in C++ and small LLVM
passes. Nothing in it runs concurrently or keeps state on disk. What is hard is
of another kind: fixpoint computations whose answer must not depend on the order
of a worklist, state that goes stale when graph nodes are merged underneath it,
caches and differences that must not skip anything, and searches that have to
account for everything exactly once.

## The system

### Pipeline

1. `print-members-passes` lists the functions of a module; the list becomes a
   Loom policy, and the instrumented program prints `enter f: args` and
   `leave f: ret args`.
2. `count_calls` compares the traces of a run with n units and a run with n+1
   and prints the most likely unit handler.
3. `SVF-devel`, `wpa -analyze-function f`, runs the pointer analysis, builds
   memory SSA and the value-flow graph, refines it flow-sensitively, and prints
   the variables in memory regions that `f` changes (`lib/Stephen`).
4. `mpi-annotations` (`-mpi-substitute`) inserts a check before every store to
   the chosen variable: if the value changes, `call_kill(-100, 1)` is called.

### Components

| component | state it keeps | operations | interacts with | what makes it correct |
|---|---|---|---|---|
| constraint graph (`ConsG`) | nodes, edge sets by kind, `nodeToRepMap`, `nodeToSubsMap` | build from the PAG, add an edge, retarget and move edges on a merge, connect caller and callee | mutated by the solvers, read by the SCC detector | rep and sub maps agree; no edge of a merged node survives; parameters connected between representatives |
| `Andersen` | points-to sets, worklist, topological stack, resolved calls | `processAllAddr`, `SCCDetect`, `processNode`, `updateCallGraph` | constraint graph, SCC detector, call resolution | ends, at the least solution of the constraints |
| `AndersenWaveDiff` | the same, plus diff, propa and cache maps and `reanalyze` | wave, post-processing of loads and stores, merge, call update | as above; its result feeds memory SSA | as above; diffs and caches lose nothing |
| SCC detection (`Util/SCC.h`) | visiting numbers, candidate roots, sub-node sets, two stacks | `find`, `visit`, `repNode`, `subNodes`, `isInCycle` | solvers, call graph (recursion), memory-region generation | exact components, topological order, exact cycle query |
| indirect calls (`PointerAnalysis`, `PTACallGraph`) | `indCallMap`, number of resolved edges | `resolveIndCalls` | called at the end of each round | each pair once; a new pair causes a new round; budget |
| field objects (`MemModel`, `LocationSet`) | field nodes, field-insensitive flags | `processGepPts`, `collapseField`, `collapseNodePts` | called inside a solver's pass | a collapsed field is nowhere left in a points-to set |
| memory regions (`MemRegion`, `MemPartition`) | cached chains, mod/ref sets of functions and calls, regions | collect chains, bottom-up worklist over the call graph, partition | pointer analysis in, memory SSA out | effects reach every caller and none is invented; a definition and a use of one object share a region |
| memory SSA (`MemSSA`) | mu, chi and phi versions, version stacks | collect, insert phis, rename | regions in, SVFG and Stephen pass out | a use is reached by exactly the definitions that may reach it |
| SVFG and its reduction (`SVFG`, `SVFGOPT`) | nodes, value-flow edges by call context, recorded definitions at calls | build, connect a call, remove actual-in, actual-out, formal-in and PHI nodes | memory SSA in, flow-sensitive analysis and checkers out | stores reach the same loads, also over calls connected later |
| flow-sensitive analysis (`FlowSensitive`) | IN/OUT maps per SVFG node, changed-variable marks | per-node transfer, strong and weak update, call update | SVFG | ends, at the least solution of its equations |
| Stephen pass | changed regions | compare versions at entry and exit of a function | SVFG | every region the function writes is reported |
| SABER | slices, path conditions | forward and backward slice with matched calls | SVFG, BDDs | a leak is reported exactly if no path condition covers all paths |
| `count_calls` | call stack and contexts, queue, set of candidates | `nested`, `find_candidates`, `bfs` | reads the two traces | the tree is the trace; weights account for each candidate once |
| `mpi-substitute` | the module's basic blocks | split, insert check, branch | `call_kill` | the check fires exactly when the indicator's value changes |

Vendored code (`lib/CUDD`, `include/CUDD`), test inputs, policies and statistics
are left aside. `PROJECT.json` lists every part with its status.

### Where it is hard

* **Merging.** Copy cycles are merged in every round, and a node that already
  stands for others can be merged again. Everything keyed by a node or an edge,
  that is points-to sets, propagated sets, caches, worklists and parameters, has
  to survive that.
* **Differences and caches.** `AndersenWaveDiff` passes on only what is new at a
  node and handles only what is new at an edge. An object skipped once is lost
  for good.
* **Rounds.** Indirect calls are resolved between rounds, by what the previous
  round found; a round must follow exactly when something changed.
* **Collapsing.** In the middle of a wave, the fields of an object are replaced
  by the whole of it in every points-to set, and their nodes merged.
* **Strong updates.** A store that overwrites its one target may get a second
  target later; a value it held back must then still be passed on, and until it
  has any target nothing may pass.
* **Reduced graphs.** Nodes are removed before all calls are known; calls resolved
  later are connected to what is left.
* **Search bookkeeping.** The SCC detector reuses one map for candidate roots,
  final roots and members; `bfs` removes names from the set that steers it.

`PROJECT.json` "hazards" has each of these at its line with the properties that
guard it.

## The modules

| module | models | notes |
|---|---|---|
| `StronglyConnected` | what users expect of the detector | components by closed sets, so it can be proved about; `RootMaps` is every choice of representatives |
| `ConstraintGraph` | `ConsG.cpp`, merging, call resolution | programs as records of constraints; solutions; pure operators both solvers use |
| `InclusionAnalysis` | abstract specification | sets grow, stay below every solution, and the analysis returns only at one |
| `Andersen` | class `Andersen` on `WPASolver` | one action per step of the solver |
| `AndersenWaveDiff` | class `AndersenWaveDiff` on `AndersenWave` | one action per node of a wave, per load, per store, per parameter copy |
| `FieldWave` | gep edges, PWC nodes and `collapseField` in `AndersenWaveDiff` | what does not concern fields is done by the actions of `AndersenWaveDiff` |
| `FlowSensitive` | class `FlowSensitive` | one action per node processed, per call update and per connected edge |
| `SVFGOPT` | class `SVFGOPT`, address-taken variables | one action per node removed or retargeted |
| `MemRegions`, `MemPartition` | class `MRGenerator` and its partitions | one action per return of the recursive chain search, per call site, per function of a component |
| `MemSSA` | class `MemSSA` | one action per block collected, per definition whose frontier gets phis, per call and return of the renaming |
| `StephenPass` | `lib/Stephen` | which regions count as changed, from the versions of `MemSSA` |
| `SCCDetection` | `Util/SCC.h` | `visit` with its call stack made explicit |
| `CallTrace` | `count_calls` | one action per trace symbol and per turn of `bfs` |
| `PlainExecution` | abstract specification | a function running without annotation |
| `StoreInstrumentation` | `mpi-annotations/mpi/MPI.cpp` | the pass, one store at a time, then the run of what it built |
| `MCPrograms`, `MC*` | instances for TLC | |
| `ConstraintGraph_proofs`, `Andersen_proofs`, `AndersenWaveDiff_proofs`, `FlowSensitive_proofs`, `SVFGOPT_proofs`, `SCCDetection_proofs`, `MemRegions_proofs`, `MPITools_proofs` | theorems | see Proofs |

`Andersen` and `AndersenWaveDiff` EXTEND `ConstraintGraph`, which EXTENDS
`StronglyConnected`: in them, one step of SCC detection merges along any member of
`RootMaps(copyEdges)`. `SCCDetection` shows with `DoneIsRootMap` that the
detector's result always is one, so the solvers are composed with the detector
through that contract, and `RootMap` below proves it for every graph. `MemRegions` takes the components of the call graph from it in the
same way. `Andersen` is shown to implement `InclusionAnalysis`. `FieldWave` EXTENDS
`AndersenWaveDiff`, replaces its merging and node processing by
those with fields, and takes its other actions over between nodes.
`StephenPass` EXTENDS `MemSSA`.

What one component hands to the next (points-to sets, graph, regions) is an
input of the next module: a constant set of programs, graphs or functions of
the form the code before it builds, over which the theorems quantify and of
which each run takes a small set.

### State and code

* `pts`, `propaPts`, `loadCache`, `storeCache` are `ptsMap`, `propaPtsMap` and
  `CacheMap` of `PointsToDS.h`; `getPts` is `Andersen::getPts`, which goes
  through the representative. The diff map is recomputed before each use and is
  a LET in `ProcessNode`.
* `rep`, `subs`, `copyEdges`, `loadEdges`, `storeEdges` are the maps and edge
  sets of the constraint graph. Address edges are used once at the start and
  are left in the program. An edge is identified by its ends and its kind, as
  in the code's sets. A moved edge gets a new id in the code, so its cache is
  emptied (`MovedCache`).
* `worklist` is a set: `FIFOWorkList` has no duplicates, and forgetting its
  order only adds behaviours. The topological order of a wave is kept where
  something depends on it (`AndersenWaveDiff!ProcessNode`).
* Merging and edge moving are one step (`SCCDetect`), because the code does
  them in one call before the round goes on.
* In `SCCDetection`, the children of a node are visited in any order: the code
  iterates a set ordered by edge kind first.
* In `FieldWave`, `geps` are the gep edges of the program and `gepEdges`,
  `variantEdges` those of the graph. `current` and `pendingPts` are the position
  inside `processNode` and `collapseNodePts`, which `collapseField` reenters;
  `toCollapse` is `nodesToBeCollapsed`. Merging is computed one node at a time,
  because the edges that survive depend on the order.
* In `FlowSensitive`, `dfIn`, `dfOut` and `inNew` are the IN and OUT maps and the
  updated-variable marks of `PointsToDFDS.h`. Top-level variables have one set
  in `pts`. `fresh` holds the edges that `updateCallGraph` connected and
  `updateConnectedNodes` has still to propagate along.
* In `SVFGOPT`, an edge of the code, labelled with a set of objects, is one edge
  for each object; `defs` is `actualInToDefMap` and `formalOutToDefMap`.
* In `MemRegions`, `calls` is the recursion of `CollectPtsChain`, made explicit
  because its cache is read while it is incomplete. In `MemSSA`, `frames` is
  that of `SSARenameBB`, and `stack` its version stacks.
* In `CallTrace`, functions are numbers in alphabetical order, which the choice
  of the answer depends on; a call is the position of its `Enter`. The second
  trace is chosen while it is read. Of the first trace only the counts matter.
* In `StoreInstrumentation`, an instruction is the place of a store in the
  original function, so that moving it to another block keeps its name; what
  the pass inserts is a kind of terminator. A function is any sequence of blocks of stores; branch
  conditions are left out.

### Faulty operators

Each property is paired in `PROJECT.json` with a faulty variant of one
definition, placed in front of it under the comment "Faulty": a dropped push, an
edge derived from the wrong end, a cache or a set not carried over a merge.
Model-checking with the variant in place of the original violates the property.
Nothing else refers to these operators.

## Runs

| run | module / cfg | instance | states | shows |
|---|---|---|---|---|
| `andersen` | `MCAndersen` | the programs of `MCPrograms`: pointers a, b and objects x, y, with or without a call through a, budget 1, y opaque | 86 444 | `DoneIsSolution`, `NeverSpurious`: least solution; `RepSubsAgree`, `EdgesAtRepresentatives`: the merged graph; `ImplementsInclusionAnalysis`; `Termination` |
| `wavediff` | `MCAndersenWaveDiff` | the same programs, call budget 0 | 150 047 | `DoneIsClosed`, `DoneHandledUnmerged`, `NeverSpurious`; `PassedOnHasArrived`, `CachedIsConnected`: why diffs and caches are right; `Termination` |
| `wavediff_merge` | `MCAndersenWaveDiffMerge` | one program of five statements | | violation of `DoneIsSolution`, see below |
| `fields` | `MCFieldWave` | four pointers, a struct of two fields, an opaque object; 17 programs with four sets of gep edges each | 64 681 | `CollapsedAreWhole`, `FieldDoneIsClosed`, `FieldTermination` |
| `flowsensitive` | `MCFlowSensitive` | one program with two stores, a load and a call, over its possible value-flow graphs | 102 136 | `DoneIsLeast`, `MissingIsMarked`, `Termination` |
| `svfgopt` | `MCSVFGOPT` | two functions, a loop, recursion, direct and indirect call, varied joins, the initializer of a global | 23 954 | `FlowIsPreserved`, `StillRemovable`, `LaterCallsAreConnected`, `Termination` |
| `memregions` | `MCMemRegions` | three functions and call sites, four objects, three partitions | 41 813 | `NeverSpurious`, `ChainsAreComplete`, `DoneIsClosedAtReps`, `DefsMeetUses` |
| `memregions_recursion` | `MCMemRegionsRecursion` | two functions that call each other | | violation of `DoneIsClosed`, see below |
| `memssa` | `MCMemSSA` | every control flow graph of four blocks, two regions | 112 382 | `VersionsAreReachingDefs`, `ChangedIsExact` |
| `scc` | `MCSCCDetection` | every loop-free graph on four nodes, every graph on three | 387 185 | `DoneIsRootMap`, `CompleteIsComponent`, `RootsAreTopological`, `CycleQueriesAreExact`, `Termination` |
| `calltrace` | `MCCallTrace` | three functions, second traces of up to six events, up to one call in the first | 825 528 | `TreeIsTrace`, `WeightsAddUp`, `ReportedAreTopmost`, `Termination` |
| `mpi_substitute` | `MCStoreInstrumentation` | every function of two blocks with up to three stores of four kinds | 442 374 | `RunsAsBefore` (refinement of `PlainExecution`), `ChangesAreAnnounced`, `TypeOK` |

**Why the bounds are enough.** Two pointers and two objects let loads and
stores turn objects into copy targets, copies form cycles through objects, and
merged nodes merge again in a later round. Calling x passes a pointer to itself
and may enable y, so a resolution depends on an earlier one; with the budget at
0, one edge is resolved (the code tests with `>`) and the second is refused.
In `fields` a cycle that adds an offset is found before and during a wave, an
object with contents is collapsed when a load is handled late, and the opaque
object is what collapsing must leave alone without asking for another wave. In
`flowsensitive` the second store has no target at first, then a strong one, then
several; calls change operands and edges and may make a target weak. `svfgopt`
has joins that feed each other, self cycles, parallel edges, and calls on one or
both sides of a join; the formal-in of the program's entry is reached by a global initializer
alone, or by one and by a call, and is or is not what the next call or the return passes on. Four nodes hold two nested cycles, two components one
after the other, and cross edges into finished components; four blocks hold loops
with two entries, blocks that cannot be reached and functions that never
return. Two stores in one block split a block
that was split before, loops enter a split block again, and a store of the
indicator's address into the indicator is instrumented twice. Six events give nesting of depth
three, two siblings with a nested call, cut-off traces and unmatched leaves.

**Bounds by name.** `MaxTrace` and `MaxCount` bound `CallTrace`;
`IndirectCallLimit` is the code's own option. The solvers need no bound.

**Fairness.** Each program is one thread that does not block, so `WF_vars(Next)`
is all that is assumed where termination is checked: as long as a step is possible one is taken. Which node of
the worklist comes next is not assumed. The disjuncts `Terminated`, `Returned`
and `Exited` let a finished program stutter, so that deadlock stays checked.
`MemRegions` and `MemSSA` state no fairness: only what they have when they end is of
interest.

**Type invariants.** Those of the modules with proofs are proved; that of
`StoreInstrumentation` is also run. The `TypeOK` of the other modules documents
the types; no run lists it.

### What the runs found

`wavediff_merge` shows that `AndersenWaveDiff` (and `AndersenWave`, which shares
the code) can stop before the load and store rules of its own comments
(Andersen.cpp:138-141 and 157-160) hold. For `a = &x; b = &y; b = a; a = *a;
*a = b` the first wave turns the load and the store into copies x to a and b to x,
which close a cycle a, b, x. The second wave merges it; if a becomes the
representative it gains y, but `mergeNodeToRep` pushes nothing, and
post-processing looks only at the worklist. The analysis ends with `a` pointing to
y and y pointing nowhere. The standard solver does not have the problem: it
processes loads and stores of every representative in each round, and `Soundness`
below proves it. `DoneHandledUnmerged` states exactly how far the promise
still holds in `AndersenWaveDiff`: for loads and stores at nodes never merged.

`memregions_recursion` shows that effects of mutually recursive functions get
lost. `modRefAnalysis` pushes the calling function (MemRegion.cpp:516), but
only the representative of a component has its members as sub-nodes, so popping
another member handles nothing. With f and g calling each other, main's call
of f is not said to modify what g stores to, if g represents both and f has no
accesses of its own: f is pushed when its call of g changes, and is not handled. `DoneIsClosedAtReps` states what is left of the promise.

Four more defects came up in `FieldWave`. No run is spent on them; `FieldDoneIsClosed`
and `CollapsedAreWhole` are stated so as to leave them out, and each was seen
to fail when it was let in:

* Of two gep edges with different offsets that merging brings between the same
  nodes, `addNormalGepCGEdge` keeps one (ConsG.cpp:178). `Sole` excludes them.
* `moveInEdgesToRepNode` asks a deleted edge for its offset (ConsG.cpp:403). The
  outcome is whatever the freed memory says. An allocator like glibc's overwrites
  at most its first two words, which hold the table of virtual functions and the source node,
  so kind and offset read as they were: `Misread` = {FALSE}, as in the run. With an allocator
  that overwrites more, `Misread` = BOOLEAN, a cycle may not be marked and its
  pointers miss fields. `Cyclic` excludes the edges within such cycles.
* A single-field object can be marked field-insensitive, but `collapseField`
  returns early for it (Andersen.cpp:331), so pointers to its field and to the whole
  are told apart. `Has` takes the two for one.
* A field without pointers in its type is skipped by `processLoad` and `processStore`
  (Andersen.cpp:147), so a load at `u = &s.f` gets no copy edge. When s is collapsed,
  `collapseField` puts the whole of s in the place of the field and pushes nothing;
  post-processing looks only at the worklist, so that what is stored in s never
  reaches the load, although `u` now points to s. `Mixed` excludes such objects.

A limit of the chain cache shows in the premise of `ChainsAreComplete`: if objects
point to each other in a cycle, a set that is still being collected is read
from the cache (MemRegion.cpp:430), and what is returned depends on where the
search started.

`-mpi-substitute` also instruments stores in which the indicator is the value
and not the address (MPI.cpp:343), so `call_kill` may be called although the indicator
does not change. What holds is `ChangesAreAnnounced`: no change goes
unannounced, as long as the indicator is stored to by name.

## Proofs

All theorems are checked by TLAPS.

### `Andersen`

For every finite or infinite set of programs, every number of
nodes and every budget, under `GraphAssumption` only (objects are nodes, opaque
objects are objects, the limit is a natural number, programs are well formed):

| theorem of `Andersen_proofs` | statement |
|---|---|
| `TypeCorrect` | `Spec => []TypeOK` |
| `RepresentativesAgree` | `Spec => []RepSubsAgree` |
| `EdgesStayAtRepresentatives` | `Spec => []EdgesAtRepresentatives` |
| `Soundness` | `Spec => []DoneIsSolution` |
| `Precision` | `Spec => []NeverSpurious` |
| `Growth` | `Spec => PointsToGrows` |
| `Implementation` | `BudgetSuffices` implies `Spec => ImplementsInclusionAnalysis` |

*Well-formedness.* `TypeOK /\ GraphInv /\ FreshInv` is inductive. `GraphInv` says
the maps agree and every edge has representatives at both ends; the merge step
needs both at once, because edges are moved by `root`, which is the
identity on dead nodes only since they have no edges. `FreshInv` says nothing
is merged before the address constraints are in.

*Soundness.* `DoneIsSolution` says nothing before the end, so the invariant
`SoundInv` has two parts. `ConstraintsKept`: every constraint of the program, and
every parameter copy of a resolved call, has its edge between the current
representatives, or its ends are merged. `RestSaturated`: while solving, every
representative that is neither on the topological stack nor on the worklist is
saturated, that is, what it points to is in the targets of its copy edges, and its
loads and stores have a copy edge for each object. At the end stack and worklist
are empty, so every representative is saturated and every constraint holds.

*Precision.* For a fixed solution T, `PreciseInv` keeps every representative below
T, for all nodes it stands for, and keeps T equal on merged nodes. The merge
step is the heart of it: a copy edge implies inclusion in T, so the set of nodes
whose T contains a given object is closed under the edges, and nodes in one
component lie in the same closed sets (`StronglyConnected`).

*Implementation.* Init maps to Init; the last call update with no new call is
`Finish`, which needs `DoneIsSolution` with all calls resolved, hence
`BudgetSuffices`; every other step is `Derive` or a stutter, by `Growth` and
`Precision` in the next state.

`ConstraintGraph_proofs` has the lemmas about `RootMaps`, merging and calls
these rest on.

### `AndersenWaveDiff`

Under the same assumption:

| theorem of `AndersenWaveDiff_proofs` | statement |
|---|---|
| `TypeCorrect` | `Spec => []TypeOK` |
| `Propagation` | `Spec => []PassedOnHasArrived` |
| `Caching` | `Spec => []CachedIsConnected` |
| `Precision` | `Spec => []NeverSpurious` |
| `Closure` | `Spec => []DoneIsClosed` |
| `UnmergedComplete` | `Spec => []DoneHandledUnmerged` |

`DoneIsSolution` cannot be proved: `wavediff_merge` violates it. The last two
theorems are what is left of it.

*Propagation.* `PropaInv` adds to `PassedOnHasArrived` that no node has passed on
more than it has. A merged node starts from what all members had passed on
(an intersection), so that the invariant survives a merge, and a new edge is
filled with all of its source before it counts.

*Caching.* The cache of a moved edge is emptied, so a cached object always
belongs to an edge at nodes that kept their names, and its copy edge is moved
with the merge (`CacheOfOldEdge`).

*Closure.* A wave goes through the components in topological order. `WaveInv` says
that a representative outside the stack has passed everything on, that no copy
edge leads from the stack to a node outside of it, and that at the end nothing
asks for another round. With `PropaInv` every copy edge then holds.

*UnmergedComplete.* `HandledInv`: loads and stores of a node that was never merged
are connected, unless the node is on the worklist or the edge is about to be
handled. A merge keeps this only for nodes that are not touched by it, which is
where the theorem has its restriction from.

### `FieldWave`

For every set of programs, every set of objects with any numbers of fields, every
order in which nodes are merged and either reading of deleted edges. `FieldAssumption` asks
that the nodes are finitely many, that a program's text names no field nodes, and
that it has at most one gep edge for each pair of nodes and none from a node to itself;
`PAGBuilder` gives every gep instruction a value of its own and fields are only
found by the solver. The proofs are in `AndersenWaveDiff_proofs`.

| theorem of `AndersenWaveDiff_proofs` | statement |
|---|---|
| `FieldTypeCorrect` | `FieldSpec => []FieldTypeOK` |
| `Collapsing` | `FieldSpec => []CollapsedAreWhole` |
| `FieldClosure` | `FieldSpec => []FieldDoneIsClosed` |

*Merging.* `Merges` folds `MergeNodeToRep` over a list, in any order, and a merge drops
gep edges that the next would have moved. `MergesInduct` is induction over such a list: a
property that holds of nothing merged, and goes from a set of merged pairs to one with
one more pair, holds of the result. (`FoldExists` supplies a function that
gives the fold for each set of positions, which the definition of the library's fold, a CHOOSE,
then is shown to be.) With it, `MergesGood` says what any order leads to: edges at
representatives, one gep edge for each pair, each pair's node at its new representative,
and no object in a points-to set that was in none before.

*FieldTypeCorrect.* `FieldFormInv` adds to the types that edges of all five kinds join
representatives, and that collapsing goes on only in a wave that has not come to loads and
stores; the latter is why a pending load never refers to an edge that a collapse has moved.

*Collapsing.* `CollapsedInv` says it of the representatives themselves. A merge keeps
equal representatives equal (`RepsStayEqual`), a gep leads to no field of a marked object
(`HandedIsWhole`), and an object marked by a variant gep edge is among those still to
collapse, so that the claim is not made of it too early.

*FieldClosure.* The inductive invariant is `FieldClosedInv`, that is `FieldFormInv`,
`CollapsedInv` and two more. `FieldKeptInv` holds at all times:

* `ArrivedInv`, in the place of `PropaInv`: what a node has passed on has arrived at the
  targets of its copy, gep and variant edges, where `Reaches` counts an object as arrived
  also if the whole of it has and it is waiting to be collapsed. Objects that a collapse
  took away (`Gone`) are left out: they stay in what was passed on and in no points-to set.
* `FieldKept`: each constraint of the program is still an edge at representatives, or its ends
  were merged; for a gep edge that is gone, its node is then marked as a positive-weight
  cycle, unless its offset is 0, it was not the only one or a deleted edge was misread. `PwcAtReps` keeps
  those marks at representatives, where the solver asks for them.
* `FieldCaches`, `FieldLoads`, `FieldStores`, in the place of `HandledInv`. A collapse moves
  edges without pushing a node, so these are about objects that are not `Mixed`.
* `FieldsUsed`: a field that no node points to has no edges and was never merged. A
  collapse asks for another wave only if some points-to set changed. If none did, every field
  it merged away is such an untouched one, and the merge moves nothing.

`FieldWaveInv` says how far the wave has come, as long as nothing has asked for
another. A node that is not ahead has given all it points to, and at a mark everything it
points to is being collapsed or has been (`WavePassed`); no edge leads from a node ahead to
one behind (`WaveOrder`). Ahead are the nodes of the stack and the one in hand (`current`),
which has left the stack but passes nothing on until the objects it points to are
collapsed. A collapse in between can change the points-to sets of nodes behind: then
`reanalyze` is set and nothing is claimed until the next wave. If it changes none, `FieldsUsed`
says that it moved no edge either, so that what is behind stays so. At the end no node is
ahead and nothing is left to collapse; "arrived, or will be the whole" is then `Has`.

The steps that merge, cycle detection and collapse, share one argument: `MergesTo` says
what any order of merging makes of the graph, and `MergeKeepsAll` derives `FieldKeptInv` from it.

### `FlowSensitive`

For every set of value-flow graphs that are well formed (`GraphAssumption`) and
every order in which nodes are processed. Nodes, variables and objects are finite
(`FiniteAssumption`), which only `LeastSolution` uses:

| theorem of `FlowSensitive_proofs` | statement |
|---|---|
| `TypeCorrect` | `Spec => []TypeOK` |
| `Marks` | `Spec => []MissingIsMarked` |
| `Solution` | `Spec => []DoneIsSolution` |
| `Precision` | `Spec => []PreciseInv` |
| `LeastSolution` | `Spec => []DoneIsLeast` |

The inductive invariant of the first three is `GraphInv /\ MissingIsMarked /\
NodesInv /\ ResultInv`. `GraphInv` is `TypeOK` with two facts about the growing
graph: a node keeps the operands it started with, and no edge waits to be
propagated along while nodes are processed. `MissingIsMarked` is what lets a node
look only at marked objects: whatever an edge, load or store has still to carry
is marked. `NodesInv` says that a node that is not pending has its equation
holding; here the case that needs care is a store whose target set grows, which
is processed again because it uses its pointer. `ResultInv` says that at the end
nothing is pending and no call is new, so that all equations hold.

*Precision.* `PreciseInv` bounds the state by every solution S in which each
store overwrites if S itself says it is strong. The transfer of a store is not
monotone in the targets of its pointer: no target lets nothing pass, one target
overwrites, two let everything pass. What is needed is weaker. The sets of the
analysis lie below those of S, so that a store that S calls strong has, in the
analysis, no target or the same one, and passes no more than S lets pass. The
graph, the operands and the recursive functions only grow (`GraphGrows`), so
every solution of the later graph is one of the earlier graph.

*LeastSolution.* `Least` iterates the equations, with the stores taken as strong
that are strong in the result, as often as there are facts. Each round
changes nothing or adds a fact (`AddsFacts`), so `Least` is a solution of them. It
lies below the result, and thereby its stores are strong where those of the result are
(`SolutionBelow`): it is a solution in the sense of `PreciseInv`, and the result
lies below it too.

### `SVFGOPT`

For every graph in which calls and returns are where they can be and formal-in
nodes have no other edges into them than those from stores, as
`connectFromGlobalToProgEntry` adds them at the program's entry (`GraphAssumption`), with finitely many nodes (`NodeAssumption`), and every order
of removals:

| theorem of `SVFGOPT_proofs` | statement |
|---|---|
| `TypeCorrect` | `Spec => []TypeOK` |
| `Removability` | `Spec => []StillRemovable` |
| `Preservation` | `Spec => []FlowIsPreserved` |
| `LaterCalls` | `Spec => []LaterCallsAreConnected` |

The inductive invariant of the first two is `TypeOK /\ PhaseInv /\ InterInv /\
WorklistInv`. The heart is `InterInv`: calls and returns leave only actual-in and
formal-out nodes and the definitions recorded for them. A node on the worklist is
not such a definition, so no call or return leaves it:
`isConnectingTwoCallSites`, which the code tests next to `isDefOfAInFOut`, decides
nothing there, and no removal changes that. Nor does a call or return leave a formal-in
or actual-out that is removed (`RemovedLeavesNoCalls`). This is why
`retargetEdgesOfAOutFIn` may give a joined edge the context of the incoming edge alone: without
the test of `isDefOfAInFOut`, the edge of an initializer into the entry's formal-in would take the
place of a call. `FlowIsPreserved` fails then, and in graphs without initializers it does not.

*Preservation and LaterCalls.* What flows is compared as paths labelled with their calls and
returns, and a removal replaces paths by shorter ones. `Reach` is shown to be the
least set closed under the edges, so a flow is preserved if a set closed under
the edges of one graph gives a closed set of the other. `DefInv` says that the
recorded definitions are the right ones and stay; `EdgesInv` that an actual-in
or formal-out not visited yet has the edges it had. For later calls the same
argument runs on the graph together with the connections still to come
(`LaterInv`): a self cycle that is dropped, or a definition that is passed over, must
not be missed by them either.

### `SCCDetection`

For every set of graphs on numbered nodes (`SCCAssumption`) and every order of
children:

| theorem of `SCCDetection_proofs` | statement |
|---|---|
| `TypeCorrect` | `Spec => []TypeOK` |
| `Completeness` | `Spec => []CompleteIsComponent` |
| `Order` | `Spec => []RootsAreTopological` |
| `RootMap` | `Spec => []DoneIsRootMap` |
| `Cycles` | `Spec => []CycleQueriesAreExact` |

The components are those of `StronglyConnected`, by closed sets: m is reached from n
if every closed set with n has m. The inductive invariant has nine
conjuncts, in three groups. `NumberInv` and `StackInv`: visited nodes are on
the call stack, wait on `SS` or are complete, numbers order the first two, and
each call reaches those above it. `WaitingInv`, `RootInv` and `LowInv`: a waiting node
reaches a node on the call stack visited before it; a candidate root is in the
component of its node, and is as early as everything the edges used so far
lead to. `SubInv`, `ComponentInv` and `OrderInv` say what is complete is exact. The step that
matters is the return of a node that is its own candidate root: by `LowInv`, the node with
what it pops and what was complete before is closed, so the component is
not larger, and by `RootInv` and `WaitingInv` it is not smaller. `LowInv` has an exception for
the child whose result has not been used yet: this is the one moment in which
the candidate root of the caller is behind.

### `StoreInstrumentation`

For every set of functions whose branches stay in the function
(`FunctionsAssumption`), every memory and every order of instrumentation:

| theorem of `MPITools_proofs` | statement |
|---|---|
| `TypeCorrect` | `Spec => []TypeOK` |
| `Refinement` | `Spec => RunsAsBefore` |
| `Announcement` | `Spec => ChangesAreAnnounced` |

The invariant has a part about the code built, `CodeInv`, and one about its
run. `FlowInv` says where every inserted terminator leads: a check to a call of `call_kill`
and, past it, to the same block, which starts with the store checked. `UniqueInv`
and `FrontInv` say that a store is in one place and, once instrumented, the
first of its block, so that a later split cannot separate it from its check.
`CountInv` and `OrderInv` count the calls before a store that is instrumented
twice. `RunInv` says that behind a check the store changes nothing or has been
announced. `TypeOK` bounds how often a change is announced, which is why counting
is needed.

### `MemRegions`

For every set of well-formed programs (`ProgramAssumption`), with finitely many
functions and objects (`FiniteAssumption`), every order of the search, of the
calls and of the functions partitioned:

| theorem of `MemRegions_proofs` | statement |
|---|---|
| `TypeCorrect` | `Spec => []TypeOK` |
| `RepresentativesClosed` | `Spec => []DoneIsClosedAtReps` |
| `Chains` | `Spec => []ChainsAreComplete` |
| `NothingSpurious` | `Spec => []NeverSpurious` |
| `Partition` | `Spec => []DefsMeetUses` |

`FormInv`, the types with what each phase leaves alone, is part of every
invariant below. `DoneIsClosed` cannot be proved: `memregions_recursion` violates it.

*RepresentativesClosed.* `SpreadInv`: a call has the effects of its callee, unless
the callee waits on the worklist, among the members popped or among the calls of
the current one; and what a call has, its caller has. The case that needs care
is a recursive call, whose caller is the callee: its effects grow while they are
passed on, and then it is pushed again. The invariant speaks of representatives
only, because nothing puts another member on the worklist and has it handled.

*Chains.* `ChainInv` relates the calls on the stack of `CollectPtsChain`: each object
is reached from all below it, and nothing is collected that is not. `CompleteInv`
says, without cycles, that a cached object is on the stack or complete, and that a
call on the stack has what is behind the objects it has handled. A cached object that
a call meets is not on the stack, or it would lead back to itself; so what is
taken from the cache is complete. With a cycle this is the step that fails.

*NothingSpurious.* `OriginInv` traces effects to stores; `ChainInv` bounds what the
caller can get at.

*Partition.* `computeIntersections` is proved about as a loop over the list of
regions (`CutInv`, `IntersectionsAre`): what was made up of regions still is, and the
new set is too. `PartitionInv` says so of all sets that have entered. Disjointness
rests on the order of the sets: one of a single object is added as it is, without
being cut, which is right only because the sets before it had a single object
too (`SingleIsApart`).

### `MemSSA` and `StephenPass`

`MPITools_proofs` has the tools around the analysis: the instrumentation above, and the
consumers of its results that follow. (The names in `MemSSA` and `CallTrace` differ
from those in `StoreInstrumentation` so that one module can extend all three.)

For every set of functions, finite in blocks, in which nothing goes back to the entry
block and at most one block returns (`BodiesAssumption`; the first is checked by
LLVM's verifier, the second is what `UnifyFunctionExitNodes` makes), any regions,
any reads and writes, and every order of phis and of children in the walk:

| theorem of `MPITools_proofs` | statement |
|---|---|
| `SSATypeCorrect` | `SSASpec => []SSATypeOK` |
| `SSAVersions` | `SSASpec => []VersionsAreReachingDefs` |
| `ChangedRegions` | `SSASpec => []ChangedIsExact` |

`VersionsAreReachingDefs` compares what a version stands for, through phis, with a
definition of reaching definitions that knows no dominators and no phis. The
inductive invariant `SSAInv` has four parts:

* `PlacingInv`: whatever defines a region, phis included, waits in `todo` or has phis on
  its whole frontier; and a phi stands only where some chi reaches.
* `ReadsInv`, `WritesInv`: a version recorded at a point is the one that `Arrives`
  there, that is, the last one made before it in its block, or the last one made in the
  closest block above it in the dominator tree, or the entry's. No version is made twice.
* `FramesInv`: how far each call of `SSARenameBB` has got, and that what hangs below a
  child that is done is done too (`SubtreeNamed`).
* `StacksInv`: for each region there are heights (`Heights`), one for each active
  call, at which its stack has the version the block of the call inherited. They
  say that popping `memRegs` versions restores the stack of the caller exactly.

*Dominance* is by the blocks reached when one is taken away (`Avoiding`), so its laws, a
tree in which any two dominators of a block are comparable, come out of closed sets and
not of paths. The sets the model computes by iteration are shown to be the least
closed ones (`ClosureIs`).

*SSAVersions* rests on the lemma about frontiers: a block without a phi for a region
gets the version it inherits from all its predecessors (`EndOfBefore`). Were there a
definition above a predecessor but not above the block, the block would be on its
frontier and have a phi. Two inclusions follow. Nothing is invented
(`StandsForReaching`): the versions all of whose definitions reach the point
(`MadeFrom`) are closed under going from a phi to its operands. No path is missed
(`ReachingStandFor`): at every block from which the point is reached without a
chi, one of the versions behind that of the point arrives.

*ChangedRegions.* `checkUnchanged` looks for version 1 at the return. A version other
than 1 stands for some chi: it is a chi's result, or a phi's, and a phi stands only where a chi
reaches (`OtherStandsForChi`). Version 1 stands for nothing else than the entry.

### `CallTrace`

For every pair of traces, of any length, over any number of functions:

| theorem of `MPITools_proofs` | statement |
|---|---|
| `CallTraceTypeCorrect` | `CallSpec => []CallTypeOK` |
| `CallTreeIsTrace` | `CallSpec => []TreeIsTrace` |
| `CallWeightsAddUp` | `CallSpec => []WeightsAddUp` |
| `CallsReportedAreTopmost` | `CallSpec => []ReportedAreTopmost` |

The inductive invariant is `CallTypeOK /\ TreeInv /\ SearchInv`. `TreeInv` is about
reading the trace: a complete call has as its tree the events from its entry to its
leave, the calls on the stack are those not left yet, one inside the other, and a
function that was left had been entered. `SearchInv` is about `bfs`. `QueueInv`: the
extents of the calls queued and reported are disjoint. `LevelInv`: the queue is
ordered by depth, with at most two levels in it, and no call of a reported function is
higher in the tree.
`WeightInv`: names left in the set and weights reported add up to the number of candidates, and
every call of a name still in the set is below some queued call. The last is what makes
the sum complete when the queue runs empty: a name is removed with the first
call found, together with all names below that call, so none is counted twice and
none is lost.

### Only model-checked

* Termination of the solvers, of the reduction, of SCC detection and of the trace
  comparison: liveness is outside TLAPS.
* `FieldWave`: that the result contains nothing a solution does without (`Precision`) is
  not stated for it, since a collapse adds to points-to sets what no constraint asks for.
* The two properties of the code's comments that runs refute, and `FieldTermination`.
* The finiteness of `phis` and of the versions given out, on which termination of
  `MemSSA` would rest: no run asks for it.

Induction over naturals and over finite sets is available in the proofs only in the
form "a set of naturals that has 0 and with i also i + 1 is Nat", or as the least or
greatest element of a set; it carries `Reach`, `Least`, `ClosureIs`, the sums of weights and
the loop of `computeIntersections` above.

## Not modelled, and why

* Most of the repository's lines are the vendored BDD library (`lib/CUDD`,
  `include/CUDD`), third-party code that only the path conditions of SABER use;
  and the translation of LLVM IR into a graph (`PAGBuilder`, `SymbolTableInfo`),
  whose result the modules take as input.
* SABER: slicing and path conditions. The verdict is that of the BDDs.
* Offsets computed from types (`LocationSet`) and negative offsets; objects of
  `FieldWave` have a fixed number of fields, whose nodes exist from the start.
* Building the edges of the value-flow graph from memory SSA, and the PHI nodes
  that replace parameters and returns of top-level variables.
* In the Stephen pass, the choice among the variables of a changed region.
* The option `-ci-svfg`, under which `SVFGOPT` gives its edges no context.
* What `instrumentStoreInstruction` returns: it is declared `bool`, has no return
  statement, and its caller ignores the result (MPI.cpp:252, 389). It is taken to return;
  a compiler may do otherwise, since this is undefined.
* Virtual calls, AndersenLCD (unfinished by its own comment), thread API and
  thread call graph, the trace parser, statistics and printing.

## Plan

Done: the constraint solvers with and without fields, SCC detection, the
flow-sensitive analysis, memory regions, memory SSA, the reduction of the
value-flow graph, the Stephen pass's comparison, the trace tool and the store
instrumentation; the proofs above.

Left open: the edges that
`SVFG` builds from memory SSA, which would compose `MemSSA` with `SVFGOPT` and
`FlowSensitive`; and SABER's slices.
