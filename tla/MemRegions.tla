----------------------------- MODULE MemRegions -----------------------------
(***************************************************************************)
(* The memory regions of memory SSA, class MRGenerator: which objects each *)
(* call may read and modify, and the regions at loads, stores and calls.   *)
(*                                                                         *)
(* generateMRs collects what global variables lead to, the effects of the  *)
(* loads and stores of every function, and what the arguments of every     *)
(* call lead to (CollectPtsChain, which caches its results).  It then      *)
(* passes the effects of functions to their calls with a worklist of call  *)
(* graph nodes, and partitions the objects of each function.  The call     *)
(* graph and its components are those of the pointer analysis.  An object  *)
(* stands for itself and its fields.                                       *)
(***************************************************************************)
EXTENDS MemPartition

CONSTANTS
  Fun,
  CallSite,
  Obj,
  Globals,   \* stands for the variable allGlobals: see chain
  Whole,     \* stands for the region list of the whole program: see inters
  Programs

ASSUME NamesAssumption ==
  /\ Globals \notin Obj \cup CallSite /\ Obj \cap CallSite = {}
  /\ Whole \notin Fun

ASSUME FiniteAssumption == IsFiniteSet(Fun) /\ IsFiniteSet(Obj)

ASSUME ProgramAssumption ==
  \A p \in Programs :
    /\ p.caller \in [CallSite -> Fun] /\ p.callees \in [CallSite -> SUBSET Fun]
    /\ p.args \in [CallSite -> SUBSET Obj] /\ p.points \in [Obj -> SUBSET Obj]
    /\ p.home \in [Obj -> Fun \cup {"global", "heap"}]
    /\ {p.stores, p.loads} \subseteq [Fun -> SUBSET SUBSET Obj]
    /\ p.partition \in {"distinct", "intra", "inter"}

VARIABLES
  prog,       \* caller and callees of call sites, args (what the arguments
              \* point to), points (what objects point to), home (the function
              \* whose stack has the object, "global" or "heap"), stores and
              \* loads (sets of points-to sets) of functions, partition
  phase,      \* "globals", "sites", "modref", "partition" or "done"
  chain,      \* cachedPtsChainMap, csToCallPtsMap and allGlobals
  cached,     \* the objects cachedPtsChainMap has
  calls,      \* the active calls of CollectPtsChain, outermost first
  sites,      \* call sites still to be collected
  rep,        \* the components of the call graph
  worklist,   \* FIFO of call graph nodes
  members,    \* functions of the popped node still to be handled
  edges,      \* and the calls of the current one
  funMods, funRefs, siteMods, siteRefs,
  inters,     \* the regions so far, by function or of the whole program
  todo        \* funToPointsToMap still to be partitioned

collecting == <<chain, cached, calls, sites>>
spreading  == <<rep, worklist, members, edges>>
effects    == <<funMods, funRefs, siteMods, siteRefs>>
dividing   == <<inters, todo>>
vars       == <<prog, phase, collecting, spreading, effects, dividing>>

S == INSTANCE StronglyConnected WITH Node <- Fun
O == INSTANCE StronglyConnected WITH Node <- Obj

CallEdges == {e \in Fun \X Fun :
                \E s \in CallSite : prog.caller[s] = e[1] /\ e[2] \in prog.callees[s]}

TypeOK ==
  /\ prog \in Programs
  /\ phase \in {"globals", "sites", "modref", "partition", "done"}
  /\ chain \in [Obj \cup CallSite \cup {Globals} -> SUBSET Obj]
  /\ cached \subseteq Obj /\ sites \subseteq CallSite /\ members \subseteq Fun
  /\ calls \in Seq([of : DOMAIN chain, left : SUBSET Obj])
  /\ rep \in [Fun -> Fun] /\ worklist \in Seq(Fun) /\ IsInjective(worklist)
  /\ edges \subseteq Fun \X CallSite
  /\ {funMods, funRefs} \subseteq [Fun -> SUBSET Obj]
  /\ {siteMods, siteRefs} \subseteq [CallSite -> SUBSET Obj]
  /\ inters \in [Fun \cup {Whole} -> SUBSET SUBSET Obj]
  /\ todo \in [Fun -> SUBSET SUBSET Obj]

-----------------------------------------------------------------------------
(* isNonLocalObject; a self call makes a function recursive.               *)
IsRecursive(f) == <<f, f>> \in CallEdges \/ Cardinality(S!Components(CallEdges)[f]) > 1

isNonLocalObject(o, f) ==
  prog.home[o] \in {"global", "heap"} \/ prog.home[o] # f \/ IsRecursive(prog.home[o])

NonLocal(objs, f) == {o \in objs : isNonLocalObject(o, f)}

(* collectModRefForLoadStore, addCPtsToStore and addCPtsToLoad are done:   *)
(* they need nothing the other steps compute.                              *)
Init ==
  /\ prog \in Programs
  /\ phase = "globals"
  /\ chain = [n \in Obj \cup CallSite \cup {Globals} |-> {}]
  /\ cached = {}
  /\ calls = <<[of |-> Globals, left |-> {o \in Obj : prog.home[o] = "global"}]>>
  /\ sites = CallSite
  /\ rep = [f \in Fun |-> f]
  /\ worklist = <<>> /\ members = {} /\ edges = {}
  /\ funMods = [f \in Fun |-> NonLocal(UNION prog.stores[f], f)]
  /\ funRefs = [f \in Fun |-> NonLocal(UNION prog.loads[f], f)]
  /\ siteMods = [s \in CallSite |-> {}]
  /\ siteRefs = [s \in CallSite |-> {}]
  /\ inters = [f \in Fun \cup {Whole} |-> {}]
  /\ todo = [f \in Fun |-> {}]

-----------------------------------------------------------------------------
(* CollectPtsChain, called for what globals, arguments and objects lead to *)
Current == calls[Len(calls)]
Visited(o) == [calls EXCEPT ![Len(calls)].left = @ \ {o}]

CollectCached ==
  /\ calls # <<>>
  /\ \E o \in Current.left \cap cached :
       /\ chain' = [chain EXCEPT ![Current.of] = @ \cup chain[o]]
       /\ calls' = Visited(o)
  /\ UNCHANGED <<prog, phase, cached, sites, spreading, effects, dividing>>

CollectNew ==
  /\ calls # <<>>
  /\ \E o \in Current.left \ cached :
       /\ chain' = [chain EXCEPT ![o] = {o}]
       /\ cached' = cached \cup {o}
       /\ calls' = Append(Visited(o), [of |-> o, left |-> prog.points[o]])
  /\ UNCHANGED <<prog, phase, sites, spreading, effects, dividing>>

(* Faulty: the result is cached but not returned.                          *)
AddedToNone(n, upper) == chain

(* pts |= CollectPtsChain(n) in the call above                             *)
AddedTo(n, upper) == [chain EXCEPT ![upper.of] = @ \cup chain[n]]

CollectReturn ==
  /\ Len(calls) > 1 /\ Current.left = {}
  /\ chain' = AddedTo(Current.of, calls[Len(calls) - 1])
  /\ calls' = Front(calls)
  /\ UNCHANGED <<prog, phase, cached, sites, spreading, effects, dividing>>

(* collectGlobals or collectCallSitePts is done.                           *)
CollectDone ==
  /\ Len(calls) = 1 /\ Current.left = {}
  /\ calls' = <<>>
  /\ phase' = "sites"
  /\ UNCHANGED <<prog, chain, cached, sites, spreading, effects, dividing>>

collectCallSitePts ==
  /\ phase = "sites" /\ calls = <<>>
  /\ \E s \in sites :
       /\ calls' = <<[of |-> s, left |-> prog.args[s]]>>
       /\ sites' = sites \ {s}
  /\ UNCHANGED <<prog, phase, chain, cached, spreading, effects, dividing>>

-----------------------------------------------------------------------------
(* getCallGraphSCCRevTopoOrder: the representatives, callers first.  The   *)
(* nodes of the call graph are in a hash table, so that the search may     *)
(* enter a component at any member, whatever their numbers.                *)
TopoOrders(R) ==
  {w \in SetToSeqs(R) : \A i, j \in DOMAIN w : i < j =>
     ~\E e \in CallEdges : rep'[e[1]] = w[j] /\ rep'[e[2]] = w[i]}

StartModRef ==
  /\ phase = "sites" /\ calls = <<>> /\ sites = {}
  /\ rep' \in S!RootMaps(CallEdges)
  /\ worklist' \in TopoOrders({rep'[f] : f \in Fun})
  /\ phase' = "modref"
  /\ UNCHANGED <<prog, collecting, members, edges, effects, dividing>>

(* Pop a node and handle the members of its component; callGraphSCC has    *)
(* none at a node that is not a representative.                            *)
Pop ==
  /\ phase = "modref" /\ members = {} /\ edges = {} /\ worklist # <<>>
  /\ members' = {f \in Fun : rep[f] = Head(worklist)}
  /\ worklist' = Tail(worklist)
  /\ UNCHANGED <<prog, phase, collecting, rep, edges, effects, dividing>>

NextMember ==
  /\ edges = {}
  /\ \E f \in members :
       /\ members' = members \ {f}
       /\ edges' = {f} \X {s \in CallSite : f \in prog.callees[s]}
  /\ UNCHANGED <<prog, phase, collecting, rep, worklist, effects, dividing>>

(* getGlobalsAndHeapFromPts                                                *)
GlobalsAndHeap(objs) == {o \in objs : o \in chain[Globals] \/ prog.home[o] = "heap"}

(* Faulty: the effects of the callee are taken over whatever the call      *)
(* passes to it.                                                           *)
SeenByAll(objs, s) == objs

(* What the caller sees of the effects of a call.                          *)
SeenBy(objs, s) == (objs \cap chain[s]) \cup GlobalsAndHeap(objs)

(* refchanged || modchanged                                                *)
Changed(s, mods, refs) == ~(refs \subseteq siteRefs[s]) \/ ~(mods \subseteq siteMods[s])

(* Faulty: the order of the worklist is trusted to have callees first.     *)
PushedNever(c, changed) == worklist

Pushed(c, changed) == IF ~changed \/ Contains(worklist, c) THEN worklist ELSE Append(worklist, c)

(* modRefAnalysis, one call: addRefSideEffectOfCallSite, add-              *)
(* ModSideEffectOfCallSite                                                 *)
modRefAnalysis ==
  \E e \in edges :
    LET s    == e[2]
        c    == prog.caller[s]
        mods == SeenBy(funMods[e[1]], s)
        refs == SeenBy(funMods[e[1]] \cup funRefs[e[1]], s)
    IN  /\ siteMods' = [siteMods EXCEPT ![s] = @ \cup mods]
        /\ siteRefs' = [siteRefs EXCEPT ![s] = @ \cup refs]
        /\ funMods' = [funMods EXCEPT ![c] = @ \cup NonLocal(mods, c)]
        /\ funRefs' = [funRefs EXCEPT ![c] = @ \cup NonLocal(refs, c)]
        /\ worklist' = Pushed(c, Changed(s, mods, refs))
        /\ edges' = edges \ {e}
        /\ UNCHANGED <<prog, phase, collecting, rep, members, dividing>>

-----------------------------------------------------------------------------
(* addCPtsToCallSiteRefs and -Mods: funToPointsToMap is complete.          *)
Defs(f) == prog.stores[f] \cup {siteMods[s] : s \in {t \in CallSite : prog.caller[t] = f}}
Uses(f) == prog.loads[f] \cup {siteRefs[s] : s \in {t \in CallSite : prog.caller[t] = f}}
CPts(f) == (Defs(f) \cup Uses(f)) \ {{}}

StartPartition ==
  /\ phase = "modref" /\ members = {} /\ edges = {} /\ worklist = <<>>
  /\ todo' = [f \in Fun |-> CPts(f)]
  /\ phase' = "partition"
  /\ UNCHANGED <<prog, collecting, spreading, effects, inters>>

ListOf(f) == IF prog.partition = "inter" THEN Whole ELSE f

Refined(regions, cpts) ==
  IF prog.partition = "distinct" THEN createDistinctMR(regions, cpts)
  ELSE computeIntersections(regions, cpts)

(* The functions one after the other, each set after the smaller ones.     *)
partitionMRs ==
  /\ phase = "partition"
  /\ \E f \in Fun : \E cpts \in todo[f] :
       /\ \A d \in todo[f] : Cardinality(cpts) <= Cardinality(d)
       /\ \A g \in Fun \ {f} : todo[g] \in {{}, CPts(g)}
       /\ inters' = [inters EXCEPT ![ListOf(f)] = Refined(@, cpts)]
       /\ todo' = [todo EXCEPT ![f] = @ \ {cpts}]
  /\ UNCHANGED <<prog, phase, collecting, spreading, effects>>

Finish ==
  /\ phase = "partition" /\ \A f \in Fun : todo[f] = {}
  /\ phase' = "done"
  /\ UNCHANGED <<prog, collecting, spreading, effects, dividing>>

(* createMR: the regions of a function                                     *)
FunMRs(f) ==
  IF prog.partition = "inter" THEN {r \in inters[Whole] : \E c \in CPts(f) : r \subseteq c}
  ELSE inters[f]

(* getAliasMemRegions, for stores and what calls modify                    *)
getAliasMemRegions(f, cpts) == {r \in FunMRs(f) : r \cap cpts # {}}

(* getMRsForLoad, for loads and what calls read                            *)
getMRsForLoad(f, cpts) ==
  IF prog.partition = "distinct" THEN {{o} : o \in cpts}
  ELSE {r \in inters[ListOf(f)] : r \subseteq cpts}

-----------------------------------------------------------------------------
Terminated == phase = "done" /\ UNCHANGED vars

Next ==
  \/ CollectCached \/ CollectNew \/ CollectReturn \/ CollectDone \/ collectCallSitePts
  \/ StartModRef \/ Pop \/ NextMember \/ modRefAnalysis
  \/ StartPartition \/ partitionMRs \/ Finish
  \/ Terminated

Spec == Init /\ [][Next]_vars

-----------------------------------------------------------------------------
Points == {e \in Obj \X Obj : e[2] \in prog.points[e[1]]}

(* The functions and objects reached from given ones, these included.      *)
MayRun(funs) == {f \in Fun : \A C \in S!ClosedSets(CallEdges) : funs \subseteq C => f \in C}
LeadTo(objs) == {o \in Obj : \A C \in O!ClosedSets(Points) : objs \subseteq C => o \in C}

(* Precision.  Whatever a call is said to modify is stored to somewhere in *)
(* a function the call may reach, and the caller can get at it.            *)
NeverSpurious ==
  \A s \in CallSite : \A o \in siteMods[s] :
    /\ \E f \in MayRun(prog.callees[s]) : o \in UNION prog.stores[f]
    /\ \/ prog.home[o] = "heap"
       \/ o \in LeadTo(prog.args[s] \cup {g \in Obj : prog.home[g] = "global"})

(* What arguments lead to is collected completely if no object leads back  *)
(* to itself; then the cache never has an unfinished result.               *)
ChainsAreComplete ==
  phase \in {"modref", "partition", "done"} /\ (\A o \in Obj : o \notin LeadTo(prog.points[o]))
  => \A s \in CallSite : chain[s] = LeadTo(prog.args[s])

ClosedAt(s, f) ==
  LET c == prog.caller[s]
  IN  /\ SeenBy(funMods[f], s) \subseteq siteMods[s]
      /\ SeenBy(funMods[f] \cup funRefs[f], s) \subseteq siteRefs[s]
      /\ NonLocal(siteMods[s], c) \subseteq funMods[c]
      /\ NonLocal(siteRefs[s], c) \subseteq funRefs[c]

(* At the end the effects of a function have reached its callers, and      *)
(* theirs, if the function represents its component: as every function     *)
(* does that is not mutually recursive.                                    *)
DoneIsClosedAtReps ==
  phase \in {"partition", "done"} =>
    \A s \in CallSite : \A f \in prog.callees[s] : rep[f] = f => ClosedAt(s, f)

(* MemRegion.cpp:206 and 494-495: "handle all sub scc nodes of this rep    *)
(* node", "Compute mod-ref of all callsites invoking this call graph node".*)
DoneIsClosed ==
  phase \in {"partition", "done"} =>
    \A s \in CallSite : \A f \in prog.callees[s] : ClosedAt(s, f)

(* Memory SSA connects a definition with a use by the regions they share:  *)
(* a load or call reads exactly the regions of its objects, and whatever   *)
(* it has in common with a store or call of the function lies in a region  *)
(* of both.  Within a function, regions are disjoint unless the partition  *)
(* is that of the whole program.                                           *)
DefsMeetUses ==
  phase = "done" =>
    \A f \in Fun :
      /\ \A u \in Uses(f) :
           /\ UNION getMRsForLoad(f, u) = u
           /\ \A d \in Defs(f) :
                d \cap u \subseteq UNION (getAliasMemRegions(f, d) \cap getMRsForLoad(f, u))
      /\ prog.partition # "inter" => \A q, r \in FunMRs(f) : q = r \/ q \cap r = {}

=============================================================================
