---------------------------- MODULE MemPartition ----------------------------
(***************************************************************************)
(* How the objects used in a function are partitioned into memory regions: *)
(* the classes DistinctMRG, IntraDisjointMRG and InterDisjointMRG.  A      *)
(* region is the set of objects it stands for.                             *)
(***************************************************************************)
EXTENDS FiniteSets, Naturals, SequencesExt

Smallest(R) == CHOOSE q \in R : \A s \in R : Cardinality(q) <= Cardinality(s)

(* Faulty: the part of the region outside the new set is lost.             *)
CutOff(acc, r) ==
  LET common == r \cap acc.rest
  IN  IF common = {} THEN acc
      ELSE [rest |-> acc.rest \ common, regions |-> (acc.regions \ {r}) \cup {common}]

(* One round of the loop of computeIntersections: a region that has        *)
(* something in common with what is left of the new set is split in two,   *)
(* unless it is contained in it.                                           *)
Cut(acc, r) ==
  LET common == r \cap acc.rest
  IN  IF common = {} THEN acc
      ELSE [rest    |-> acc.rest \ common,
            regions |-> IF common = r THEN acc.regions
                        ELSE (acc.regions \ {r}) \cup {common, r \ common}]

(* The loop goes through the list, ordered by size (cmpPts).               *)
Turn(before) ==
  LET next == Smallest(before.left)
  IN  [left |-> before.left \ {next}, cut |-> Cut(before.cut, next)]

(* computeIntersections; a set of one object is added as it is.            *)
computeIntersections(regions, cpts) ==
  IF cpts \in regions \/ Cardinality(cpts) = 1 THEN regions \cup {cpts}
  ELSE LET after[i \in 0 .. Cardinality(regions)] ==
             IF i = 0 THEN [left |-> regions, cut |-> [rest |-> cpts, regions |-> regions]]
             ELSE Turn(after[i - 1])
           done == after[Cardinality(regions)].cut
       IN  done.regions \cup ({done.rest} \ {{}})

(* createDistinctMR                                                        *)
createDistinctMR(regions, cpts) == regions \cup {{o} : o \in cpts}

=============================================================================
