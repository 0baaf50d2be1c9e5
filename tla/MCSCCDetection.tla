--------------------------- MODULE MCSCCDetection ---------------------------
(* SCCDetection on every graph with four nodes without self loops, and on  *)
(* every graph with three nodes.                                           *)
EXTENDS SCCDetection

SmallNodes == 1 .. 4

SmallGraphs ==
  SUBSET {e \in SmallNodes \X SmallNodes : e[1] # e[2]}
    \cup SUBSET ((1 .. 3) \X (1 .. 3))
=============================================================================
