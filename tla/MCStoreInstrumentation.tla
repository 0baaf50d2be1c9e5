------------------------ MODULE MCStoreInstrumentation ------------------------
(* Functions of two blocks, with up to two stores in the first and one in  *)
(* the second, to the indicator or to another variable; loops included.    *)
EXTENDS StoreInstrumentation

CONSTANTS ind, other, adr, old, new

Stores == [ptr : {ind}, val : {old, new, adr}] \cup [ptr : {other}, val : {adr}]

Upto(S, n) == UNION {[1 .. k -> S] : k \in 0 .. n}

SmallFunctions ==
  {<<f, g>> : f \in [stores : Upto(Stores, 2), next : {{2}, {1, 2}}],
              g \in [stores : Upto(Stores, 1), next : {{}, {1}, {1, 2}}]}

=============================================================================
