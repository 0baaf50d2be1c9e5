---- MODULE MCAndersenWaveDiff ----
(* AndersenWaveDiff on the programs of MCPrograms.                  *)
EXTENDS AndersenWaveDiff, MCPrograms
====
