---- MODULE MCAndersen ----
(* Andersen on the programs of MCPrograms.                  *)
EXTENDS Andersen, MCPrograms
====
