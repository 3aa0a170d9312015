-------------------------- MODULE MCTaskPersistence --------------------------
(* Instances of TaskPersistence for TLC.                                      *)
EXTENDS TaskPersistence, TLC
=============================================================================
