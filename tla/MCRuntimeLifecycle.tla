------------------------- MODULE MCRuntimeLifecycle -------------------------
(* Instances of RuntimeLifecycle for TLC.                                      *)
EXTENDS RuntimeLifecycle, TLC

\* Runs are interchangeable; not for a run that checks liveness.
RunSymmetry == Permutations(Runs)
=============================================================================
