-------------------------- MODULE MCToolExecution --------------------------
(* Instances of ToolExecution for TLC.                                        *)
EXTENDS ToolExecution, TLC

\* Calls are interchangeable.
CallSymmetry == Permutations(Execs)
=============================================================================
