---------------------------- MODULE MCAgentLoop ----------------------------
(* Instances of AgentLoop for TLC.                                            *)
EXTENDS AgentLoop, TLC

\* Runs are interchangeable; not for a run that checks liveness.
RunSymmetry == Permutations(Runs)
=============================================================================
