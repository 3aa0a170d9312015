------------------------------- MODULE MCTeam -------------------------------
(* Instances of Team for TLC.                                                 *)
EXTENDS Team, TLC

\* Runs are interchangeable.
TeamSymmetry == Permutations(Runs)
=============================================================================
