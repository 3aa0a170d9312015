--------------------------- MODULE MCOrchestrator ---------------------------
(* Instances of Orchestrator for TLC.                                         *)
EXTENDS Orchestrator, TLC

\* What classifyTask() makes of an implementation task.
MCRoles == <<"architect", "coder", "tester", "security", "reviewer">>

\* Coder, tester and reviewer claim one file, security another.
MCFilesByRole == [r \in {MCRoles[i] : i \in 1..Len(MCRoles)} |->
    CASE r \in {"coder", "tester", "reviewer"} -> {"f"}
      [] r = "security" -> {"g"}
      [] OTHER -> {}]

\* A team of two.
MCChain == <<"architect", "reviewer">>
MCChainFiles == [r \in {"architect", "reviewer"} |-> IF r = "reviewer" THEN {"f"} ELSE {}]
=============================================================================
