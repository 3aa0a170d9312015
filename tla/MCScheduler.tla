---------------------------- MODULE MCScheduler ----------------------------
(* Instances of Scheduler for TLC.                                            *)
EXTENDS Scheduler, TLC

PlanOf(kind, at, policy, retries) ==
    [kind |-> kind, at |-> at, policy |-> policy, retries |-> retries]

\* One of each kind, with and without retries and with both policies.
MCPlans == {PlanOf("once", 1, "skip", 1), PlanOf("every", 1, "skip", 0),
            PlanOf("daily", 1, "run", 0)}
=============================================================================
