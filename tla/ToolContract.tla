---------------------------- MODULE ToolContract ----------------------------
(* What the tool engine promises the agent that calls execute(): a call is   *)
(* opened, may be permitted, is run only while it is permitted and no more    *)
(* often than its limit, and is closed once, with one outcome that never      *)
(* changes.  Nothing is said of events, timers, audits or approvals: the      *)
(* detailed module ToolExecution is shown to implement this one.              *)
EXTENDS Naturals

CONSTANTS Execs,      \* the identities of calls
          MaxRetries  \* re-runs a tool that declares itself idempotent may have

Outcomes == {"none", "completed", "denied", "failed", "cancelled", "timed_out"}
Stages   == {"new", "open", "permitted", "closed"}

VARIABLES stage,   \* where each call stands
          limit,   \* how often its tool may be run, fixed when it is opened
          runs,    \* how often its tool has been run
          outcome  \* "none" until the call is closed

cvars == <<stage, limit, runs, outcome>>

ContractTypeOK ==
    /\ stage   \in [Execs -> Stages]
    /\ limit   \in [Execs -> {0, 1, 1 + MaxRetries}]
    /\ runs    \in [Execs -> 0..(1 + MaxRetries)]
    /\ outcome \in [Execs -> Outcomes]

CInit ==
    /\ stage   = [e \in Execs |-> "new"]
    /\ limit   = [e \in Execs |-> 0]
    /\ runs    = [e \in Execs |-> 0]
    /\ outcome = [e \in Execs |-> "none"]

Submit(e, n) ==
    /\ stage[e] = "new"
    /\ stage' = [stage EXCEPT ![e] = "open"]
    /\ limit' = [limit EXCEPT ![e] = n]
    /\ UNCHANGED <<runs, outcome>>

Permit(e) ==
    /\ stage[e] = "open"
    /\ stage' = [stage EXCEPT ![e] = "permitted"]
    /\ UNCHANGED <<limit, runs, outcome>>

Run(e) ==
    /\ stage[e] = "permitted"
    /\ runs[e] < limit[e]
    /\ runs' = [runs EXCEPT ![e] = @ + 1]
    /\ UNCHANGED <<stage, limit, outcome>>

\* A call refused at once (the service is disposed), answered without being
\* permitted, or abandoned because a permission component threw ("none").
CloseUnpermitted(e, o) ==
    /\ stage[e] \in {"new", "open"}
    /\ o \in {"denied", "failed", "cancelled", "none"}
    /\ stage'   = [stage EXCEPT ![e] = "closed"]
    /\ outcome' = [outcome EXCEPT ![e] = o]
    /\ UNCHANGED <<limit, runs>>

\* Only a tool that has been run can complete, fail or time out.
ClosePermitted(e, o) ==
    /\ stage[e] = "permitted"
    /\ \/ o = "cancelled"
       \/ runs[e] > 0 /\ o \in {"completed", "failed", "timed_out"}
    /\ stage'   = [stage EXCEPT ![e] = "closed"]
    /\ outcome' = [outcome EXCEPT ![e] = o]
    /\ UNCHANGED <<limit, runs>>

CNext ==
    \E e \in Execs :
        \/ \E n \in {1, 1 + MaxRetries} : Submit(e, n)
        \/ Permit(e)
        \/ Run(e)
        \/ \E o \in Outcomes : CloseUnpermitted(e, o) \/ ClosePermitted(e, o)

CSpec == CInit /\ [][CNext]_cvars
=============================================================================
