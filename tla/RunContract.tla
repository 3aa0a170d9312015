---------------------------- MODULE RunContract ----------------------------
(* What the runtime promises the host that calls startSession() and awaits it: *)
(* one run at a time is live, its engine works only until the run has a        *)
(* verdict, and the verdict is given once.  It is given when the call resolves *)
(* or, by a cancellation, before.  Nothing is said of controllers, sources,    *)
(* timers, retries or the state machine: RuntimeLifecycle is shown to          *)
(* implement this module.                                                      *)
CONSTANT Runs   \* one identity per call of startSession()

VARIABLES
    stage,     \* where each run stands
    working,   \* the runs whose engine works and was not told to stop
    verdict    \* the terminal event of each run, "none" before it

contractVars == <<stage, working, verdict>>

ContractTypeOK ==
    /\ stage \in [Runs -> {"new", "live", "over"}]
    /\ working \subseteq Runs
    /\ verdict \in [Runs -> {"none", "completed", "failed", "cancelled"}]

ContractInit ==
    /\ stage = [r \in Runs |-> "new"]
    /\ working = {}
    /\ verdict = [r \in Runs |-> "none"]

Request(r) ==
    /\ stage[r] = "new"
    /\ \A s \in Runs : stage[s] # "live"
    /\ stage' = [stage EXCEPT ![r] = "live"]
    /\ UNCHANGED <<working, verdict>>

\* An attempt begins: the first, or a retry.
Work(r) ==
    /\ stage[r] = "live" /\ verdict[r] = "none"
    /\ r \notin working
    /\ working' = working \cup {r}
    /\ UNCHANGED <<stage, verdict>>

Rest(r) ==
    /\ r \in working
    /\ working' = working \ {r}
    /\ UNCHANGED <<stage, verdict>>

\* A cancellation stops the engine and is the verdict of the run.
CancelRun(r) ==
    /\ stage[r] = "live" /\ verdict[r] = "none"
    /\ working' = working \ {r}
    /\ verdict' = [verdict EXCEPT ![r] = "cancelled"]
    /\ UNCHANGED stage

\* The call resolves with its verdict, or behind a cancellation.
Report(r, kind) ==
    /\ stage[r] = "live" /\ verdict[r] = "none"
    /\ r \notin working
    /\ stage' = [stage EXCEPT ![r] = "over"]
    /\ verdict' = [verdict EXCEPT ![r] = kind]
    /\ UNCHANGED working

Unwind(r) ==
    /\ stage[r] = "live" /\ verdict[r] = "cancelled"
    /\ stage' = [stage EXCEPT ![r] = "over"]
    /\ UNCHANGED <<working, verdict>>

ContractNext ==
    \E r \in Runs :
        \/ Request(r) \/ Work(r) \/ Rest(r) \/ CancelRun(r) \/ Unwind(r)
        \/ \E kind \in {"completed", "failed", "cancelled"} : Report(r, kind)

ContractSpec == ContractInit /\ [][ContractNext]_contractVars
=============================================================================
