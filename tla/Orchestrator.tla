---------------------------- MODULE Orchestrator ----------------------------
(* One execute() of MultiAgentOrchestrator (agent-runtime/src/orchestrator.ts)  *)
(* on the DAG built from the roles of a team, with the file locks that          *)
(* TeamService (vscode-extension/src/team-service.ts) takes on its events, its  *)
(* cancellation and its disposal.                                              *)
(*                                                                             *)
(* Of an agent (agent.ts) it is kept whether it is at work and whether it was   *)
(* told to abort; what follows within one turn of the event loop is one action. *)
EXTENDS Integers, Sequences, FiniteSets

CONSTANTS Roles,           \* the roles, in the order they were chosen
          Files,
          FilesByRole,     \* the files each role declared
          MaxConcurrency

Tasks == 1..Len(Roles)

RoleSet == {Roles[t] : t \in Tasks}
IsComplex == {"tester", "security", "reviewer"} \subseteq RoleSet
Prefix == Len(Roles) - 3

\* buildFromRoles(): a chain, or a chain, two parallel tasks and a reviewer.
Dependencies == [t \in Tasks |->
    CASE IsComplex /\ t = Prefix + 3 -> {Prefix + 1, Prefix + 2}
      [] IsComplex /\ t = Prefix + 2 -> {Prefix}
      [] OTHER -> IF t = 1 THEN {} ELSE {t - 1}]

\* What a task depends on, directly or not.
Upstream[t \in Tasks] ==
    Dependencies[t] \cup UNION {Upstream[d] : d \in Dependencies[t]}

Declared(t) ==
    LET role == CASE IsComplex /\ t = Prefix + 1 -> "tester"
                  [] IsComplex /\ t = Prefix + 2 -> "security"
                  [] IsComplex /\ t = Prefix + 3 -> "reviewer"
                  [] IsComplex /\ t <= Prefix ->
                       SelectSeq(Roles, LAMBDA r : r \notin
                                   {"tester", "security", "reviewer"})[t]
                  [] ~IsComplex -> Roles[t]
    IN  FilesByRole[role]

\* createTeam() refuses files that two tasks may claim at the same time, and
\* validate() a complex DAG without a prefix.
ASSUME OrchestratorConstants ==
    /\ Roles \in Seq(STRING)
    /\ MaxConcurrency \in Nat \ {0}
    /\ \A s, t \in Tasks : s # t => Roles[s] # Roles[t]
    /\ IsComplex => Prefix > 0
    /\ FilesByRole \in [RoleSet -> SUBSET Files]
    /\ \A s, t \in Tasks :
          s # t /\ s \notin Upstream[t] /\ t \notin Upstream[s]
            => Declared(s) \cap Declared(t) = {}

VARIABLES
    status,        \* of each task
    retryCount,
    executing,     \* tasks whose executeTask() has not settled
    working,       \* agents at work, as <<task, attempt>>
    told,          \* agents told to abort
    activeAgents,  \* the attempt in the map of active agents, 0 for none
    aborted,       \* the AbortController
    disposed,      \* the DAG was released
    phase,         \* of execute()
    outcome,       \* what execute() reported
    listening,     \* TeamService is subscribed
    heldLocks,     \* tasks holding their files
    conflicts      \* tasks that ran without them

vars == <<status, retryCount, executing, working, told, activeAgents, aborted,
          disposed, phase, outcome, listening, heldLocks, conflicts>>

TaskStatus == {"pending", "running", "completed", "failed", "blocked", "cancelled"}
Terminal == {"completed", "failed", "blocked", "cancelled"}
Agents == Tasks \X {1, 2}

TypeOK ==
    /\ status \in [Tasks -> TaskStatus]
    /\ retryCount \in [Tasks -> 0..1]
    /\ executing \subseteq Tasks
    /\ working \subseteq Agents /\ told \subseteq Agents
    /\ activeAgents \in [Tasks -> 0..2]
    /\ aborted \in BOOLEAN /\ disposed \in BOOLEAN /\ listening \in BOOLEAN
    /\ phase \in {"running", "ended", "rejected"}
    /\ outcome \in {"none", "COMPLETED", "FAILED", "CANCELLED", "BLOCKED"}
    /\ heldLocks \subseteq Tasks /\ conflicts \subseteq Tasks

Init ==
    /\ status = [t \in Tasks |-> "pending"]
    /\ retryCount = [t \in Tasks |-> 0]
    /\ executing = {} /\ working = {} /\ told = {}
    /\ activeAgents = [t \in Tasks |-> 0]
    /\ aborted = FALSE /\ disposed = FALSE
    /\ phase = "running" /\ outcome = "none"
    /\ listening = TRUE
    /\ heldLocks = {} /\ conflicts = {}

---------------------------------------------------------------------------
\* The locks: TeamService looks at the whole DAG at each event.

Contended(t) == \E q \in heldLocks \ {t} : Declared(q) \cap Declared(t) # {}

\* Faulty: only failure and cancellation release.
Locks_KeptOnSuccess(S) ==
    LET asking == {t \in Tasks : S[t] = "running" /\ Declared(t) # {} /\ t \notin heldLocks}
    IN  IF ~listening THEN UNCHANGED <<heldLocks, conflicts>>
        ELSE /\ heldLocks' = {t \in heldLocks : S[t] \notin Terminal \ {"completed"}}
                                \cup {t \in asking : ~Contended(t)}
             /\ conflicts' = conflicts \cup {t \in asking : Contended(t)}

\* onOrchestratorEvent(): S is the status of the tasks it finds.
Locks(S) ==
    LET asking == {t \in Tasks : S[t] = "running" /\ Declared(t) # {} /\ t \notin heldLocks}
    IN  IF ~listening THEN UNCHANGED <<heldLocks, conflicts>>
        ELSE /\ heldLocks' = {t \in heldLocks : S[t] \notin Terminal}
                                \cup {t \in asking : ~Contended(t)}
             /\ conflicts' = conflicts \cup {t \in asking : Contended(t)}

---------------------------------------------------------------------------
\* The loop of execute(), once every task of the batch has settled.

Ready(t) ==
    /\ status[t] = "pending"
    /\ \A d \in Dependencies[t] : status[d] = "completed"

IsComplete == \A t \in Tasks : status[t] \in Terminal

Outcome(S) ==
    CASE aborted -> "CANCELLED"
      [] ~aborted /\ \E t \in Tasks : S[t] \in {"failed", "blocked"} -> "FAILED"
      [] ~aborted /\ \A t \in Tasks : S[t] \in {"completed", "cancelled"} -> "COMPLETED"
      [] OTHER -> "BLOCKED"

End(S) ==
    /\ status' = S
    /\ phase' = "ended"
    /\ outcome' = Outcome(S)
    /\ Locks(S)
    /\ UNCHANGED <<retryCount, executing, working, told, activeAgents>>

\* executeTask() up to its first await, for each task of the batch.
Launch(batch) ==
    /\ status' = [t \in Tasks |-> IF t \in batch THEN "running" ELSE status[t]]
    /\ executing' = batch
    /\ working' = working \cup {<<t, 1>> : t \in batch}
    /\ activeAgents' = [t \in Tasks |-> IF t \in batch THEN 1 ELSE activeAgents[t]]
    /\ Locks(status')
    /\ UNCHANGED <<retryCount, told, phase, outcome>>

\* After dispose() the loop runs into the released DAG and execute() rejects.
Loop ==
    /\ phase = "running"
    /\ executing = {}
    /\ UNCHANGED <<aborted, disposed, listening>>
    /\ IF disposed
       THEN /\ phase' = "rejected"
            /\ UNCHANGED <<status, retryCount, executing, working, told,
                           activeAgents, outcome, heldLocks, conflicts>>
       ELSE LET ready == {t \in Tasks : Ready(t)}
                batch == {t \in ready :
                            Cardinality({q \in ready : q < t}) < MaxConcurrency}
            IN  IF IsComplete \/ aborted \/ ready = {}
                THEN End([t \in Tasks |->
                            IF aborted /\ ~IsComplete /\ status[t] = "pending"
                            THEN "cancelled" ELSE status[t]])
                ELSE Launch(batch)

---------------------------------------------------------------------------
\* How an agent's run ends for executeTask().

Current(t) == <<t, retryCount[t] + 1>>

Settled(t, S) ==
    /\ status' = S
    /\ executing' = executing \ {t}
    /\ activeAgents' = [activeAgents EXCEPT ![t] = 0]
    /\ Locks(S)
    /\ UNCHANGED retryCount

\* Faulty: only the direct dependents are blocked.
FailedBy_Direct(t) ==
    [q \in Tasks |-> IF q = t THEN "failed"
                     ELSE IF t \in Dependencies[q] /\ status[q] = "pending" THEN "blocked"
                     ELSE status[q]]

\* markFailed() and propagateFailure().
FailedBy(t) ==
    [q \in Tasks |-> IF q = t THEN "failed"
                     ELSE IF t \in Upstream[q] /\ status[q] = "pending" THEN "blocked"
                     ELSE status[q]]

\* The catch of executeTask().  The same command is retried once; `finally` of the
\* first call then takes the agent of the retry out of the map.
Catch(t) ==
    CASE disposed -> /\ executing' = executing \ {t}
                     /\ UNCHANGED <<status, retryCount, activeAgents, heldLocks, conflicts>>
      [] ~disposed /\ retryCount[t] = 0 ->
                     /\ retryCount' = [retryCount EXCEPT ![t] = 1]
                     /\ status' = [status EXCEPT ![t] = "running"]
                     /\ activeAgents' = [activeAgents EXCEPT ![t] = 0]
                     /\ Locks(status')
                     /\ UNCHANGED executing
      [] ~disposed /\ retryCount[t] = 1 -> Settled(t, FailedBy(t))

Retry(t) == IF disposed \/ retryCount[t] = 1 THEN {} ELSE {<<t, 2>>}

\* The agent ran to completion, or was cut off, or its run or initialization
\* failed: every outcome but completion and abortion is thrown and caught.
Completes(t) ==
    /\ t \in executing
    /\ Current(t) \in working \ told
    /\ working' = working \ {Current(t)}
    /\ IF disposed THEN Catch(t)
       ELSE Settled(t, [status EXCEPT ![t] = "completed"])
    /\ UNCHANGED <<told, aborted, disposed, phase, outcome, listening>>

Fails(t) ==
    /\ t \in executing
    /\ Current(t) \in working \ told
    /\ working' = (working \ {Current(t)}) \cup Retry(t)
    /\ Catch(t)
    /\ UNCHANGED <<told, aborted, disposed, phase, outcome, listening>>

Aborts(t) ==
    /\ t \in executing
    /\ Current(t) \in working \cap told
    /\ working' = working \ {Current(t)}
    /\ IF disposed THEN Catch(t)
       ELSE Settled(t, [status EXCEPT ![t] = "cancelled"])
    /\ UNCHANGED <<told, aborted, disposed, phase, outcome, listening>>

\* Faulty: the timeout only concerns the agents in the map; it does not abort.
TimesOut_OnlyActive(t) ==
    /\ t \in executing
    /\ activeAgents[t] # 0
    /\ told' = told \cup {<<t, activeAgents[t]>>}
    /\ working' = working \cup Retry(t)
    /\ Catch(t)
    /\ UNCHANGED <<aborted, disposed, phase, outcome, listening>>

TimesOut_LetsRun(t) ==
    /\ t \in executing
    /\ working' = working \cup Retry(t)
    /\ Catch(t)
    /\ UNCHANGED <<told, aborted, disposed, phase, outcome, listening>>

\* executeWithTimeout(): the agent in the map is aborted, and the task goes on
\* without waiting for it.
TimesOut(t) ==
    /\ t \in executing
    /\ told' = IF activeAgents[t] = 0 THEN told
               ELSE told \cup {<<t, activeAgents[t]>>}
    /\ working' = working \cup Retry(t)
    /\ Catch(t)
    /\ UNCHANGED <<aborted, disposed, phase, outcome, listening>>

\* An agent nobody waits for any more.
EndsUnheard(a) ==
    /\ a \in working
    /\ a[1] \notin executing \/ a # Current(a[1])
    /\ working' = working \ {a}
    /\ UNCHANGED <<status, retryCount, executing, told, activeAgents, aborted,
                   disposed, phase, outcome, listening, heldLocks, conflicts>>

---------------------------------------------------------------------------
\* cancelTeam() and the dispose() of TeamService.

InMap == {t \in Tasks : activeAgents[t] # 0}

CancelAgents ==
    /\ aborted' = TRUE
    /\ told' = told \cup {<<t, activeAgents[t]>> : t \in InMap}
    /\ status' = [t \in Tasks |-> IF t \in InMap THEN "cancelled" ELSE status[t]]
    /\ activeAgents' = [t \in Tasks |-> 0]
    /\ listening' = FALSE
    /\ heldLocks' = {}
    /\ UNCHANGED <<retryCount, executing, working, phase, outcome, conflicts>>

Cancel ==
    /\ ~aborted /\ phase = "running"
    /\ CancelAgents
    /\ UNCHANGED disposed

Dispose ==
    /\ ~disposed
    /\ CancelAgents
    /\ disposed' = TRUE

Next ==
    \/ Loop
    \/ \E t \in Tasks : Completes(t) \/ Fails(t) \/ Aborts(t) \/ TimesOut(t)
    \/ \E a \in Agents : EndsUnheard(a)
    \/ Cancel \/ Dispose

Spec == Init /\ [][Next]_vars

\* The event loop turns and timers fire; an agent may hang.
FairSpec == Spec /\ WF_vars(Loop) /\ \A t \in Tasks : WF_vars(TimesOut(t))

---------------------------------------------------------------------------
\* execute() leaves no task behind: when it reports, every task is settled, a task
\* ran only on completed dependencies, and the outcome is completed only if all
\* tasks are, failed only if one failed (propagateFailure, getReadyTasks,
\* deriveOrchestrationOutcome: "True deadlock - shouldn't happen with valid DAGs").
EveryTaskSettles ==
    phase = "ended" =>
        /\ IsComplete
        /\ \A t \in Tasks : status[t] \in {"completed", "failed"} =>
              \A d \in Dependencies[t] : status[d] = "completed"
        /\ CASE outcome = "COMPLETED" -> \A t \in Tasks : status[t] = "completed"
             [] outcome = "FAILED" -> \E t \in Tasks : status[t] = "failed"
             [] outcome = "CANCELLED" -> aborted
             [] OTHER -> FALSE

\* With the claims createTeam() accepts no task ever runs without its files, no two
\* hold the same one, and none is left held once execute() is over, however tasks
\* fail, retry and time out around it (acquire, release, onOrchestratorEvent,
\* findParallelConflict).
NoClaimContended ==
    /\ conflicts = {}
    /\ phase # "running" => heldLocks = {}
    /\ \A s, t \in heldLocks : s # t => Declared(s) \cap Declared(t) = {}
    /\ listening => \A t \in Tasks :
         status[t] = "running" /\ Declared(t) # {} => t \in heldLocks

\* The first agent of a task is either told to abort or still in the map, so that a
\* timeout or a cancellation reaches it (executeTask, executeWithTimeout, cancel).
FirstAgentsReachable ==
    \A t \in Tasks : <<t, 1>> \in working \ told => activeAgents[t] = 1

\* execute() ends even if every agent hangs (executeWithTimeout).
ExecutionEnds == <>(phase # "running")

\* cancel() says it aborts "all active agents" (orchestrator.ts:1159): then no agent
\* is at work that was not told.
CancelReachesEveryAgent == aborted => working \subseteq told
=============================================================================
