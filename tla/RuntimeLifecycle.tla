-------------------------- MODULE RuntimeLifecycle --------------------------
(* The life of the runs of one CodePilotRuntime (agent-runtime/src/runtime.ts) *)
(* with its cancellation source, run timeout and retries (cancellation.ts), its *)
(* state machine (state-machine.ts) and the background repair of failed terminal *)
(* commands (m13-command-repair.ts).                                           *)
(*                                                                             *)
(* A run is one call of startSession().  Of the native engine only what it does *)
(* to the runtime is left: it reports tools, and each attempt resolves with a  *)
(* reason (AgentLoop).  The runtime keeps ONE controller, source, timer and    *)
(* runSettled flag, which the code behind every await of every run reads.      *)
EXTENDS Naturals

CONSTANTS Runs,         \* one identity per call of startSession()
          None,         \* null and undefined
          MaxRetries,   \* options.maxRetries
          Overlapping   \* does the host start a run before the last call resolved?

ASSUME RuntimeConstants ==
    None \notin Runs /\ MaxRetries \in Nat /\ Overlapping \in BOOLEAN

\* What an attempt ends with, once the error it throws is classified
\* (isTransientError); an iteration limit and a truncated turn are permanent.
Outcomes == {"complete", "aborted", "transient", "permanent"}

\* AgentState; what startSession passes through before EXECUTING is PLANNING.
TerminalStates == {"COMPLETED", "FAILED", "CANCELLED"}
AgentStates == {"CREATED", "PLANNING", "EXECUTING", "RUNNING_TOOL"} \cup TerminalStates

Verdicts == {"none", "completed", "failed", "cancelled"}
Failures == {"transient", "missing_module"}

VARIABLES
    run,         \* the locals of each startSession()
    controller,  \* runController: the run it was made for
    source,      \* runCancellationSource, likewise
    timer,       \* the run whose source the armed run timeout cancels
    runSettled,
    status,      \* state.status
    machine,     \* the state machine
    taskId,      \* currentTaskId, the run that events are attributed to
    closed,      \* the session manager in use is disposed
    disposed,
    aborted,     \* controllers whose signal is aborted
    cancelled,   \* sources that are cancelled
    verdict,     \* the terminal event attributed to each run
    repair,      \* the background repair a run started
    timed        \* options.runTimeoutMs > 0

fields == <<controller, source, timer, taskId, closed, disposed, timed>>
settlement == <<runSettled, status, machine, verdict>>
signals == <<aborted, cancelled>>
vars == <<run, fields, settlement, signals, repair>>

Local == [pc : {"idle", "starting", "looping", "returned", "backoff", "ended"},
          attempt : 0..MaxRetries,
          signal : Runs \cup {None},   \* the controller the attempt was given
          tool : BOOLEAN,              \* a tool call is between its events
          outcome : {"none"} \cup Outcomes]

TypeOK ==
    /\ run \in [Runs -> Local]
    /\ controller \in Runs \cup {None} /\ source \in Runs \cup {None}
    /\ timer \in Runs \cup {None} /\ taskId \in Runs \cup {None}
    /\ runSettled \in BOOLEAN /\ closed \in BOOLEAN /\ disposed \in BOOLEAN
    /\ timed \in BOOLEAN
    /\ status \in {"idle", "running", "failed"}
    /\ machine \in AgentStates
    /\ aborted \in SUBSET Runs /\ cancelled \in SUBSET Runs
    /\ verdict \in [Runs -> Verdicts]
    /\ repair \in [Runs -> [stage : {"none", "replaying", "gating", "installing"},
                            failure : {"none"} \cup Failures]]

Blank == [pc |-> "idle", attempt |-> 0, signal |-> None, tool |-> FALSE,
          outcome |-> "none"]
NoRepair == [stage |-> "none", failure |-> "none"]

Init ==
    /\ run = [r \in Runs |-> Blank]
    /\ controller = None /\ source = None /\ timer = None /\ taskId = None
    /\ runSettled = FALSE /\ closed = FALSE /\ disposed = FALSE
    /\ timed \in BOOLEAN
    /\ status = "idle" /\ machine = "CREATED"
    /\ aborted = {} /\ cancelled = {}
    /\ verdict = [r \in Runs |-> "none"]
    /\ repair = [r \in Runs |-> NoRepair]

InFlight(r) == run[r].pc \notin {"idle", "ended"}
SignalAborted(r) == run[r].signal \in aborted

\* startSession() is synchronous up to its first attempt; only listeners of its
\* events run before that.
Calm == \A r \in Runs : run[r].pc # "starting"

\* Faulty: the transition table is not consulted.
Transition_Unchecked(from, to) == machine' = to

\* doTransition(): a transition the table does not have is skipped.
Transition(from, to) ==
    machine' = IF machine \in from THEN to ELSE machine

\* A terminal event is emitted, for whatever run is current.
Attribute(kind) ==
    verdict' = [r \in Runs |-> IF r = taskId THEN kind ELSE verdict[r]]

\* settleCancelled(): idempotent.
SettleCancelled ==
    IF runSettled THEN UNCHANGED settlement
    ELSE /\ runSettled' = TRUE
         /\ status' = "idle"
         /\ machine' = IF machine \in TerminalStates THEN machine ELSE "CANCELLED"
         /\ Attribute("cancelled")

-----------------------------------------------------------------------------
(* startSession.                                                               *)

\* The concurrent-start guard.
MayStart == ~(status = "running" /\ ~runSettled)

\* The per-run state is reset; the machine only when it is terminal.
Start(r) ==
    /\ run[r].pc = "idle" /\ Calm /\ MayStart
    /\ Overlapping \/ \A s \in Runs : ~InFlight(s)
    /\ run' = [run EXCEPT ![r].pc = "starting"]
    /\ runSettled' = FALSE
    /\ machine' = IF machine \in TerminalStates \cup {"CREATED"} THEN "PLANNING" ELSE machine
    /\ controller' = r /\ source' = r /\ taskId' = r
    /\ timer' = IF timed THEN r ELSE None
    /\ UNCHANGED <<status, verdict, closed, disposed, timed, signals, repair>>

\* An attempt is about to run: withRetry looks at the token, the session manager
\* at its disposed flag, and the engine is handed the CURRENT controller's signal.
Attempt(r, dead) ==
    IF r \in cancelled
    THEN [run[r] EXCEPT !.pc = "returned", !.outcome = "aborted"]
    ELSE IF dead
    THEN [run[r] EXCEPT !.pc = "returned", !.outcome = "permanent"]
    ELSE [run[r] EXCEPT !.pc = "looping", !.outcome = "none", !.tool = FALSE,
                        !.signal = controller]

\* The listeners have returned: a new session manager, and the first attempt.
Begin(r) ==
    /\ run[r].pc = "starting"
    /\ Transition({"PLANNING"}, "EXECUTING")
    /\ status' = "running"
    /\ closed' = FALSE
    /\ run' = [run EXCEPT ![r] = Attempt(r, FALSE)]
    /\ UNCHANGED <<controller, source, timer, taskId, disposed, timed,
                   runSettled, verdict, signals, repair>>

\* Faulty: a retry runs under no signal at all.
DelayEnds_Unsignalled(r) ==
    /\ run[r].pc = "backoff" /\ Calm
    /\ run' = [run EXCEPT ![r] = [Attempt(r, closed) EXCEPT !.signal = None]]
    /\ UNCHANGED <<fields, settlement, signals, repair>>

\* The backoff delay is over.
DelayEnds(r) ==
    /\ run[r].pc = "backoff" /\ Calm
    /\ run' = [run EXCEPT ![r] = Attempt(r, closed)]
    /\ UNCHANGED <<fields, settlement, signals, repair>>

\* The finally block: whatever timer and controller are current.
Finally(r) ==
    /\ run' = [run EXCEPT ![r] = [Blank EXCEPT !.pc = "ended"]]
    /\ timer' = None /\ controller' = None
    /\ UNCHANGED <<source, taskId, closed, disposed, timed>>

\* Faulty: the run settles although a cancellation settled it before.
Completes_Unguarded(r) ==
    /\ run[r].pc = "returned" /\ run[r].outcome = "complete" /\ Calm
    /\ runSettled' = TRUE /\ status' = "idle"
    /\ Transition({"PLANNING", "EXECUTING"}, "COMPLETED")
    /\ Attribute("completed")
    /\ Finally(r)
    /\ UNCHANGED <<signals, repair>>

\* The success path.  COMPLETED cannot be reached from RUNNING_TOOL.
Completes(r) ==
    /\ run[r].pc = "returned" /\ run[r].outcome = "complete" /\ Calm
    /\ IF runSettled THEN UNCHANGED settlement
       ELSE /\ runSettled' = TRUE /\ status' = "idle"
            /\ Transition({"PLANNING", "EXECUTING"}, "COMPLETED")
            /\ Attribute("completed")
    /\ Finally(r)
    /\ UNCHANGED <<signals, repair>>

MayRetry(r) == run[r].attempt < MaxRetries

\* withRetry: a transient error is retried after a delay, which a cancelled
\* token cuts short.
Retries(r) ==
    /\ run[r].pc = "returned" /\ run[r].outcome = "transient" /\ Calm
    /\ MayRetry(r)
    /\ run' = [run EXCEPT ![r] =
                 IF r \in cancelled THEN [@ EXCEPT !.outcome = "aborted"]
                 ELSE [@ EXCEPT !.pc = "backoff", !.attempt = run[r].attempt + 1,
                                !.outcome = "none", !.signal = None]]
    /\ UNCHANGED <<fields, settlement, signals, repair>>

\* Faulty: whoever cancelled the run is supposed to have reported it.
CatchesCancellation_Silent(r) ==
    /\ run[r].pc = "returned" /\ run[r].outcome = "aborted" /\ Calm
    /\ Finally(r)
    /\ UNCHANGED <<settlement, signals, repair>>

\* The catch block of a run that was cancelled.
CatchesCancellation(r) ==
    /\ run[r].pc = "returned" /\ run[r].outcome = "aborted" /\ Calm
    /\ SettleCancelled
    /\ Finally(r)
    /\ UNCHANGED <<signals, repair>>

\* The catch block of a run that failed.
Fails(r) ==
    /\ run[r].pc = "returned" /\ Calm
    /\ \/ run[r].outcome = "permanent"
       \/ run[r].outcome = "transient" /\ ~MayRetry(r)
    /\ IF runSettled THEN UNCHANGED settlement
       ELSE /\ runSettled' = TRUE /\ status' = "failed"
            /\ Transition(AgentStates \ (TerminalStates \cup {"CREATED"}), "FAILED")
            /\ Attribute("failed")
    /\ Finally(r)
    /\ UNCHANGED <<signals, repair>>

-----------------------------------------------------------------------------
(* The native engine, and handleLoopEvent.                                     *)

\* The attempt resolves.  Under an aborted signal only the budget check of a
\* turn comes before the engine looks at the signal.
LoopReturns(r, outcome) ==
    /\ run[r].pc = "looping" /\ Calm
    /\ IF SignalAborted(r) THEN outcome \in {"aborted", "permanent"}
       ELSE run[r].tool => outcome = "aborted"
    /\ run' = [run EXCEPT ![r] =
                 [@ EXCEPT !.pc = "returned", !.outcome = outcome, !.tool = FALSE]]
    /\ UNCHANGED <<fields, settlement, signals, repair>>

\* A text delta makes the runtime "running".
Streams(r) ==
    /\ run[r].pc = "looping" /\ ~run[r].tool /\ ~SignalAborted(r) /\ Calm
    /\ status' = "running"
    /\ UNCHANGED <<run, fields, runSettled, machine, verdict, signals, repair>>

ToolStarts(r) ==
    /\ run[r].pc = "looping" /\ ~run[r].tool /\ ~SignalAborted(r) /\ Calm
    /\ run' = [run EXCEPT ![r].tool = TRUE]
    /\ Transition({"EXECUTING"}, "RUNNING_TOOL")
    /\ UNCHANGED <<fields, runSettled, status, verdict, signals, repair>>

ToolOver(r) ==
    /\ run[r].pc = "looping" /\ run[r].tool /\ ~SignalAborted(r) /\ Calm
    /\ run' = [run EXCEPT ![r].tool = FALSE]

\* tool_completed.
ToolCompletes(r) ==
    /\ ToolOver(r)
    /\ Transition({"RUNNING_TOOL"}, "EXECUTING")
    /\ UNCHANGED <<fields, runSettled, status, verdict, signals, repair>>

\* tool_denied: the machine stays where it is.
ToolDenied(r) ==
    /\ ToolOver(r)
    /\ UNCHANGED <<fields, settlement, signals, repair>>

\* tool_completed with an error that classifyCommandFailure calls recoverable,
\* of a terminal command: its repair starts, and nobody awaits it.
ToolFails(r, failure) ==
    /\ ToolOver(r)
    /\ repair[r] = NoRepair
    /\ Transition({"RUNNING_TOOL"}, "EXECUTING")
    /\ repair' = [repair EXCEPT ![r] = [stage |-> "replaying", failure |-> failure]]
    /\ UNCHANGED <<fields, runSettled, status, verdict, signals>>

\* The execution of a repair ends: recovered, given up or, after the replay of
\* the command itself, asking for the transformed command.
RepairEnds(r, recovered) ==
    /\ repair[r].stage \in {"replaying", "installing"} /\ Calm
    /\ repair' = [repair EXCEPT ![r] = NoRepair]
    /\ IF recovered THEN Transition({"RUNNING_TOOL"}, "EXECUTING") ELSE UNCHANGED machine
    /\ UNCHANGED <<run, fields, runSettled, status, verdict, signals>>

RepairTransforms(r) ==
    /\ repair[r].stage = "replaying" /\ Calm
    /\ repair' = [repair EXCEPT ![r] = [stage |-> "gating", failure |-> "missing_module"]]
    /\ UNCHANGED <<run, fields, settlement, signals>>

\* The gate answers for the transformed command.
RepairGated(r, approved) ==
    /\ repair[r].stage = "gating" /\ Calm
    /\ repair' = [repair EXCEPT ![r] =
                    IF approved THEN [@ EXCEPT !.stage = "installing"] ELSE NoRepair]
    /\ UNCHANGED <<run, fields, settlement, signals>>

-----------------------------------------------------------------------------
(* The host: abort, stop and dispose; and the run timeout.                     *)

\* The source is cancelled: a backoff is cut short, and the runtime's listener
\* aborts the engine and settles the run.
CancelSource ==
    LET heard == ~runSettled /\ controller # None IN
    /\ cancelled' = cancelled \cup {source}
    /\ aborted' = IF heard THEN aborted \cup {controller} ELSE aborted
    /\ IF heard THEN SettleCancelled ELSE UNCHANGED settlement
    /\ run' = [r \in Runs |->
                 IF r = source /\ run[r].pc = "backoff"
                 THEN [run[r] EXCEPT !.pc = "returned", !.outcome = "aborted"] ELSE run[r]]

Cancellable == source # None /\ source \notin cancelled

\* The run timeout, which only an armed timer of the current source has.
TimeoutFires ==
    /\ timer # None /\ Calm
    /\ timer' = None
    /\ IF Cancellable THEN CancelSource ELSE UNCHANGED <<run, settlement, signals>>
    /\ UNCHANGED <<controller, source, taskId, closed, disposed, timed, repair>>

\* abort()
Abort ==
    /\ IF Cancellable THEN CancelSource
       ELSE /\ aborted' = aborted \cup ({controller} \ {None})
            /\ SettleCancelled
            /\ UNCHANGED <<run, cancelled>>
    /\ UNCHANGED <<fields, repair>>

\* Faulty: the engine is left alone.
StopSession_LeavesEngine ==
    /\ SettleCancelled
    /\ UNCHANGED <<run, fields, signals, repair>>

\* stopSession(): the engine is told, the source is not.
StopSession ==
    /\ aborted' = aborted \cup ({controller} \ {None})
    /\ SettleCancelled
    /\ UNCHANGED <<run, fields, cancelled, repair>>

\* dispose()
Dispose ==
    /\ ~disposed
    /\ disposed' = TRUE /\ closed' = TRUE /\ timer' = None
    /\ IF Cancellable
       THEN /\ cancelled' = cancelled \cup {source}
            /\ aborted' = aborted \cup ({controller} \ {None})
            /\ IF controller # None THEN SettleCancelled ELSE UNCHANGED settlement
            /\ run' = [r \in Runs |->
                         IF r = source /\ run[r].pc = "backoff"
                         THEN [run[r] EXCEPT !.pc = "returned", !.outcome = "aborted"]
                         ELSE run[r]]
       ELSE /\ aborted' = aborted \cup ({controller} \ {None})
            /\ UNCHANGED <<run, settlement, cancelled>>
    /\ UNCHANGED <<controller, source, taskId, timed, repair>>

-----------------------------------------------------------------------------
EngineReturns(r) == \E outcome \in Outcomes : LoopReturns(r, outcome)

\* An engine whose signal is aborted does return.
EngineUnwinds(r) == SignalAborted(r) /\ EngineReturns(r)

\* Steps the event loop takes by itself.
Unwinds(r) ==
    \/ Begin(r) \/ DelayEnds(r) \/ Completes(r) \/ Retries(r)
    \/ CatchesCancellation(r) \/ Fails(r) \/ EngineUnwinds(r)

Repairs(r) ==
    \/ \E failure \in Failures : ToolFails(r, failure)
    \/ \E recovered \in BOOLEAN : RepairEnds(r, recovered)
    \/ RepairTransforms(r)
    \/ \E approved \in BOOLEAN : RepairGated(r, approved)

Next ==
    \/ \E r \in Runs :
         \/ Start(r) \/ Unwinds(r) \/ EngineReturns(r) \/ Streams(r)
         \/ ToolStarts(r) \/ ToolCompletes(r) \/ ToolDenied(r) \/ Repairs(r)
    \/ TimeoutFires \/ Abort \/ StopSession \/ Dispose

Spec == Init /\ [][Next]_vars

(* Fairness.  The event loop runs what is ready, delays and the run timeout    *)
(* end, and an engine whose signal is aborted returns (AgentLoop's             *)
(* AbortedRunsEnd).  Nothing makes an engine return that is not aborted.       *)
Fairness == WF_vars(TimeoutFires) /\ \A r \in Runs : WF_vars(Unwinds(r))

FairSpec == Spec /\ Fairness

-----------------------------------------------------------------------------
(* Properties.                                                                 *)

\* runtime-provider-switch.test.ts:129: "only one run owns the runtime".  An
\* engine that nobody has told to stop belongs to the run that is not settled,
\* and the runtime's controller reaches it.
OneOwner ==
    \A r \in Runs :
        run[r].pc = "looping" /\ ~SignalAborted(r)
          => ~runSettled /\ taskId = r /\ controller = run[r].signal

\* Cancellation is terminal: a run whose cancellation was signalled is never
\* reported completed or failed, however its attempt then ends.
CancelWins ==
    [][\A r \in Runs :
         r \in aborted \cup cancelled /\ verdict'[r] \in {"completed", "failed"}
           => verdict[r] = verdict'[r]]_vars

\* Each startSession() that has resolved had its terminal event, once and for
\* all: "completed", "failed" and "cancelled" exclude each other.
EveryEndIsReported ==
    /\ \A r \in Runs : run[r].pc = "ended" => verdict[r] # "none"
    /\ runSettled /\ taskId # None => verdict[taskId] # "none"

\* The state machine agrees with the coarse settlement of a run that failed or
\* was cancelled, whatever tools and repairs report afterwards.
MachineShowsVerdict ==
    runSettled /\ taskId # None =>
        /\ verdict[taskId] = "failed" => machine = "FAILED"
        /\ verdict[taskId] = "cancelled" => machine = "CANCELLED"
        /\ verdict[taskId] = "completed" => machine \notin {"FAILED", "CANCELLED"}

\* abort() and dispose() end the run that is in flight: its startSession()
\* resolves although the model, the gate and the tools hang.
CancelledRunsEnd ==
    \A r \in Runs : InFlight(r) /\ verdict[r] = "cancelled" ~> run[r].pc = "ended"

-----------------------------------------------------------------------------
(* The runtime implements the contract of startSession().                      *)

Stage(x) ==
    CASE x.pc = "idle"  -> "new"
      [] x.pc = "ended" -> "over"
      [] OTHER          -> "live"

Contract ==
    INSTANCE RunContract WITH
        stage   <- [r \in Runs |-> Stage(run[r])],
        working <- {r \in Runs : run[r].pc = "looping" /\ ~SignalAborted(r)}

\* A run that its host awaits is one the contract allows: one run is live, no
\* attempt works behind a settlement, whatever settles it, and no verdict follows
\* a verdict (startSession, settleCancelled, cancelRun, stopSession, dispose).
ImplementsRunContract == Contract!ContractSpec
=============================================================================
