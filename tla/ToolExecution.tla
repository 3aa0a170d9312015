--------------------------- MODULE ToolExecution ---------------------------
(* ToolExecutionService (packages/tool-engine/src/m3/executor.ts) with the   *)
(* parts of ToolRegistry and ToolPermissionManager it consults.               *)
(*                                                                            *)
(* execute() is an async function: it suspends at an await, and it calls      *)
(* listeners (in emit) and tool code (validate) that may call cancel(), abort *)
(* the caller's signal or dispose() before it goes on.  "pc" names those      *)
(* points; one action is the code between two of them, so that everything     *)
(* that can happen to an execution happens at one of its points.              *)
EXTENDS Naturals, FiniteSets

CONSTANTS Execs,       \* one identity per call of execute()
          Tools,       \* tool ids
          Idempotent,  \* tools that declare idempotent: true
          MaxRetries   \* options.maxRetries

ASSUME ToolConstants ==
    /\ Tools # {}
    /\ Idempotent \subseteq Tools
    /\ MaxRetries \in Nat

TerminalStatuses == {"completed", "denied", "failed", "cancelled", "timed_out"}

Statuses == {"requested", "validating", "permission_check",
             "awaiting_approval", "running"} \cup TerminalStatuses

\* The terminal events carry the names of the statuses they announce
\* (STATUS_BY_TERMINAL_EVENT); the "tool." prefix is dropped.
Events == {"requested", "permission_required", "permission_granted",
           "started", "progress"} \cup TerminalStatuses

Decisions == {"allow", "deny", "approve"}
Granted   == {"allow", "approved_once", "approved_session"}

\* Where an execution may be interrupted.
Unpermitted == {"requested", "validating", "m4", "awaiting"}
Permitted   == {"loop", "starting", "executing", "backoff"}
InFlight    == Unpermitted \cup Permitted
Closed      == {"returned",  \* the promise resolved with a ToolResult
                "thrown",    \* the promise rejected
                "refused"}   \* resolved at once: the service was disposed

VARIABLES
    exec,        \* InternalExecution of each call, and the locals of execute()
    active,      \* this.active
    disposed,    \* this.disposed
    m4,          \* was an M4 pipeline given to the constructor?
    enabled,     \* the ToolRegistry entries whose enabled flag is set
    policy,      \* what rules, level policies and default decide for a tool
    approvals,   \* ToolPermissionManager.sessionApprovals
    denials      \* ToolPermissionManager.sessionDenials

permissions == <<policy, approvals, denials>>
vars == <<exec, active, disposed, m4, enabled, permissions>>

Execution ==
    [pc : {"idle"} \cup InFlight \cup Closed,
     tool : Tools,
     channel : BOOLEAN,    \* options.requestApproval was given
     status : Statuses,
     caller : BOOLEAN,     \* options.signal is aborted
     abort : {"none", "caller", "cancel", "timeout", "dispose"},
                           \* exec.controller: why it was aborted first
     armed : BOOLEAN,      \* exec.timer is pending
     timedOut : BOOLEAN,
     attempt : 0..MaxRetries,
     calls : 0..(1 + MaxRetries),  \* how often tool.execute was called
     emitted : SUBSET Events,
     decision : {"none", "deny"} \cup Decisions \cup Granted,
     audit : SUBSET Statuses]      \* statuses of the audit records written

TypeOK ==
    /\ exec \in [Execs -> Execution]
    /\ active \subseteq Execs
    /\ disposed \in BOOLEAN
    /\ m4 \in BOOLEAN
    /\ enabled \subseteq Tools
    /\ policy \in [Tools -> Decisions]
    /\ approvals \subseteq Tools
    /\ denials \subseteq Tools

Blank(t) ==
    [pc |-> "idle", tool |-> t, channel |-> FALSE, status |-> "requested",
     caller |-> FALSE, abort |-> "none", armed |-> FALSE, timedOut |-> FALSE,
     attempt |-> 0, calls |-> 0, emitted |-> {}, decision |-> "none",
     audit |-> {}]

Init ==
    /\ exec = [e \in Execs |-> Blank(CHOOSE t \in Tools : TRUE)]
    /\ active = {}
    /\ disposed = FALSE
    /\ m4 \in BOOLEAN
    /\ enabled = Tools
    /\ policy \in [Tools -> Decisions]
    /\ approvals = {}
    /\ denials = {}

-----------------------------------------------------------------------------
(* Helpers on one execution.                                                  *)

\* emit(): each type once, and one terminal type at most.
Emit(x, type) ==
    IF \/ type \in x.emitted
       \/ type \in TerminalStatuses /\ x.emitted \cap TerminalStatuses # {}
    THEN x
    ELSE [x EXCEPT !.emitted = @ \cup {type}]

\* asResult(): one audit record per execution, and the finally block.
AsResult(x) ==
    [x EXCEPT !.audit = IF @ = {} THEN {x.status} ELSE @,
              !.pc = "returned", !.armed = FALSE]

Settle(x, status) == AsResult(Emit([x EXCEPT !.status = status], status))

\* finish() and cancelled()
Finish(x)    == Settle(x, IF x.timedOut THEN "timed_out" ELSE "failed")
Cancelled(x) == Settle(x, "cancelled")
Denied(x)    == Settle(x, "denied")

\* An exception leaves execute(): only the finally block runs.
Throw(x) == [x EXCEPT !.pc = "thrown", !.armed = FALSE]

MaxAttempts(x) == IF x.tool \in Idempotent THEN 1 + MaxRetries ELSE 1

Aborted(x) == x.caller \/ x.abort # "none"

Abort(x, why) == IF x.abort = "none" THEN [x EXCEPT !.abort = why] ELSE x

\* exec[e] becomes x; a closed execution leaves the active map.
Becomes(e, x) ==
    /\ exec' = [exec EXCEPT ![e] = x]
    /\ active' = IF x.pc \in Closed THEN active \ {e} ELSE active

-----------------------------------------------------------------------------
(* execute(), from point to point.                                            *)

\* The call: the caller's signal may already be aborted, in which case its
\* abort listener will never fire.
Execute(e, t, channel, preAborted) ==
    /\ exec[e].pc = "idle"
    /\ LET x == [Blank(t) EXCEPT !.channel = channel, !.caller = preAborted]
       IN IF disposed
          THEN /\ exec' = [exec EXCEPT ![e] = [x EXCEPT !.pc = "refused",
                                                        !.status = "failed"]]
               /\ active' = active
          ELSE /\ exec' = [exec EXCEPT ![e] =
                                 Emit([x EXCEPT !.pc = "requested"], "requested")]
               /\ active' = active \cup {e}
    /\ UNCHANGED <<disposed, m4, enabled, permissions>>

\* After tool.requested: unknown and disabled tools fail; VALIDATING.
Resolve(e) ==
    LET x == exec[e] IN
    /\ x.pc = "requested"
    /\ Becomes(e,
         IF x.tool \notin enabled THEN Finish(x)
         ELSE IF x.caller THEN Cancelled([x EXCEPT !.status = "validating"])
         ELSE [x EXCEPT !.pc = "validating", !.status = "validating"])
    /\ UNCHANGED <<disposed, m4, enabled, permissions>>

\* The schema or tool.validate refuses the input.
InputRejected(e) ==
    /\ exec[e].pc = "validating"
    /\ Becomes(e, Finish(exec[e]))
    /\ UNCHANGED <<disposed, m4, enabled, permissions>>

\* ToolPermissionManager.decide(): session approvals win over session denials,
\* which win over rules, level policies and the default.
Decide(t) ==
    IF t \in approvals THEN "allow"
    ELSE IF t \in denials THEN "deny"
    ELSE policy[t]

\* The M3 decision, taken without suspending.
DecideM3(x) ==
    LET y == [x EXCEPT !.decision = Decide(x.tool)] IN
    CASE y.decision = "deny"  -> Denied(y)
      [] y.decision = "allow" -> [y EXCEPT !.pc = "loop"]
      [] OTHER ->
           LET z == Emit([y EXCEPT !.status = "awaiting_approval"],
                         "permission_required")
           IN IF z.channel THEN [z EXCEPT !.pc = "awaiting"] ELSE Denied(z)

\* PERMISSION_CHECK: suspend in m4.evaluate, or decide at once.
PermissionCheck(e) ==
    LET x == [exec[e] EXCEPT !.status = "permission_check"] IN
    /\ x.pc = "validating"
    /\ Becomes(e,
         IF x.caller THEN Cancelled(x)
         ELSE IF m4 THEN [x EXCEPT !.pc = "m4"]
         ELSE DecideM3(x))
    /\ UNCHANGED <<disposed, m4, enabled, permissions>>

\* m4.evaluate resolves.
M4Allows(e) ==
    /\ exec[e].pc = "m4"
    /\ Becomes(e, Emit([exec[e] EXCEPT !.decision = "allow", !.pc = "loop"],
                       "permission_granted"))
    /\ UNCHANGED <<disposed, m4, enabled, permissions>>

M4Denies(e) ==
    /\ exec[e].pc = "m4"
    /\ Becomes(e, Denied([exec[e] EXCEPT !.decision = "deny"]))
    /\ UNCHANGED <<disposed, m4, enabled, permissions>>

\* The host's approval callback resolves.
ApprovalAnswered(e, approved, scope) ==
    LET x == exec[e]
        session == IF scope = "session" THEN {x.tool} ELSE {}
    IN
    /\ x.pc = "awaiting"
    /\ IF Aborted(x)
       THEN /\ Becomes(e, Cancelled(x))
            /\ UNCHANGED permissions
       ELSE IF approved
       THEN /\ approvals' = approvals \cup session
            /\ Becomes(e, [x EXCEPT
                 !.pc = "loop",
                 !.decision = IF scope = "session" THEN "approved_session"
                                                   ELSE "approved_once"])
            /\ UNCHANGED <<policy, denials>>
       ELSE /\ denials' = denials \cup session
            /\ Becomes(e, Denied(x))
            /\ UNCHANGED <<policy, approvals>>
    /\ UNCHANGED <<disposed, m4, enabled>>

\* m4.evaluate or the approval callback rejects: execute() rejects with it.
PermissionThrows(e) ==
    /\ exec[e].pc \in {"m4", "awaiting"}
    /\ Becomes(e, Throw(exec[e]))
    /\ UNCHANGED <<disposed, m4, enabled, permissions>>

\* The head of the retry loop.
LoopHead(e) ==
    LET x == exec[e] IN
    /\ x.pc = "loop"
    /\ Becomes(e,
         IF Aborted(x) THEN Cancelled(x)
         ELSE IF x.attempt > 0 THEN [x EXCEPT !.pc = "backoff"]
         ELSE Emit([x EXCEPT !.pc = "starting", !.status = "running"], "started"))
    /\ UNCHANGED <<disposed, m4, enabled, permissions>>

\* Faulty: the result of the backoff sleep is ignored.
BackoffEnds_IgnoresAbort(e) ==
    /\ exec[e].pc = "backoff"
    /\ Becomes(e, Emit([exec[e] EXCEPT !.pc = "starting", !.status = "running"],
                       "started"))
    /\ UNCHANGED <<disposed, m4, enabled, permissions>>

\* sleep(): an abort during the backoff cancels, its end starts the attempt.
BackoffEnds(e) ==
    LET x == exec[e] IN
    /\ x.pc = "backoff"
    /\ Becomes(e,
         IF x.abort # "none" THEN Cancelled(x)
         ELSE Emit([x EXCEPT !.pc = "starting", !.status = "running"], "started"))
    /\ UNCHANGED <<disposed, m4, enabled, permissions>>

\* Faulty: the timer is armed for the first attempt only.
CallTool_ArmsOnce(e) ==
    /\ exec[e].pc = "starting"
    /\ Becomes(e, [exec[e] EXCEPT !.pc = "executing",
                                  !.armed = (exec[e].attempt = 0),
                                  !.calls = @ + 1])
    /\ UNCHANGED <<disposed, m4, enabled, permissions>>

\* After tool.started: arm the timer of this attempt and call tool.execute.
CallTool(e) ==
    /\ exec[e].pc = "starting"
    /\ Becomes(e, [exec[e] EXCEPT !.pc = "executing", !.armed = TRUE,
                                  !.calls = @ + 1])
    /\ UNCHANGED <<disposed, m4, enabled, permissions>>

\* ctx.progress(), which the tool keeps and may call even after it settled:
\* emit() drops every tool.progress but the first.
ReportProgress(e) ==
    /\ exec[e].calls > 0
    /\ Becomes(e, Emit(exec[e], "progress"))
    /\ UNCHANGED <<disposed, m4, enabled, permissions>>

\* Faulty: the abort is not looked at when the tool returns.
ToolReturns_Late(e) ==
    LET x == [exec[e] EXCEPT !.armed = FALSE] IN
    /\ x.pc = "executing"
    /\ Becomes(e, IF x.timedOut THEN Finish(x) ELSE Settle(x, "completed"))
    /\ UNCHANGED <<disposed, m4, enabled, permissions>>

\* tool.execute resolves: late after a timeout, late after an abort, or in time.
ToolReturns(e) ==
    LET x == [exec[e] EXCEPT !.armed = FALSE] IN
    /\ x.pc = "executing"
    /\ Becomes(e, IF x.timedOut THEN Finish(x)
                  ELSE IF x.abort # "none" THEN Cancelled(x)
                  ELSE Settle(x, "completed"))
    /\ UNCHANGED <<disposed, m4, enabled, permissions>>

\* What a tool throws, as normalizeError tells errors apart.
Errors == {"timeout_like", "abort_like", "io", "other"}

ErrorCancelled(x, err) ==
    /\ ~x.timedOut
    /\ err # "timeout_like"
    /\ x.abort # "none" \/ err = "abort_like"

ErrorRetryable(x, err) == x.timedOut \/ err \in {"timeout_like", "io"}

\* Faulty: a retryable error is retried whatever the tool declares.
ToolThrows_RetriesAll(e, err) ==
    LET x == [exec[e] EXCEPT !.armed = FALSE] IN
    /\ x.pc = "executing"
    /\ Becomes(e,
         IF ErrorCancelled(x, err) \/ x.caller THEN Cancelled(x)
         ELSE IF x.attempt + 1 < 1 + MaxRetries /\ ErrorRetryable(x, err)
         THEN [x EXCEPT !.pc = "loop", !.attempt = @ + 1]
         ELSE Finish(x))
    /\ UNCHANGED <<disposed, m4, enabled, permissions>>

\* tool.execute rejects: cancel, go round the loop again, or fail.
ToolThrows(e, err) ==
    LET x == [exec[e] EXCEPT !.armed = FALSE] IN
    /\ x.pc = "executing"
    /\ Becomes(e,
         IF ErrorCancelled(x, err) \/ x.caller THEN Cancelled(x)
         ELSE IF x.attempt + 1 < MaxAttempts(x) /\ ErrorRetryable(x, err)
         THEN [x EXCEPT !.pc = "loop", !.attempt = @ + 1]
         ELSE Finish(x))
    /\ UNCHANGED <<disposed, m4, enabled, permissions>>

-----------------------------------------------------------------------------
(* What interrupts an execution.                                              *)

\* The timer armTimer() set: timedOut, then abort the controller.
TimerFires(e) ==
    /\ exec[e].armed
    /\ Becomes(e, Abort([exec[e] EXCEPT !.armed = FALSE, !.timedOut = TRUE],
                        "timeout"))
    /\ UNCHANGED <<disposed, m4, enabled, permissions>>

\* cancel(executionId): only what is in the active map can be found.
Cancel(e) ==
    /\ e \in active
    /\ Becomes(e, Abort(exec[e], "cancel"))
    /\ UNCHANGED <<disposed, m4, enabled, permissions>>

\* The caller aborts options.signal: onCallerAbort aborts the controller.
CallerAborts(e) ==
    /\ exec[e].pc \in InFlight
    /\ ~exec[e].caller
    /\ Becomes(e, Abort([exec[e] EXCEPT !.caller = TRUE], "caller"))
    /\ UNCHANGED <<disposed, m4, enabled, permissions>>

\* Faulty: the active map is cleared, the calls in it are not aborted.
Dispose_ClearsOnly ==
    /\ ~disposed
    /\ disposed' = TRUE
    /\ active' = {}
    /\ UNCHANGED <<exec, m4, enabled, permissions>>

Dispose ==
    /\ ~disposed
    /\ disposed' = TRUE
    /\ exec' = [e \in Execs |->
                  IF e \in active
                  THEN Abort([exec[e] EXCEPT !.armed = FALSE], "dispose")
                  ELSE exec[e]]
    /\ active' = {}
    /\ UNCHANGED <<m4, enabled, permissions>>

-----------------------------------------------------------------------------
(* The registry and the permission manager change while executions run.       *)

\* register and enable, unregister and disable.
SetEnabled(t, on) ==
    /\ enabled' = IF on THEN enabled \cup {t} ELSE enabled \ {t}
    /\ UNCHANGED <<exec, active, disposed, m4, permissions>>

\* setRule, setLevelPolicy and setDefaultDecision: what is decided for the
\* tools in ts changes to d.
SetPolicy(ts, d) ==
    /\ policy' = [t \in Tools |-> IF t \in ts THEN d ELSE policy[t]]
    /\ UNCHANGED <<exec, active, disposed, m4, enabled, approvals, denials>>

ResetSession ==
    /\ approvals' = {}
    /\ denials' = {}
    /\ UNCHANGED <<exec, active, disposed, m4, enabled, policy>>

-----------------------------------------------------------------------------
Calls(e) ==
    \E t \in Tools, channel, preAborted \in BOOLEAN :
        Execute(e, t, channel, preAborted)

\* Steps the event loop takes by itself.
Runs(e) ==
    \/ Resolve(e) \/ InputRejected(e) \/ PermissionCheck(e)
    \/ LoopHead(e) \/ BackoffEnds(e) \/ CallTool(e)

\* Answers of the permission components and of the tool.
M4Answers(e) == M4Allows(e) \/ M4Denies(e)

UserAnswers(e) ==
    \E approved \in BOOLEAN, scope \in {"once", "session"} :
        ApprovalAnswered(e, approved, scope)

ToolSettles(e) == ToolReturns(e) \/ \E err \in Errors : ToolThrows(e, err)

Executing(e) ==
    \/ Calls(e) \/ Runs(e) \/ M4Answers(e) \/ UserAnswers(e)
    \/ PermissionThrows(e) \/ ToolSettles(e)
    \/ ReportProgress(e)
    \/ TimerFires(e) \/ Cancel(e) \/ CallerAborts(e)

Configuring ==
    \/ \E t \in Tools, on \in BOOLEAN : SetEnabled(t, on)
    \/ \E ts \in SUBSET Tools, d \in Decisions : SetPolicy(ts, d)
    \/ ResetSession

Next == (\E e \in Execs : Executing(e)) \/ Dispose \/ Configuring

Spec == Init /\ [][Next]_vars

(* Fairness.  The event loop runs what is ready, timers fire, the M4 pipeline *)
(* answers (its approvals expire), and a tool settles once its signal is      *)
(* aborted, as ToolContext.signal asks of it.  Nothing makes the user answer  *)
(* an M3 approval.                                                            *)
ToolObeysSignal(e) == exec[e].abort # "none" /\ ToolSettles(e)

Fairness ==
    \A e \in Execs :
        /\ WF_vars(Runs(e))
        /\ WF_vars(TimerFires(e))
        /\ WF_vars(M4Answers(e))
        /\ WF_vars(ToolObeysSignal(e))

FairSpec == Spec /\ Fairness

-----------------------------------------------------------------------------
(* Properties.                                                                *)

\* Whatever path an accepted call takes, a ToolResult it returns is accounted
\* for once and consistently: its status, its single terminal event and its
\* single audit record agree (executor.ts: emit, asResult, finish, cancelled).
ReturnedIsAccounted ==
    \A e \in Execs : exec[e].pc = "returned" =>
        /\ exec[e].emitted \cap TerminalStatuses = {exec[e].status}
        /\ exec[e].audit = {exec[e].status}

\* A success is never reported for a call whose signal was aborted or whose
\* timer fired, however late the tool returns (execute(): "never a success").
NoLateSuccess ==
    \A e \in Execs : exec[e].pc = "returned" /\ exec[e].status = "completed" =>
        /\ exec[e].abort = "none"
        /\ ~exec[e].timedOut

\* cancel() and dispose() reach every call in flight: it is in the active map
\* until the service is disposed, and its signal is aborted from then on.
EveryCallReachable ==
    \A e \in Execs :
        /\ exec[e].pc \in InFlight =>
             IF disposed THEN exec[e].abort # "none" ELSE e \in active
        /\ e \in active => exec[e].pc \in InFlight /\ ~disposed

\* No attempt starts once the call is aborted: cancellation is observed before
\* every attempt, the retries after a backoff included.
NoAttemptAfterAbort ==
    [][\A e \in Execs :
         exec[e].pc # "starting" /\ exec'[e].pc = "starting"
           => ~Aborted(exec[e])]_vars

\* Once its tool has been dispatched a call ends, even if the tool hangs until
\* its signal is aborted: every attempt has a timer of its own.  Under the M4
\* pipeline, whose approvals expire, every accepted call ends.
EveryCallEnds ==
    \A e \in Execs :
        exec[e].pc = "executing" \/ (m4 /\ exec[e].pc = "requested")
          ~> exec[e].pc \in Closed

-----------------------------------------------------------------------------
(* The executor implements the contract of execute().                         *)

Stage(x) ==
    CASE x.pc = "idle"          -> "new"
      [] x.pc \in Unpermitted   -> "open"
      [] x.pc \in Permitted     -> "permitted"
      [] OTHER                  -> "closed"

Contract ==
    INSTANCE ToolContract WITH
        stage   <- [e \in Execs |-> Stage(exec[e])],
        limit   <- [e \in Execs |-> IF exec[e].pc \in {"idle", "refused"} THEN 0
                                    ELSE MaxAttempts(exec[e])],
        runs    <- [e \in Execs |-> exec[e].calls],
        outcome <- [e \in Execs |-> IF exec[e].pc \in {"returned", "refused"}
                                    THEN exec[e].status ELSE "none"]

\* Every behaviour of the executor is one the contract allows.
ImplementsContract == Contract!CSpec
=============================================================================
