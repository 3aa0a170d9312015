------------------------------ MODULE AgentLoop ------------------------------
(* The native engine of packages/agent-runtime/src/native/engine: runAgentLoop *)
(* (agent-loop.ts), dispatchToolCall (tool-dispatch.ts) and the session        *)
(* manager that owns the transcript (session.ts).                              *)
(*                                                                             *)
(* A run suspends while it streams a model turn, while the permission gate     *)
(* decides and while a tool executes; its listeners may abort it at every      *)
(* event.  "pc" names these points, and an action is the code between two of   *)
(* them.  A promise that has settled ("gated", "executed") is a point of its   *)
(* own: the code behind the await runs later than the settlement.              *)
EXTENDS Naturals, Sequences

CONSTANTS Runs,           \* one identity per call of run()
          MaxIterations,  \* options.maxIterations
          MaxCalls,       \* bound on the tool calls of one model turn
          MaxMessages,    \* maxTranscriptMessages
          MaxSessions     \* bound on the sessions the manager creates

ASSUME LoopConstants ==
    /\ MaxIterations \in Nat /\ MaxCalls \in Nat
    /\ MaxMessages \in Nat \ {0} /\ MaxSessions \in Nat

Reasons == {"complete", "aborted", "error", "max_iterations", "incomplete"}

\* How the stream of a turn can end; "none" is an end without a finish event.
Finishes == {"complete", "incomplete", "error", "aborted", "none"}

\* The points of a run, and those between its first and its last statement.
Working == {"started", "streaming", "dispatch", "gating", "gated",
            "executing", "executed"}
Running == Working \cup {"returned"}

VARIABLES
    sessions,   \* the NativeSession objects: transcript and settled flag
    current,    \* the one in the manager's map, 0 for none
    disposed,   \* the manager's disposed flag
    loop,       \* the locals of each run, and its abort signal
    live,       \* the tool executions of each run that have not settled
    told        \* those of them whose own signal is aborted

vars == <<sessions, current, disposed, loop, live, told>>

\* A tool execution is known by its iteration and its place in the turn.
Executions == (1..MaxIterations) \X (0..MaxCalls)

Blocks == [kind : {"prompt", "use", "results"}, run : Runs, turn : 0..MaxIterations]
Seeds  == [kind : {"seed"}]
Session == [messages : Seq(Blocks \cup Seeds), settled : BOOLEAN]

Loop == [pc : {"idle", "closed"} \cup Running,
         session : 0..MaxSessions,
         iteration : 0..MaxIterations,
         calls : 0..MaxCalls,     \* tool calls of the turn not answered yet
         done : 0..MaxCalls,      \* resultBlocks gathered in the turn
         approved : BOOLEAN,      \* the gate's last decision
         aborted : BOOLEAN,       \* the run's AbortSignal
         reason : {"none"} \cup Reasons]

TypeOK ==
    /\ sessions \in Seq(Session)
    /\ Len(sessions) <= MaxSessions
    /\ current \in 0..Len(sessions)
    /\ disposed \in BOOLEAN
    /\ loop \in [Runs -> Loop]
    /\ \A r \in Runs : loop[r].session <= Len(sessions)
    /\ live \in [Runs -> SUBSET Executions]
    /\ told \in [Runs -> SUBSET Executions]
    /\ \A r \in Runs : told[r] \subseteq live[r]

Blank == [pc |-> "idle", session |-> 0, iteration |-> 0, calls |-> 0, done |-> 0,
          approved |-> FALSE, aborted |-> FALSE, reason |-> "none"]

Init ==
    /\ sessions = <<>>
    /\ current = 0
    /\ disposed = FALSE
    /\ loop = [r \in Runs |-> Blank]
    /\ live = [r \in Runs |-> {}]
    /\ told = [r \in Runs |-> {}]

Block(kind, r, turn) == [kind |-> kind, run |-> r, turn |-> turn]

Push(r, block) ==
    [sessions EXCEPT ![loop[r].session].messages = Append(@, block)]

Becomes(r, x) == loop' = [loop EXCEPT ![r] = x]

\* runAgentLoop resolves: its locals are gone, and run() goes on behind its await.
Returned(x, reason) ==
    [Blank EXCEPT !.pc = "returned", !.reason = reason,
                  !.session = x.session, !.aborted = x.aborted]

Return(r, reason) == Becomes(r, Returned(loop[r], reason))

\* The head of the loop: the bound on iterations, or iteration_start.
Advance(x) ==
    IF x.iteration = MaxIterations THEN Returned(x, "max_iterations")
    ELSE [x EXCEPT !.pc = "started", !.iteration = @ + 1, !.done = 0]

\* The tool execution a run awaits.
Awaited(r) == <<loop[r].iteration, loop[r].done>>

-----------------------------------------------------------------------------
(* NativeSessionManager.                                                       *)

\* create(): idempotent; a seed replaces the transcript.  The runtime seeds a
\* session before it runs it, never while it runs.
Create(seeded) ==
    LET seed == IF seeded THEN <<[kind |-> "seed"]>> ELSE <<>> IN
    /\ IF current = 0
       THEN /\ Len(sessions) < MaxSessions
            /\ sessions' = Append(sessions, [messages |-> seed, settled |-> TRUE])
            /\ current' = Len(sessions) + 1
       ELSE /\ seeded /\ sessions[current].settled
            /\ sessions' = [sessions EXCEPT ![current].messages = seed]
            /\ UNCHANGED current
    /\ UNCHANGED <<disposed, loop, live, told>>

\* A run behind its first statements: an aborted signal ends it at once.
Begun(preAborted) ==
    LET x == [Blank EXCEPT !.session = current, !.aborted = preAborted] IN
    IF preAborted THEN Returned(x, "aborted") ELSE Advance(x)

\* The prompt is pushed and the loop entered.
Entered(r, preAborted) ==
    /\ sessions' = [sessions EXCEPT ![current] =
                      [messages |-> Append(@.messages, Block("prompt", r, 0)),
                       settled |-> FALSE]]
    /\ Becomes(r, Begun(preAborted))
    /\ UNCHANGED <<current, disposed, live, told>>

\* Faulty: the concurrent-start guard is missing.
Run_Unguarded(r, preAborted) ==
    /\ loop[r].pc = "idle"
    /\ ~disposed /\ current # 0
    /\ Entered(r, preAborted)

\* run(): refused when the manager is disposed, the session unknown or a run
\* unsettled.
Run(r, preAborted) ==
    /\ loop[r].pc = "idle"
    /\ ~disposed /\ current # 0 /\ sessions[current].settled
    /\ Entered(r, preAborted)

\* trim(): the oldest messages go, one at a time.
Trim(s) ==
    IF Len(s) <= MaxMessages THEN s
    ELSE SubSeq(s, Len(s) - MaxMessages + 1, Len(s))

\* The end of run(), the finally block included.
Settle(r) ==
    /\ loop[r].pc = "returned"
    /\ Becomes(r, [loop[r] EXCEPT !.pc = "closed"])
    /\ sessions' = [sessions EXCEPT ![loop[r].session] =
                      [messages |-> Trim(@.messages), settled |-> TRUE]]
    /\ UNCHANGED <<current, disposed, live, told>>

-----------------------------------------------------------------------------
(* runAgentLoop: a model turn.                                                 *)

\* The output budget of the request: exhausted, or the stream starts.
BudgetExhausted(r) ==
    /\ loop[r].pc = "started"
    /\ Return(r, "error")
    /\ UNCHANGED <<sessions, current, disposed, live, told>>

StartStream(r) ==
    /\ loop[r].pc = "started"
    /\ Becomes(r, [loop[r] EXCEPT !.pc = "streaming"])
    /\ UNCHANGED <<sessions, current, disposed, live, told>>

\* iterateUntilAborted() stops at an abort, whatever the provider does.
StreamAborted(r) ==
    /\ loop[r].pc = "streaming" /\ loop[r].aborted
    /\ Return(r, "aborted")
    /\ UNCHANGED <<sessions, current, disposed, live, told>>

\* What the end of a stream makes of the turn.  Only finish(complete) is
\* completion evidence; tool calls are recorded as one assistant message before
\* any is dispatched.
TurnOver(r, finish, calls) ==
    /\ \/ /\ finish \in {"error", "aborted"}
          /\ Return(r, finish)
          /\ UNCHANGED sessions
       \/ /\ finish \in {"incomplete", "none"}
          /\ Return(r, "incomplete")
          /\ UNCHANGED sessions
       \/ /\ finish = "complete" /\ calls = 0
          /\ Return(r, "complete")
          /\ UNCHANGED sessions
       \/ /\ finish = "complete" /\ calls # 0
          /\ Becomes(r, [loop[r] EXCEPT !.pc = "dispatch", !.calls = calls])
          /\ sessions' = Push(r, Block("use", r, loop[r].iteration))
    /\ UNCHANGED <<current, disposed, live, told>>

\* Faulty: the signal is not looked at once the stream has ended.
StreamEnds_IgnoresAbort(r, finish, calls) ==
    loop[r].pc = "streaming" /\ TurnOver(r, finish, calls)

\* Faulty: the tool calls of a truncated turn are recorded, never dispatched.
StreamEnds_RecordsTruncated(r, finish, calls) ==
    /\ loop[r].pc = "streaming" /\ ~loop[r].aborted
    /\ IF finish = "incomplete"
       THEN /\ Return(r, finish)
            /\ sessions' = Push(r, Block("use", r, loop[r].iteration))
            /\ UNCHANGED <<current, disposed, live, told>>
       ELSE TurnOver(r, finish, calls)

\* The turn ends before any abort.
StreamEnds(r, finish, calls) ==
    /\ loop[r].pc = "streaming" /\ ~loop[r].aborted
    /\ TurnOver(r, finish, calls)

-----------------------------------------------------------------------------
(* runAgentLoop and dispatchToolCall: the tool calls of a turn, one by one.    *)

\* A tool_result is gathered.
Gathered(x) ==
    [x EXCEPT !.pc = "dispatch", !.calls = @ - 1, !.done = @ + 1, !.approved = FALSE]

\* Cancellation wins between calls; a call of an unknown tool or with malformed
\* arguments is denied, any other one goes to the gate; the last result completes
\* the turn.
Dispatch(r) ==
    LET x == loop[r] IN
    /\ x.pc = "dispatch"
    /\ \/ /\ x.aborted
          /\ Return(r, "aborted")
          /\ UNCHANGED sessions
       \/ /\ ~x.aborted /\ x.calls = 0
          /\ sessions' = Push(r, Block("results", r, x.iteration))
          /\ Becomes(r, Advance(x))
       \/ /\ ~x.aborted /\ x.calls # 0
          /\ Becomes(r, [x EXCEPT !.pc = "gating"]) \/ Becomes(r, Gathered(x))
          /\ UNCHANGED sessions
    /\ UNCHANGED <<current, disposed, live, told>>

\* The gate's promise settles; a rejection is a denial.
GateAnswers(r, approved) ==
    /\ loop[r].pc = "gating"
    /\ Becomes(r, [loop[r] EXCEPT !.pc = "gated", !.approved = approved])
    /\ UNCHANGED <<sessions, current, disposed, live, told>>

\* Behind the await of the gate: a cancelled run starts no tool, whatever the
\* gate said, and its late denial ends the run.
BehindGate(r, aborted) ==
    /\ \/ /\ aborted
          /\ Return(r, "aborted")
          /\ UNCHANGED live
       \/ /\ ~aborted /\ ~loop[r].approved
          /\ Becomes(r, Gathered(loop[r]))
          /\ UNCHANGED live
       \/ /\ ~aborted /\ loop[r].approved
          /\ Becomes(r, [loop[r] EXCEPT !.pc = "executing"])
          /\ live' = [live EXCEPT ![r] = @ \cup {Awaited(r)}]
    /\ UNCHANGED <<sessions, current, disposed, told>>

\* Faulty: the signal is not looked at again once the gate has answered.
AfterGate_Stale(r) == loop[r].pc = "gated" /\ BehindGate(r, FALSE)

\* Faulty: the gate is awaited without racing the signal.
AfterGate_Waits(r) == loop[r].pc = "gated" /\ BehindGate(r, loop[r].aborted)

\* The run goes on when the gate has answered or its signal is aborted.
AfterGate(r) ==
    /\ loop[r].pc = "gated" \/ (loop[r].pc = "gating" /\ loop[r].aborted)
    /\ BehindGate(r, loop[r].aborted)

\* A tool settles, in time or long after its dispatch was given up.
ToolSettles(r, e) ==
    /\ e \in live[r]
    /\ live' = [live EXCEPT ![r] = @ \ {e}]
    /\ told' = [told EXCEPT ![r] = @ \ {e}]
    /\ IF loop[r].pc = "executing" /\ e = Awaited(r)
       THEN Becomes(r, [loop[r] EXCEPT !.pc = "executed"])
       ELSE UNCHANGED loop
    /\ UNCHANGED <<sessions, current, disposed>>

\* Faulty: the deadline settles the dispatch and leaves the tool alone.
DeadlineFires_LeavesTool(r) ==
    /\ loop[r].pc = "executing"
    /\ Becomes(r, [loop[r] EXCEPT !.pc = "executed"])
    /\ UNCHANGED <<sessions, current, disposed, live, told>>

\* Faulty: the deadline only tells the tool, whose settlement is awaited.
DeadlineFires_AwaitsTool(r) ==
    /\ loop[r].pc = "executing"
    /\ told' = [told EXCEPT ![r] = @ \cup {Awaited(r)}]
    /\ UNCHANGED <<sessions, current, disposed, loop, live>>

\* The hard deadline of a tool: its signal is aborted and its dispatch settles.
DeadlineFires(r) ==
    /\ loop[r].pc = "executing"
    /\ Becomes(r, [loop[r] EXCEPT !.pc = "executed"])
    /\ told' = [told EXCEPT ![r] = @ \cup {Awaited(r)}]
    /\ UNCHANGED <<sessions, current, disposed, live>>

\* Behind the await of the tool: an abort is rethrown and ends the run,
\* anything else is the result of the call.
AfterTool(r) ==
    LET x == loop[r] IN
    /\ x.pc = "executed" \/ (x.pc = "executing" /\ x.aborted)
    /\ IF x.aborted THEN Return(r, "aborted") ELSE Becomes(r, Gathered(x))
    /\ UNCHANGED <<sessions, current, disposed, live, told>>

-----------------------------------------------------------------------------
(* The host: abort, stop and dispose.                                          *)

\* The signals of the runs in rs are aborted; the tool a run awaits is told.
Aborting(rs) ==
    /\ loop' = [r \in Runs |-> IF r \in rs THEN [loop[r] EXCEPT !.aborted = TRUE]
                              ELSE loop[r]]
    /\ told' = [r \in Runs |->
                  IF r \in rs /\ loop[r].pc = "executing"
                  THEN told[r] \cup {Awaited(r)} ELSE told[r]]

Abort(r) ==
    /\ loop[r].pc \in Running /\ ~loop[r].aborted
    /\ Aborting({r})
    /\ UNCHANGED <<sessions, current, disposed, live>>

\* The runtime's stopSession(): abort, empty the transcript, forget the session.
Stop ==
    /\ current # 0
    /\ Aborting({r \in Runs : loop[r].pc \in Running /\ loop[r].session = current})
    /\ sessions' = [sessions EXCEPT ![current].messages = <<>>]
    /\ current' = 0
    /\ UNCHANGED <<disposed, live>>

\* The runtime's dispose(): abort, and the manager drops everything.
Dispose ==
    /\ ~disposed
    /\ disposed' = TRUE
    /\ current' = 0
    /\ Aborting({r \in Runs : loop[r].pc \in Running /\ loop[r].session = current})
    /\ UNCHANGED <<sessions, live>>

-----------------------------------------------------------------------------
StreamSettles(r) == \E finish \in Finishes, calls \in 0..MaxCalls : StreamEnds(r, finish, calls)

GateSettles(r) == \E approved \in BOOLEAN : GateAnswers(r, approved)

\* Steps the event loop takes by itself.
Unwinds(r) ==
    \/ StartStream(r) \/ StreamAborted(r) \/ Dispatch(r)
    \/ AfterGate(r) \/ AfterTool(r) \/ Settle(r)

Runtime(r) ==
    \/ \E preAborted \in BOOLEAN : Run(r, preAborted)
    \/ Unwinds(r) \/ BudgetExhausted(r) \/ StreamSettles(r) \/ GateSettles(r)
    \/ \E e \in live[r] : ToolSettles(r, e)
    \/ DeadlineFires(r) \/ Abort(r)

Next ==
    \/ \E r \in Runs : Runtime(r)
    \/ \E seeded \in BOOLEAN : Create(seeded)
    \/ Stop \/ Dispose

Spec == Init /\ [][Next]_vars

(* Fairness.  The event loop runs what is ready and the dispatch timer fires.  *)
(* Nothing makes a provider end its stream, a gate answer or a tool settle.    *)
Fairness == \A r \in Runs : WF_vars(Unwinds(r)) /\ WF_vars(DeadlineFires(r))

FairSpec == Spec /\ Fairness

-----------------------------------------------------------------------------
(* Properties.                                                                 *)

Using(r) == loop[r].pc \in {"dispatch", "gating", "gated", "executing", "executed"}

\* Two runs never append to one transcript: an unsettled session admits no
\* second run, and a session re-created after stop() is another object.
OneRunPerTranscript ==
    \A r, s \in Runs :
        /\ loop[r].pc \in Running /\ loop[s].pc \in Running
        /\ loop[r].session = loop[s].session
        => r = s

\* A tool_use message is followed at once by the tool_results of its turn,
\* unless its run was aborted while it dispatched the turn or still does, and
\* tool_results follow their tool_use unless trim() dropped it (agent-loop.ts
\* 18-20, as far as the code keeps it).
PairedUnlessAborted ==
    \A i \in DOMAIN sessions : LET m == sessions[i].messages IN
        \A k \in DOMAIN m :
            /\ m[k].kind = "use" =>
                 \/ k < Len(m) /\ m[k + 1] = Block("results", m[k].run, m[k].turn)
                 \/ k = Len(m) /\ Using(m[k].run)
                 \/ loop[m[k].run].reason = "aborted"
            /\ m[k].kind = "results" /\ k > 1 =>
                 m[k - 1] = Block("use", m[k].run, m[k].turn)

\* No tool starts once the run is aborted, even if the gate approved it before:
\* the signal is looked at behind every await.
NoToolOnceAborted ==
    [][\A r \in Runs : loop[r].aborted => live'[r] \subseteq live[r]]_vars

\* A tool that still runs although nobody awaits it has been told to stop, so
\* that a run that has returned leaves nothing behind that was not.
AbandonedAreTold ==
    \A r \in Runs :
        live[r] \ (IF loop[r].pc = "executing" THEN {Awaited(r)} ELSE {}) \subseteq told[r]

\* A run is never reported complete once it is aborted, nor before every tool
\* call it made was answered.
CompleteIsClean ==
    [][\A r \in Runs :
         loop[r].reason # "complete" /\ loop'[r].reason = "complete"
           => ~loop[r].aborted /\ loop[r].calls = 0]_vars

\* An aborted run ends although the provider, the gate and the tool it waits
\* for never settle: "No zombie promises" (agent-loop.ts:24).
AbortedRunsEnd ==
    \A r \in Runs : loop[r].pc \in Running /\ loop[r].aborted ~> loop[r].pc = "closed"

\* A run whose provider and gate always settle ends: the bound on iterations
\* and the deadline of every tool see to it.
AnsweredRunsEnd ==
    (\A r \in Runs : WF_vars(StreamSettles(r)) /\ WF_vars(GateSettles(r)))
      => \A r \in Runs : loop[r].pc = "started" ~> loop[r].pc = "closed"
=============================================================================
