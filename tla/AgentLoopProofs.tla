--------------------------- MODULE AgentLoopProofs ---------------------------
(* Safety of the native engine, for any number of runs, sessions, iterations  *)
(* and tool calls.                                                            *)
EXTENDS AgentLoop, TLAPS

Awaiting == {"gating", "gated", "executing", "executed"}

\* What holds of the locals of every run.
LocalHolds(x) ==
    /\ x.pc = "idle" <=> x.session = 0
    /\ x.pc \in Working => x.iteration # 0 /\ x.reason = "none"
    /\ x.pc \in {"started", "streaming"} => x.calls = 0 /\ x.done = 0
    /\ x.pc \in Awaiting \cup {"dispatch"} => x.calls + x.done <= MaxCalls
    /\ x.pc \in Awaiting => x.calls # 0

\* An awaited tool execution has not settled.
AwaitedIsLive == \A r \in Runs : loop[r].pc = "executing" => Awaited(r) \in live[r]

Types == TypeOK /\ AwaitedIsLive /\ \A r \in Runs : LocalHolds(loop[r])

\* A run in flight keeps its session unsettled, and is the only one in it.
Owned ==
    /\ \A r \in Runs : loop[r].pc \in Running => ~sessions[loop[r].session].settled
    /\ OneRunPerTranscript

\* Every tool that is not awaited was told, and so is an awaited one whose run
\* is aborted.
Told ==
    /\ AbandonedAreTold
    /\ \A r \in Runs : loop[r].pc = "executing" /\ loop[r].aborted => Awaited(r) \in told[r]

\* The blocks of a run are in its session, and a run that dispatches tools has
\* its tool calls last in it until it is aborted.
Located ==
    /\ \A i \in DOMAIN sessions : \A k \in DOMAIN sessions[i].messages :
         sessions[i].messages[k].kind # "seed"
           => loop[sessions[i].messages[k].run].session = i
    /\ \A r \in Runs : Using(r) /\ ~loop[r].aborted =>
         LET m == sessions[loop[r].session].messages IN
           Len(m) # 0 /\ m[Len(m)] = Block("use", r, loop[r].iteration)

Inv == Types /\ Owned /\ Told /\ Located /\ PairedUnlessAborted

-----------------------------------------------------------------------------
(* Types and locals.                                                           *)

\* The locals of run r become x, which is as far in its session as before.
Moves(r, x) ==
    /\ x \in Loop /\ LocalHolds(x)
    /\ x.session = loop[r].session /\ x.aborted = loop[r].aborted
    /\ loop[r].pc \in Running /\ x.pc \in Running
    /\ loop' = [loop EXCEPT ![r] = x]
    /\ UNCHANGED <<current, disposed>>

LEMMA BlankHolds == Blank \in Loop /\ LocalHolds(Blank)
<1>1. Blank \in Loop
  BY LoopConstants DEF Blank, Loop
<1>2. Blank.pc = "idle" /\ Blank.session = 0
  BY DEF Blank
<1> QED BY <1>1, <1>2 DEF LocalHolds, Working, Awaiting

LEMMA ReturnedHolds ==
    ASSUME NEW x \in Loop, NEW reason \in Reasons, x.session # 0
    PROVE  /\ Returned(x, reason) \in Loop
           /\ LocalHolds(Returned(x, reason))
           /\ Returned(x, reason).session = x.session
           /\ Returned(x, reason).aborted = x.aborted
           /\ Returned(x, reason).pc = "returned"
           /\ Returned(x, reason).reason = reason
<1> DEFINE y == Returned(x, reason)
<1>1. y = [Blank EXCEPT !.pc = "returned", !.reason = reason,
                        !.session = x.session, !.aborted = x.aborted]
  BY DEF Returned
<1>2. x.session \in 0..MaxSessions /\ x.aborted \in BOOLEAN
  BY DEF Loop
<1>3. y \in Loop
  BY <1>1, <1>2, BlankHolds DEF Loop, Running
<1>4. /\ y.pc = "returned" /\ y.reason = reason
      /\ y.session = x.session /\ y.aborted = x.aborted
  BY <1>1, BlankHolds DEF Loop
<1>5. LocalHolds(y)
  BY <1>4 DEF LocalHolds, Working, Awaiting
<1> QED BY <1>3, <1>4, <1>5

LEMMA AdvanceHolds ==
    ASSUME NEW x \in Loop, x.session # 0, x.calls = 0, x.reason = "none"
    PROVE  /\ Advance(x) \in Loop
           /\ LocalHolds(Advance(x))
           /\ Advance(x).session = x.session
           /\ Advance(x).aborted = x.aborted
           /\ Advance(x).pc \in {"started", "returned"}
           /\ Advance(x).reason \in {"none", "max_iterations"}
<1>1. CASE x.iteration = MaxIterations
  BY <1>1, ReturnedHolds DEF Advance, Reasons
<1>2. CASE x.iteration # MaxIterations
  <2>1. PICK y : y = [x EXCEPT !.pc = "started", !.iteration = @ + 1, !.done = 0]
    OBVIOUS
  <2>2. x.iteration \in 0..MaxIterations
    BY DEF Loop
  <2>3. x.iteration + 1 \in 0..MaxIterations /\ x.iteration + 1 # 0
    BY <1>2, <2>2, LoopConstants
  <2>4. y \in Loop
    BY <2>1, <2>3, LoopConstants DEF Loop, Running, Working
  <2>5. /\ y.pc = "started" /\ y.iteration = x.iteration + 1 /\ y.done = 0
        /\ y.calls = 0 /\ y.session = x.session /\ y.aborted = x.aborted
        /\ y.reason = x.reason
    BY <2>1 DEF Loop
  <2>6. LocalHolds(y)
    BY <2>3, <2>5 DEF LocalHolds, Working, Awaiting
  <2>7. Advance(x) = y
    BY <1>2, <2>1 DEF Advance
  <2> QED BY <2>4, <2>5, <2>6, <2>7
<1> QED BY <1>1, <1>2

LEMMA GatheredHolds ==
    ASSUME NEW x \in Loop, LocalHolds(x), x.pc \in Awaiting \cup {"dispatch"}, x.calls # 0
    PROVE  /\ Gathered(x) \in Loop
           /\ LocalHolds(Gathered(x))
           /\ Gathered(x).session = x.session
           /\ Gathered(x).aborted = x.aborted
           /\ Gathered(x).iteration = x.iteration
           /\ Gathered(x).pc = "dispatch"
           /\ Gathered(x).reason = x.reason
<1>1. PICK y : y = [x EXCEPT !.pc = "dispatch", !.calls = @ - 1, !.done = @ + 1,
                            !.approved = FALSE]
  OBVIOUS
<1>2. x.calls \in 0..MaxCalls /\ x.done \in 0..MaxCalls
  BY DEF Loop
<1>3. /\ x.calls + x.done <= MaxCalls /\ x.iteration # 0 /\ x.session # 0
      /\ x.reason = "none"
  BY DEF LocalHolds, Working, Awaiting
<1>4. /\ x.calls - 1 \in 0..MaxCalls /\ x.done + 1 \in 0..MaxCalls
      /\ (x.calls - 1) + (x.done + 1) <= MaxCalls
  <2>1. \A n, c, d \in Nat : c # 0 /\ c <= n /\ c + d <= n
          => c - 1 \in 0..n /\ d + 1 \in 0..n /\ (c - 1) + (d + 1) <= n
    OBVIOUS
  <2>2. MaxCalls \in Nat /\ x.calls \in Nat /\ x.done \in Nat /\ x.calls <= MaxCalls
    BY <1>2, LoopConstants
  <2> QED BY <1>3, <2>1, <2>2
<1>5. y \in Loop
  BY <1>1, <1>4 DEF Loop, Running, Working
<1>6. /\ y.pc = "dispatch" /\ y.calls = x.calls - 1 /\ y.done = x.done + 1
      /\ y.iteration = x.iteration /\ y.session = x.session
      /\ y.aborted = x.aborted /\ y.reason = x.reason
  BY <1>1 DEF Loop
<1>7. LocalHolds(y)
  BY <1>3, <1>4, <1>6 DEF LocalHolds, Working, Awaiting
<1> QED BY <1>1, <1>5, <1>6, <1>7 DEF Gathered

LEMMA RunFacts ==
    ASSUME Types, NEW r \in Runs
    PROVE  /\ loop[r] \in Loop /\ LocalHolds(loop[r])
           /\ loop[r].pc # "idle" => loop[r].session \in 1..Len(sessions)
           /\ live[r] \in SUBSET Executions /\ told[r] \subseteq live[r]
<1>1. loop[r] \in Loop /\ LocalHolds(loop[r]) /\ loop[r].session <= Len(sessions)
  BY DEF Types, TypeOK
<1>2. loop[r].pc # "idle" => loop[r].session \in 1..Len(sessions)
  BY <1>1, LoopConstants DEF LocalHolds, Loop
<1> QED BY <1>1, <1>2 DEF Types, TypeOK

LEMMA AwaitedIsExecution ==
    ASSUME Types, NEW r \in Runs, loop[r].pc \in Working
    PROVE  Awaited(r) \in Executions
<1>1. loop[r] \in Loop /\ loop[r].iteration # 0
  BY RunFacts DEF LocalHolds
<1>2. loop[r].iteration \in 1..MaxIterations /\ loop[r].done \in 0..MaxCalls
  BY <1>1, LoopConstants DEF Loop
<1> QED BY <1>2 DEF Awaited, Executions

-----------------------------------------------------------------------------
(* What a step of a run amounts to.                                            *)

UsingPoints == Awaiting \cup {"dispatch"}

\* The run goes on, its transcript and its tools untouched.
Quiet(r, x) ==
    /\ Moves(r, x) /\ UNCHANGED <<sessions, live, told>>
    /\ x.pc # "executing"
    /\ loop[r].pc = "executing" => loop[r].aborted
    /\ loop[r].pc \in Working
    /\ Using(r) => \/ x.pc \in UsingPoints /\ x.iteration = loop[r].iteration
                   \/ x.reason = "aborted"
    /\ ~Using(r) => x.pc \notin UsingPoints
    /\ x.reason = "complete" => ~loop[r].aborted /\ loop[r].calls = 0

\* A turn with tool calls is recorded.
Uses(r, x) ==
    /\ Moves(r, x) /\ UNCHANGED <<live, told>>
    /\ loop[r].pc = "streaming" /\ ~loop[r].aborted
    /\ x.pc = "dispatch" /\ x.iteration = loop[r].iteration
    /\ sessions' = Push(r, Block("use", r, loop[r].iteration))

\* The results of a turn are recorded.
Answered(r, x) ==
    /\ Moves(r, x) /\ UNCHANGED <<live, told>>
    /\ loop[r].pc = "dispatch" /\ ~loop[r].aborted
    /\ x.pc \in {"started", "returned"} /\ x.reason # "complete"
    /\ sessions' = Push(r, Block("results", r, loop[r].iteration))

\* A tool starts.
Starts(r, x) ==
    /\ Moves(r, x) /\ UNCHANGED <<sessions, told>>
    /\ loop[r].pc = "gated" /\ ~loop[r].aborted
    /\ x.pc = "executing" /\ x.iteration = loop[r].iteration /\ x.done = loop[r].done
    /\ live' = [live EXCEPT ![r] = @ \cup {Awaited(r)}]

\* The execution a run awaits is over, for the run at least.
Executed(r, x) ==
    /\ Moves(r, x) /\ UNCHANGED sessions
    /\ loop[r].pc = "executing" /\ x.pc = "executed"
    /\ x.iteration = loop[r].iteration
    /\ \/ live' = [live EXCEPT ![r] = @ \ {Awaited(r)}]
          /\ told' = [told EXCEPT ![r] = @ \ {Awaited(r)}]
       \/ live' = live /\ told' = [told EXCEPT ![r] = @ \cup {Awaited(r)}]

\* A tool that nobody awaits settles.
SettlesLate(r, e) ==
    /\ e \in live[r]
    /\ loop[r].pc = "executing" => e # Awaited(r)
    /\ live' = [live EXCEPT ![r] = @ \ {e}]
    /\ told' = [told EXCEPT ![r] = @ \ {e}]
    /\ UNCHANGED <<loop, sessions, current, disposed>>

RunSteps(r) ==
    \/ \E x \in Loop : Quiet(r, x) \/ Uses(r, x) \/ Answered(r, x)
                         \/ Starts(r, x) \/ Executed(r, x)
    \/ \E e \in live[r] : SettlesLate(r, e)

LEMMA ReturnIsQuiet ==
    ASSUME Types, NEW r \in Runs, NEW reason \in Reasons, loop[r].pc \in Working,
           Return(r, reason), UNCHANGED <<sessions, current, disposed, live, told>>,
           Using(r) => reason = "aborted",
           loop[r].pc = "executing" => loop[r].aborted,
           reason = "complete" => ~loop[r].aborted /\ loop[r].calls = 0
    PROVE  Quiet(r, Returned(loop[r], reason))
<1>1. loop[r] \in Loop /\ loop[r].session # 0
  BY RunFacts DEF Working, LocalHolds
<1>2. PICK x : x = Returned(loop[r], reason)
  OBVIOUS
<1>3. /\ x \in Loop /\ LocalHolds(x) /\ x.session = loop[r].session
      /\ x.aborted = loop[r].aborted /\ x.pc = "returned" /\ x.reason = reason
  BY <1>1, <1>2, ReturnedHolds
<1>4. Moves(r, x)
  BY <1>2, <1>3 DEF Return, Becomes, Moves, Running
<1>5. Quiet(r, x)
  BY <1>3, <1>4 DEF Quiet, UsingPoints, Awaiting
<1> QED BY <1>2, <1>5

\* A step that only moves the program counter, and the gate's answer.
LEMMA PcMoves ==
    ASSUME Types, NEW r \in Runs, NEW x \in Loop, loop[r].pc \in Working,
           \/ loop[r].pc = "started" /\ x.pc = "streaming"
           \/ loop[r].pc = "gating" /\ x.pc = "gated"
           \/ loop[r].pc = "gated" /\ x.pc = "executing"
           \/ loop[r].pc = "executing" /\ x.pc = "executed"
           \/ loop[r].pc = "dispatch" /\ loop[r].calls # 0 /\ x.pc = "gating",
           x.iteration = loop[r].iteration, x.done = loop[r].done,
           x.calls = loop[r].calls, x.session = loop[r].session,
           x.aborted = loop[r].aborted, x.reason = loop[r].reason,
           loop' = [loop EXCEPT ![r] = x], current' = current, disposed' = disposed
    PROVE  Moves(r, x) /\ x.reason = "none"
<1>1. loop[r] \in Loop /\ LocalHolds(loop[r])
  BY RunFacts
<1>2. LocalHolds(x) /\ x.reason = "none"
  BY <1>1 DEF LocalHolds, Working, Awaiting
<1>3. loop[r].pc \in Running /\ x.pc \in Running
  BY DEF Running, Working
<1> QED BY <1>2, <1>3 DEF Moves

LEMMA PcOnlyMoves ==
    ASSUME Types, NEW r \in Runs, NEW p, loop[r].pc \in Working,
           \/ loop[r].pc = "started" /\ p = "streaming"
           \/ loop[r].pc = "gated" /\ p = "executing"
           \/ loop[r].pc = "executing" /\ p = "executed"
           \/ loop[r].pc = "dispatch" /\ loop[r].calls # 0 /\ p = "gating",
           NEW x, x = [loop[r] EXCEPT !.pc = p],
           loop' = [loop EXCEPT ![r] = x], current' = current, disposed' = disposed
    PROVE  /\ x \in Loop /\ Moves(r, x)
           /\ x.pc = p /\ x.iteration = loop[r].iteration /\ x.done = loop[r].done
           /\ x.reason = "none"
<1>1. loop[r] \in Loop
  BY RunFacts
<1>2. x \in Loop
  BY <1>1 DEF Loop, Running, Working
<1>3. /\ x.pc = p /\ x.iteration = loop[r].iteration /\ x.done = loop[r].done
      /\ x.calls = loop[r].calls /\ x.session = loop[r].session
      /\ x.aborted = loop[r].aborted /\ x.reason = loop[r].reason
  BY <1>1 DEF Loop
<1>4. Moves(r, x) /\ x.reason = "none"
  BY <1>2, <1>3, PcMoves
<1> QED BY <1>2, <1>3, <1>4

LEMMA BudgetExhaustedStep ==
    ASSUME Types, NEW r \in Runs, BudgetExhausted(r)
    PROVE  RunSteps(r)
<1>1. loop[r].pc = "started" /\ Return(r, "error") /\ "error" \in Reasons
  BY DEF BudgetExhausted, Reasons
<1>2. Quiet(r, Returned(loop[r], "error"))
  BY <1>1, ReturnIsQuiet DEF BudgetExhausted, Working, Using
<1> QED BY <1>2 DEF RunSteps, Quiet, Moves

LEMMA StartStreamStep ==
    ASSUME Types, NEW r \in Runs, StartStream(r)
    PROVE  RunSteps(r)
<1>1. PICK x : x = [loop[r] EXCEPT !.pc = "streaming"]
  OBVIOUS
<1>2. /\ loop[r].pc = "started" /\ loop' = [loop EXCEPT ![r] = x]
      /\ UNCHANGED <<sessions, current, disposed, live, told>>
  BY <1>1 DEF StartStream, Becomes
<1>3. x \in Loop /\ Moves(r, x) /\ x.pc = "streaming" /\ x.reason = "none"
  BY ZenonT(60), <1>1, <1>2, PcOnlyMoves DEF Working
<1>4. Quiet(r, x)
  BY <1>2, <1>3 DEF Quiet, Using, UsingPoints, Awaiting, Working
<1> QED BY <1>3, <1>4 DEF RunSteps

LEMMA StreamAbortedStep ==
    ASSUME Types, NEW r \in Runs, StreamAborted(r)
    PROVE  RunSteps(r)
<1>1. loop[r].pc = "streaming" /\ Return(r, "aborted") /\ "aborted" \in Reasons
  BY DEF StreamAborted, Reasons
<1>2. Quiet(r, Returned(loop[r], "aborted"))
  BY <1>1, ReturnIsQuiet DEF StreamAborted, Working, Using
<1> QED BY <1>2 DEF RunSteps, Quiet, Moves

LEMMA StreamEndsStep ==
    ASSUME Types, NEW r \in Runs, NEW finish \in Finishes, NEW calls \in 0..MaxCalls,
           StreamEnds(r, finish, calls)
    PROVE  RunSteps(r)
<1>1. /\ loop[r].pc = "streaming" /\ ~loop[r].aborted
      /\ UNCHANGED <<current, disposed, live, told>>
  BY DEF StreamEnds, TurnOver
<1>2. ASSUME NEW reason \in Reasons, Return(r, reason), UNCHANGED sessions
      PROVE  RunSteps(r)
  <2>1. loop[r].calls = 0
    BY <1>1, RunFacts DEF LocalHolds
  <2>2. Quiet(r, Returned(loop[r], reason))
    BY <1>1, <1>2, <2>1, ReturnIsQuiet DEF Working, Using
  <2> QED BY <2>2 DEF RunSteps, Quiet, Moves
<1>3. CASE /\ Becomes(r, [loop[r] EXCEPT !.pc = "dispatch", !.calls = calls])
           /\ sessions' = Push(r, Block("use", r, loop[r].iteration))
  <2>1. PICK x : x = [loop[r] EXCEPT !.pc = "dispatch", !.calls = calls]
    OBVIOUS
  <2>2. loop[r] \in Loop /\ LocalHolds(loop[r])
    BY RunFacts
  <2>3. x \in Loop
    BY <2>1, <2>2 DEF Loop, Running, Working
  <2>4. /\ x.pc = "dispatch" /\ x.iteration = loop[r].iteration /\ x.done = loop[r].done
        /\ x.calls = calls /\ x.session = loop[r].session
        /\ x.aborted = loop[r].aborted /\ x.reason = loop[r].reason
    BY <2>1, <2>2 DEF Loop
  <2>5. loop[r].done = 0 /\ calls + 0 <= MaxCalls
    BY <1>1, <2>2, LoopConstants DEF LocalHolds
  <2>6. LocalHolds(x)
    BY <1>1, <2>2, <2>4, <2>5 DEF LocalHolds, Working, Awaiting
  <2>7. Moves(r, x)
    BY <1>1, <1>3, <2>1, <2>3, <2>4, <2>6 DEF Moves, Becomes, Running, Working
  <2>8. Uses(r, x)
    BY <1>1, <1>3, <2>4, <2>7 DEF Uses
  <2> QED BY <2>3, <2>8 DEF RunSteps
<1> QED BY <1>2, <1>3 DEF StreamEnds, TurnOver, Finishes, Reasons

LEMMA GatheredIsQuiet ==
    ASSUME Types, NEW r \in Runs, Becomes(r, Gathered(loop[r])), loop[r].calls # 0,
           loop[r].pc \in {"dispatch", "gating", "gated", "executed"},
           UNCHANGED <<sessions, current, disposed, live, told>>
    PROVE  RunSteps(r)
<1>1. loop[r] \in Loop /\ LocalHolds(loop[r])
  BY RunFacts
<1>2. PICK x : x = Gathered(loop[r])
  OBVIOUS
<1>3. /\ x \in Loop /\ LocalHolds(x) /\ x.session = loop[r].session
      /\ x.aborted = loop[r].aborted /\ x.iteration = loop[r].iteration
      /\ x.pc = "dispatch" /\ x.reason = "none"
  BY <1>1, <1>2, GatheredHolds DEF Awaiting, LocalHolds, Working
<1>4. Moves(r, x)
  BY <1>2, <1>3 DEF Becomes, Moves, Running, Working
<1>5. Quiet(r, x)
  BY <1>3, <1>4 DEF Quiet, UsingPoints, Using, Awaiting, Working
<1> QED BY <1>3, <1>5 DEF RunSteps

LEMMA DispatchStep ==
    ASSUME Types, NEW r \in Runs, Dispatch(r)
    PROVE  RunSteps(r)
<1>1. loop[r].pc = "dispatch" /\ UNCHANGED <<current, disposed, live, told>>
  BY DEF Dispatch
<1>2. loop[r] \in Loop /\ LocalHolds(loop[r])
  BY RunFacts
<1>3. CASE loop[r].aborted /\ Return(r, "aborted") /\ UNCHANGED sessions
  <2>1. Quiet(r, Returned(loop[r], "aborted"))
    BY <1>1, <1>3, ReturnIsQuiet DEF Working, Reasons
  <2> QED BY <2>1 DEF RunSteps, Quiet, Moves
<1>4. CASE /\ ~loop[r].aborted /\ loop[r].calls = 0
           /\ sessions' = Push(r, Block("results", r, loop[r].iteration))
           /\ Becomes(r, Advance(loop[r]))
  <2>1. PICK x : x = Advance(loop[r])
    OBVIOUS
  <2>2. loop[r].session # 0 /\ loop[r].reason = "none"
    BY <1>1, <1>2 DEF LocalHolds, Working
  <2>3. /\ x \in Loop /\ LocalHolds(x) /\ x.session = loop[r].session
        /\ x.aborted = loop[r].aborted /\ x.pc \in {"started", "returned"}
        /\ x.reason \in {"none", "max_iterations"}
    BY <1>2, <1>4, <2>1, <2>2, AdvanceHolds
  <2>4. Moves(r, x)
    BY <1>1, <1>4, <2>1, <2>3 DEF Becomes, Moves, Running, Working
  <2>5. Answered(r, x)
    BY <1>1, <1>4, <2>3, <2>4 DEF Answered
  <2> QED BY <2>3, <2>5 DEF RunSteps
<1>5. CASE /\ ~loop[r].aborted /\ loop[r].calls # 0 /\ UNCHANGED sessions
           /\ Becomes(r, [loop[r] EXCEPT !.pc = "gating"])
  <2>1. PICK x : x = [loop[r] EXCEPT !.pc = "gating"]
    OBVIOUS
  <2>2. x \in Loop /\ Moves(r, x) /\ x.pc = "gating"
        /\ x.iteration = loop[r].iteration /\ x.reason = "none"
    BY ZenonT(60), <1>1, <1>5, <2>1, PcOnlyMoves DEF Becomes, Working
  <2>3. Quiet(r, x)
    BY <1>1, <1>5, <2>2 DEF Quiet, Using, UsingPoints, Awaiting, Working
  <2> QED BY <2>2, <2>3 DEF RunSteps
<1>6. CASE /\ ~loop[r].aborted /\ loop[r].calls # 0 /\ UNCHANGED sessions
           /\ Becomes(r, Gathered(loop[r]))
  BY <1>1, <1>6, GatheredIsQuiet
<1> QED BY <1>3, <1>4, <1>5, <1>6 DEF Dispatch

LEMMA GateAnswersStep ==
    ASSUME Types, NEW r \in Runs, NEW approved \in BOOLEAN, GateAnswers(r, approved)
    PROVE  RunSteps(r)
<1>1. PICK x : x = [loop[r] EXCEPT !.pc = "gated", !.approved = approved]
  OBVIOUS
<1>2. /\ loop[r].pc = "gating" /\ loop' = [loop EXCEPT ![r] = x]
      /\ UNCHANGED <<sessions, current, disposed, live, told>>
  BY <1>1 DEF GateAnswers, Becomes
<1>3. loop[r] \in Loop
  BY RunFacts
<1>4. x \in Loop
  BY <1>1, <1>3 DEF Loop, Running, Working
<1>5. /\ x.pc = "gated" /\ x.iteration = loop[r].iteration /\ x.done = loop[r].done
      /\ x.calls = loop[r].calls /\ x.session = loop[r].session
      /\ x.aborted = loop[r].aborted /\ x.reason = loop[r].reason
  BY <1>1, <1>3 DEF Loop
<1>6. Moves(r, x) /\ x.reason = "none"
  BY <1>2, <1>4, <1>5, PcMoves DEF Working
<1>7. Quiet(r, x)
  BY <1>2, <1>5, <1>6 DEF Quiet, Using, UsingPoints, Awaiting, Working
<1> QED BY <1>4, <1>7 DEF RunSteps

LEMMA AfterGateStep ==
    ASSUME Types, NEW r \in Runs, AfterGate(r)
    PROVE  RunSteps(r)
<1>1. /\ loop[r].pc = "gated" \/ (loop[r].pc = "gating" /\ loop[r].aborted)
      /\ UNCHANGED <<sessions, current, disposed, told>>
  BY DEF AfterGate, BehindGate
<1>2. loop[r] \in Loop /\ LocalHolds(loop[r])
  BY RunFacts
<1>3. CASE loop[r].aborted /\ Return(r, "aborted") /\ UNCHANGED live
  <2>1. Quiet(r, Returned(loop[r], "aborted"))
    BY <1>1, <1>3, ReturnIsQuiet DEF Working, Reasons
  <2> QED BY <2>1 DEF RunSteps, Quiet, Moves
<1>4. CASE ~loop[r].aborted /\ Becomes(r, Gathered(loop[r])) /\ UNCHANGED live
  <2>1. loop[r].calls # 0
    BY <1>1, <1>2 DEF LocalHolds, Awaiting
  <2> QED BY <1>1, <1>4, <2>1, GatheredIsQuiet
<1>5. CASE /\ ~loop[r].aborted /\ Becomes(r, [loop[r] EXCEPT !.pc = "executing"])
           /\ live' = [live EXCEPT ![r] = @ \cup {Awaited(r)}]
  <2>1. PICK x : x = [loop[r] EXCEPT !.pc = "executing"]
    OBVIOUS
  <2>2. /\ x \in Loop /\ Moves(r, x)
        /\ x.pc = "executing" /\ x.iteration = loop[r].iteration
        /\ x.done = loop[r].done /\ x.reason = "none"
    BY ZenonT(60), <1>1, <1>5, <2>1, PcOnlyMoves DEF Becomes, Working
  <2>3. Starts(r, x)
    BY <1>1, <1>5, <2>2 DEF Starts
  <2> QED BY <2>2, <2>3 DEF RunSteps
<1> QED BY <1>3, <1>4, <1>5 DEF AfterGate, BehindGate

LEMMA ToolSettlesStep ==
    ASSUME Types, NEW r \in Runs, NEW e \in live[r], ToolSettles(r, e)
    PROVE  RunSteps(r)
<1>1. /\ live' = [live EXCEPT ![r] = @ \ {e}]
      /\ told' = [told EXCEPT ![r] = @ \ {e}]
      /\ UNCHANGED <<sessions, current, disposed>>
  BY DEF ToolSettles
<1>2. CASE loop[r].pc = "executing" /\ e = Awaited(r)
  <2>1. PICK x : x = [loop[r] EXCEPT !.pc = "executed"]
    OBVIOUS
  <2>2. loop' = [loop EXCEPT ![r] = x]
    BY <1>2, <2>1 DEF ToolSettles, Becomes
  <2>3. /\ x \in Loop /\ Moves(r, x)
        /\ x.pc = "executed" /\ x.iteration = loop[r].iteration
    BY ZenonT(60), <1>1, <1>2, <2>1, <2>2, PcOnlyMoves DEF Working
  <2>4. Executed(r, x)
    BY <1>1, <1>2, <2>3 DEF Executed
  <2> QED BY <2>3, <2>4 DEF RunSteps
<1>3. CASE ~(loop[r].pc = "executing" /\ e = Awaited(r))
  <2>1. SettlesLate(r, e)
    BY <1>1, <1>3 DEF SettlesLate, ToolSettles
  <2> QED BY <2>1 DEF RunSteps
<1> QED BY <1>2, <1>3

LEMMA DeadlineFiresStep ==
    ASSUME Types, NEW r \in Runs, DeadlineFires(r)
    PROVE  RunSteps(r)
<1>1. PICK x : x = [loop[r] EXCEPT !.pc = "executed"]
  OBVIOUS
<1>2. /\ loop[r].pc = "executing" /\ loop' = [loop EXCEPT ![r] = x]
      /\ told' = [told EXCEPT ![r] = @ \cup {Awaited(r)}]
      /\ UNCHANGED <<sessions, current, disposed, live>>
  BY <1>1 DEF DeadlineFires, Becomes
<1>3. x \in Loop /\ Moves(r, x) /\ x.pc = "executed" /\ x.iteration = loop[r].iteration
  BY ZenonT(60), <1>1, <1>2, PcOnlyMoves DEF Working
<1>4. Executed(r, x)
  BY <1>2, <1>3 DEF Executed
<1> QED BY <1>3, <1>4 DEF RunSteps

LEMMA AfterToolStep ==
    ASSUME Types, NEW r \in Runs, AfterTool(r)
    PROVE  RunSteps(r)
<1>1. /\ loop[r].pc = "executed" \/ (loop[r].pc = "executing" /\ loop[r].aborted)
      /\ UNCHANGED <<sessions, current, disposed, live, told>>
  BY DEF AfterTool
<1>2. CASE loop[r].aborted
  <2>1. Return(r, "aborted")
    BY <1>2 DEF AfterTool
  <2>2. Quiet(r, Returned(loop[r], "aborted"))
    BY <1>1, <1>2, <2>1, ReturnIsQuiet DEF Working, Reasons
  <2> QED BY <2>2 DEF RunSteps, Quiet, Moves
<1>3. CASE ~loop[r].aborted
  <2>1. Becomes(r, Gathered(loop[r])) /\ loop[r].pc = "executed"
    BY <1>1, <1>3 DEF AfterTool
  <2>2. loop[r].calls # 0
    BY <2>1, RunFacts DEF LocalHolds, Awaiting
  <2> QED BY <1>1, <2>1, <2>2, GatheredIsQuiet
<1> QED BY <1>2, <1>3

-----------------------------------------------------------------------------
(* Transcripts.                                                                *)

\* A session is given another value.
LEMMA SessionPut ==
    ASSUME sessions \in Seq(Session), NEW i \in 1..Len(sessions), NEW v \in Session,
           NEW ss, ss = [sessions EXCEPT ![i] = v]
    PROVE  /\ ss \in Seq(Session) /\ Len(ss) = Len(sessions)
           /\ DOMAIN ss = DOMAIN sessions
           /\ ss[i] = v /\ \A j \in DOMAIN sessions : j # i => ss[j] = sessions[j]
OBVIOUS

LEMMA SessionFacts ==
    ASSUME Types, NEW i \in DOMAIN sessions
    PROVE  /\ sessions \in Seq(Session) /\ sessions[i] \in Session
           /\ sessions[i].messages \in Seq(Blocks \cup Seeds)
           /\ sessions[i].settled \in BOOLEAN
<1>1. sessions \in Seq(Session)
  BY DEF Types, TypeOK
<1>2. sessions[i] \in Session
  BY <1>1
<1> QED BY <1>1, <1>2 DEF Session

LEMMA OwnSession ==
    ASSUME Types, NEW r \in Runs, loop[r].pc # "idle"
    PROVE  loop[r].session \in DOMAIN sessions
<1>1. sessions \in Seq(Session)
  BY DEF Types, TypeOK
<1> QED BY <1>1, RunFacts

LEMMA PushFacts ==
    ASSUME Types, NEW r \in Runs, loop[r].pc # "idle", NEW b \in Blocks,
           NEW i, i = loop[r].session,
           NEW m, m = sessions[i].messages
    PROVE  /\ Push(r, b) \in Seq(Session) /\ Len(Push(r, b)) = Len(sessions)
           /\ DOMAIN Push(r, b) = DOMAIN sessions
           /\ \A j \in DOMAIN sessions : j # i => Push(r, b)[j] = sessions[j]
           /\ Push(r, b)[i].settled = sessions[i].settled
           /\ Push(r, b)[i].messages = Append(m, b)
<1>1. i \in DOMAIN sessions
  BY OwnSession
<1>2. /\ sessions \in Seq(Session) /\ sessions[i] \in Session
      /\ m \in Seq(Blocks \cup Seeds) /\ sessions[i].settled \in BOOLEAN
  BY <1>1, SessionFacts
<1>3. PICK v : v = [sessions[i] EXCEPT !.messages = Append(m, b)]
  OBVIOUS
<1>4. Append(m, b) \in Seq(Blocks \cup Seeds)
  BY <1>2
<1>5. v \in Session /\ v.messages = Append(m, b) /\ v.settled = sessions[i].settled
  BY <1>2, <1>3, <1>4 DEF Session
<1>6. Push(r, b) = [sessions EXCEPT ![i] = v]
  BY <1>1, <1>2, <1>3 DEF Push
<1>7. i \in 1..Len(sessions)
  BY <1>1, <1>2
<1> QED BY <1>2, <1>5, <1>6, <1>7, SessionPut

LEMMA BlockFacts ==
    ASSUME NEW r \in Runs, NEW n \in 0..MaxIterations, NEW k \in {"prompt", "use", "results"}
    PROVE  /\ Block(k, r, n) \in Blocks
           /\ Block(k, r, n).kind = k /\ Block(k, r, n).run = r /\ Block(k, r, n).turn = n
BY DEF Block, Blocks

\* trim() keeps a suffix.
LEMMA TrimFacts ==
    ASSUME NEW S, NEW m \in Seq(S)
    PROVE  /\ Trim(m) \in Seq(S)
           /\ \E d \in 0..Len(m) :
                /\ Len(Trim(m)) = Len(m) - d
                /\ \A k \in DOMAIN Trim(m) : k + d \in DOMAIN m /\ Trim(m)[k] = m[k + d]
<1>1. CASE Len(m) <= MaxMessages
  <2>1. Trim(m) = m /\ 0 \in 0..Len(m)
    BY <1>1 DEF Trim
  <2>2. \A k \in DOMAIN m : k + 0 \in DOMAIN m /\ m[k] = m[k + 0]
    OBVIOUS
  <2> QED BY <2>1, <2>2
<1>2. CASE ~(Len(m) <= MaxMessages)
  <2>1. PICK d : d = Len(m) - MaxMessages
    OBVIOUS
  <2>2. d \in 0..Len(m) /\ d + 1 \in 1..Len(m)
    BY <1>2, <2>1, LoopConstants
  <2>3. Trim(m) = SubSeq(m, d + 1, Len(m))
    BY <1>2, <2>1 DEF Trim
  <2>4. /\ SubSeq(m, d + 1, Len(m)) \in Seq(S)
        /\ Len(SubSeq(m, d + 1, Len(m))) = Len(m) - d
    BY <2>2
  <2>5. \A k \in 1..(Len(m) - d) :
          k + d \in DOMAIN m /\ SubSeq(m, d + 1, Len(m))[k] = m[k + d]
    BY <2>2
  <2> QED BY <2>2, <2>3, <2>4, <2>5
<1> QED BY <1>1, <1>2

-----------------------------------------------------------------------------
(* Types are kept.                                                             *)

LEMMA TypesKept ==
    ASSUME Types, NEW r \in Runs, NEW x \in Loop, LocalHolds(x),
           loop' = [loop EXCEPT ![r] = x],
           sessions' \in Seq(Session), Len(sessions') <= MaxSessions,
           Len(sessions) <= Len(sessions'), x.session <= Len(sessions'),
           current' \in 0..Len(sessions'), disposed' \in BOOLEAN,
           live' \in [Runs -> SUBSET Executions], told' \in [Runs -> SUBSET Executions],
           \A s \in Runs : told'[s] \subseteq live'[s],
           \A s \in Runs : s # r => live'[s] = live[s],
           x.pc = "executing" => <<x.iteration, x.done>> \in live'[r]
    PROVE  Types'
<1>1. loop \in [Runs -> Loop] /\ sessions \in Seq(Session)
  BY DEF Types, TypeOK
<1>2. loop' \in [Runs -> Loop] /\ loop'[r] = x
      /\ \A s \in Runs : s # r => loop'[s] = loop[s]
  BY <1>1
<1>3. \A s \in Runs : LocalHolds(loop'[s])
  BY <1>2 DEF Types
<1>4. \A s \in Runs : loop[s].session \in Nat /\ loop[s].session <= Len(sessions)
  BY <1>1, LoopConstants DEF Types, TypeOK, Loop
<1>5. \A s \in Runs : loop'[s].session <= Len(sessions')
  BY <1>1, <1>2, <1>4
<1>6. AwaitedIsLive'
  BY <1>2 DEF Types, AwaitedIsLive, Awaited
<1>7. TypeOK'
  BY <1>2, <1>5 DEF TypeOK
<1> QED BY <1>3, <1>6, <1>7 DEF Types

LEMMA StaticTypes ==
    ASSUME Types
    PROVE  /\ sessions \in Seq(Session) /\ Len(sessions) \in Nat
           /\ Len(sessions) <= MaxSessions
           /\ current \in 0..Len(sessions) /\ disposed \in BOOLEAN
           /\ loop \in [Runs -> Loop]
           /\ live \in [Runs -> SUBSET Executions]
           /\ told \in [Runs -> SUBSET Executions]
           /\ \A s \in Runs : told[s] \subseteq live[s]
BY DEF Types, TypeOK

LEMMA MovesTypes ==
    ASSUME Types, NEW r \in Runs, NEW x \in Loop, Moves(r, x),
           sessions' \in Seq(Session), Len(sessions') = Len(sessions),
           live' \in [Runs -> SUBSET Executions], told' \in [Runs -> SUBSET Executions],
           \A s \in Runs : told'[s] \subseteq live'[s],
           \A s \in Runs : s # r => live'[s] = live[s],
           x.pc = "executing" => <<x.iteration, x.done>> \in live'[r]
    PROVE  Types'
<1>1. /\ LocalHolds(x) /\ loop' = [loop EXCEPT ![r] = x]
      /\ x.session = loop[r].session /\ loop[r].pc # "idle"
      /\ current' = current /\ disposed' = disposed
  BY DEF Moves, Running, Working
<1>2. /\ Len(sessions') \in Nat /\ Len(sessions') <= MaxSessions
      /\ Len(sessions) <= Len(sessions')
      /\ current' \in 0..Len(sessions') /\ disposed' \in BOOLEAN
  BY <1>1, StaticTypes
<1>3. x.session <= Len(sessions')
  BY <1>1, RunFacts
<1> QED BY <1>1, <1>2, <1>3, TypesKept

LEMMA RunStepsTypes ==
    ASSUME Types, NEW r \in Runs, RunSteps(r)
    PROVE  Types'
<1> USE StaticTypes
<1>1. \A x \in Loop : Moves(r, x) => loop[r].pc # "idle" /\ loop[r] \in Loop
  BY RunFacts DEF Moves, Running, Working
<1>2. ASSUME NEW x \in Loop, Quiet(r, x) PROVE Types'
  <2>1. Moves(r, x) /\ sessions' = sessions /\ live' = live /\ told' = told
        /\ x.pc # "executing"
    BY <1>2 DEF Quiet
  <2> QED BY <2>1, MovesTypes
<1>3. ASSUME NEW x \in Loop, NEW b \in Blocks, Moves(r, x), sessions' = Push(r, b),
             live' = live, told' = told, x.pc # "executing"
      PROVE  Types'
  <2>1. sessions' \in Seq(Session) /\ Len(sessions') = Len(sessions)
    BY <1>1, <1>3, PushFacts
  <2> QED BY <1>3, <2>1, MovesTypes
<1>4. ASSUME NEW x \in Loop, Uses(r, x) PROVE Types'
  <2>1. loop[r].iteration \in 0..MaxIterations
    BY <1>1, <1>4 DEF Uses, Loop
  <2> QED BY <1>3, <1>4, <2>1, BlockFacts DEF Uses
<1>5. ASSUME NEW x \in Loop, Answered(r, x) PROVE Types'
  <2>1. loop[r].iteration \in 0..MaxIterations
    BY <1>1, <1>5 DEF Answered, Loop
  <2> QED BY <1>3, <1>5, <2>1, BlockFacts DEF Answered
<1>6. ASSUME NEW x \in Loop, Starts(r, x) PROVE Types'
  <2>1. Awaited(r) \in Executions
    BY <1>6, AwaitedIsExecution DEF Starts, Working
  <2>2. live' \in [Runs -> SUBSET Executions]
        /\ live'[r] = live[r] \cup {Awaited(r)}
        /\ \A s \in Runs : s # r => live'[s] = live[s]
    BY <1>6, <2>1 DEF Starts
  <2>3. <<x.iteration, x.done>> \in live'[r]
    BY <1>6, <2>2 DEF Starts, Awaited
  <2>4. sessions' = sessions /\ told' = told /\ Moves(r, x)
    BY <1>6 DEF Starts
  <2>5. \A s \in Runs : told'[s] \subseteq live'[s]
    BY <2>2, <2>4
  <2> QED BY <2>2, <2>3, <2>4, <2>5, MovesTypes
<1>7. ASSUME NEW x \in Loop, Executed(r, x) PROVE Types'
  <2>1. Awaited(r) \in Executions /\ Awaited(r) \in live[r]
    BY <1>7, AwaitedIsExecution DEF Executed, Working, Types, AwaitedIsLive
  <2>2. /\ live' \in [Runs -> SUBSET Executions] /\ told' \in [Runs -> SUBSET Executions]
        /\ \A s \in Runs : told'[s] \subseteq live'[s]
        /\ \A s \in Runs : s # r => live'[s] = live[s]
    BY <1>7, <2>1 DEF Executed
  <2>3. sessions' = sessions /\ x.pc # "executing" /\ Moves(r, x)
    BY <1>7 DEF Executed
  <2> QED BY <2>2, <2>3, MovesTypes
<1>8. ASSUME NEW e \in live[r], SettlesLate(r, e) PROVE Types'
  <2>1. /\ live' \in [Runs -> SUBSET Executions] /\ told' \in [Runs -> SUBSET Executions]
        /\ \A s \in Runs : told'[s] \subseteq live'[s]
        /\ \A s \in Runs : s # r => live'[s] = live[s]
        /\ live'[r] = live[r] \ {e}
    BY <1>8 DEF SettlesLate
  <2>2. UNCHANGED <<loop, sessions, current, disposed>>
        /\ (loop[r].pc = "executing" => e # Awaited(r))
    BY <1>8 DEF SettlesLate
  <2>3. TypeOK'
    BY <2>1, <2>2 DEF Types, TypeOK
  <2>4. AwaitedIsLive'
    BY <2>1, <2>2 DEF Types, AwaitedIsLive, Awaited
  <2>5. \A s \in Runs : LocalHolds(loop[s])'
    BY <2>2 DEF Types
  <2> QED BY <2>3, <2>4, <2>5 DEF Types
<1> QED BY <1>2, <1>4, <1>5, <1>6, <1>7, <1>8 DEF RunSteps

\* What run() makes of a run, and of its session.
Begins(r, x) ==
    /\ loop[r].pc = "idle" /\ current # 0 /\ sessions[current].settled
    /\ x \in Loop /\ LocalHolds(x) /\ x.session = current
    /\ x.pc \in {"started", "returned"}
    /\ x.reason \in {"none", "aborted", "max_iterations"}
    /\ loop' = [loop EXCEPT ![r] = x]
    /\ sessions' = [sessions EXCEPT ![current] =
                      [messages |-> Append(sessions[current].messages, Block("prompt", r, 0)),
                       settled |-> FALSE]]
    /\ UNCHANGED <<current, disposed, live, told>>

LEMMA RunBegins ==
    ASSUME Types, NEW r \in Runs, NEW preAborted \in BOOLEAN, Run(r, preAborted)
    PROVE  \E x : Begins(r, x)
<1>1. PICK y : y = [Blank EXCEPT !.session = current, !.aborted = preAborted]
  OBVIOUS
<1>2. /\ loop[r].pc = "idle" /\ current # 0 /\ sessions[current].settled
      /\ current \in 0..MaxSessions
  BY StaticTypes, LoopConstants DEF Run
<1>3. y \in Loop
  BY <1>1, <1>2, BlankHolds DEF Loop
<1>4. y.session = current /\ y.aborted = preAborted
  BY <1>1, BlankHolds DEF Loop
<1>5. y.calls = 0 /\ y.reason = "none"
  BY <1>1, BlankHolds DEF Loop, Blank
<1>6. PICK x : x = Begun(preAborted)
  OBVIOUS
<1>7. x = IF preAborted THEN Returned(y, "aborted") ELSE Advance(y)
  BY <1>1, <1>6 DEF Begun
<1>8. /\ x \in Loop /\ LocalHolds(x) /\ x.session = current
      /\ x.pc \in {"started", "returned"}
      /\ x.reason \in {"none", "aborted", "max_iterations"}
  <2>1. CASE preAborted
    BY <1>2, <1>3, <1>4, <1>7, <2>1, ReturnedHolds DEF Reasons
  <2>2. CASE ~preAborted
    BY <1>2, <1>3, <1>4, <1>5, <1>7, <2>2, AdvanceHolds
  <2> QED BY <2>1, <2>2
<1>9. Begins(r, x)
  BY <1>2, <1>6, <1>8 DEF Begins, Run, Entered, Becomes
<1> QED BY <1>9

LEMMA BeginsSession ==
    ASSUME Types, NEW r \in Runs, NEW x, Begins(r, x)
    PROVE  /\ sessions' \in Seq(Session) /\ Len(sessions') = Len(sessions)
           /\ DOMAIN sessions' = DOMAIN sessions
           /\ current \in DOMAIN sessions
           /\ sessions'[current].messages
                = Append(sessions[current].messages, Block("prompt", r, 0))
           /\ ~sessions'[current].settled
           /\ \A j \in DOMAIN sessions : j # current => sessions'[j] = sessions[j]
<1>1. /\ current \in 1..Len(sessions) /\ sessions \in Seq(Session)
      /\ current \in DOMAIN sessions
  BY StaticTypes DEF Begins
<1>2. Block("prompt", r, 0) \in Blocks
  BY BlockFacts, LoopConstants
<1>3. PICK m : m = Append(sessions[current].messages, Block("prompt", r, 0))
  OBVIOUS
<1>4. m \in Seq(Blocks \cup Seeds)
  BY <1>1, <1>2, <1>3, SessionFacts
<1>5. PICK v : v = [messages |-> m, settled |-> FALSE]
  OBVIOUS
<1>6. v \in Session /\ v.messages = m /\ ~v.settled
  BY <1>4, <1>5 DEF Session
<1>7. sessions' = [sessions EXCEPT ![current] = v]
  BY <1>3, <1>5 DEF Begins
<1> QED BY <1>1, <1>3, <1>6, <1>7, SessionPut

LEMMA BeginsTypes ==
    ASSUME Types, NEW r \in Runs, NEW x, Begins(r, x)
    PROVE  Types'
<1>1. /\ x \in Loop /\ LocalHolds(x) /\ x.session = current /\ x.pc # "executing"
      /\ loop' = [loop EXCEPT ![r] = x]
      /\ current' = current /\ disposed' = disposed /\ live' = live /\ told' = told
  BY DEF Begins
<1>2. sessions' \in Seq(Session) /\ Len(sessions') = Len(sessions)
  BY BeginsSession
<1>3. x.session <= Len(sessions')
  BY <1>1, <1>2, StaticTypes
<1>4. /\ Len(sessions') <= MaxSessions /\ Len(sessions) <= Len(sessions')
      /\ current' \in 0..Len(sessions') /\ disposed' \in BOOLEAN
  BY <1>1, <1>2, StaticTypes
<1>5. /\ live' \in [Runs -> SUBSET Executions] /\ told' \in [Runs -> SUBSET Executions]
      /\ \A s \in Runs : told'[s] \subseteq live'[s]
      /\ \A s \in Runs : live'[s] = live[s]
  BY <1>1, StaticTypes
<1> QED BY <1>1, <1>2, <1>3, <1>4, <1>5, TypesKept

\* What the end of run() makes of both.
Settles(r, x) ==
    /\ loop[r].pc = "returned"
    /\ x \in Loop /\ LocalHolds(x)
    /\ x.session = loop[r].session /\ x.pc = "closed" /\ x.reason = loop[r].reason
    /\ loop' = [loop EXCEPT ![r] = x]
    /\ sessions' = [sessions EXCEPT ![loop[r].session] =
                      [messages |-> Trim(sessions[loop[r].session].messages),
                       settled |-> TRUE]]
    /\ UNCHANGED <<current, disposed, live, told>>

LEMMA SettleSettles ==
    ASSUME Types, NEW r \in Runs, Settle(r)
    PROVE  \E x : Settles(r, x)
<1>1. PICK x : x = [loop[r] EXCEPT !.pc = "closed"]
  OBVIOUS
<1>2. loop[r] \in Loop /\ LocalHolds(loop[r]) /\ loop[r].pc = "returned"
  BY RunFacts DEF Settle
<1>3. x \in Loop
  BY <1>1, <1>2 DEF Loop
<1>4. /\ x.session = loop[r].session /\ x.pc = "closed" /\ x.reason = loop[r].reason
  BY <1>1, <1>2 DEF Loop
<1>5. LocalHolds(x)
  BY <1>2, <1>4 DEF LocalHolds, Working, Awaiting
<1>6. Settles(r, x)
  BY <1>1, <1>2, <1>3, <1>4, <1>5 DEF Settles, Settle, Becomes
<1> QED BY <1>6

LEMMA SettlesSession ==
    ASSUME Types, NEW r \in Runs, NEW x, Settles(r, x), NEW i, i = loop[r].session
    PROVE  /\ sessions' \in Seq(Session) /\ Len(sessions') = Len(sessions)
           /\ DOMAIN sessions' = DOMAIN sessions
           /\ i \in DOMAIN sessions
           /\ sessions'[i].messages = Trim(sessions[i].messages)
           /\ sessions'[i].settled
           /\ \A j \in DOMAIN sessions : j # i => sessions'[j] = sessions[j]
<1>1. i \in DOMAIN sessions /\ i \in 1..Len(sessions) /\ sessions \in Seq(Session)
  BY OwnSession, RunFacts, StaticTypes DEF Settles
<1>2. PICK m : m = Trim(sessions[i].messages)
  OBVIOUS
<1>3. m \in Seq(Blocks \cup Seeds)
  BY <1>1, <1>2, SessionFacts, TrimFacts
<1>4. PICK v : v = [messages |-> m, settled |-> TRUE]
  OBVIOUS
<1>5. v \in Session /\ v.messages = m /\ v.settled
  BY <1>3, <1>4 DEF Session
<1>6. sessions' = [sessions EXCEPT ![i] = v]
  BY <1>2, <1>4 DEF Settles
<1> QED BY <1>1, <1>2, <1>5, <1>6, SessionPut

LEMMA SettlesTypes ==
    ASSUME Types, NEW r \in Runs, NEW x, Settles(r, x)
    PROVE  Types'
<1>1. /\ x \in Loop /\ LocalHolds(x) /\ x.session = loop[r].session
      /\ x.pc # "executing" /\ loop' = [loop EXCEPT ![r] = x]
      /\ current' = current /\ disposed' = disposed /\ live' = live /\ told' = told
  BY DEF Settles
<1>2. sessions' \in Seq(Session) /\ Len(sessions') = Len(sessions)
  BY SettlesSession
<1>3. x.session <= Len(sessions')
  BY <1>1, <1>2, RunFacts DEF Settles
<1>4. /\ Len(sessions') <= MaxSessions /\ Len(sessions) <= Len(sessions')
      /\ current' \in 0..Len(sessions') /\ disposed' \in BOOLEAN
  BY <1>1, <1>2, StaticTypes
<1>5. /\ live' \in [Runs -> SUBSET Executions] /\ told' \in [Runs -> SUBSET Executions]
      /\ \A s \in Runs : told'[s] \subseteq live'[s]
      /\ \A s \in Runs : live'[s] = live[s]
  BY <1>1, StaticTypes
<1> QED BY <1>1, <1>2, <1>3, <1>4, <1>5, TypesKept

\* What create() does: session i is new, or settled and seeded again.
Creates(i) ==
    /\ sessions' \in Seq(Session) /\ Len(sessions') <= MaxSessions
    /\ Len(sessions) <= Len(sessions') /\ DOMAIN sessions \subseteq DOMAIN sessions'
    /\ current' \in 0..Len(sessions')
    /\ i \in DOMAIN sessions => sessions[i].settled
    /\ \A j \in DOMAIN sessions' : j # i => j \in DOMAIN sessions /\ sessions'[j] = sessions[j]
    /\ \A k \in DOMAIN sessions'[i].messages : sessions'[i].messages[k].kind = "seed"
    /\ UNCHANGED <<disposed, loop, live, told>>

LEMMA CreateCreates ==
    ASSUME Types, NEW seeded \in BOOLEAN, Create(seeded)
    PROVE  \E i : Creates(i)
<1>1. PICK seed : seed = IF seeded THEN <<[kind |-> "seed"]>> ELSE <<>>
  OBVIOUS
<1>2. seed \in Seq(Blocks \cup Seeds) /\ \A k \in DOMAIN seed : seed[k].kind = "seed"
  <2>1. [kind |-> "seed"] \in Blocks \cup Seeds
    BY DEF Seeds
  <2>2. <<[kind |-> "seed"]>> \in Seq(Blocks \cup Seeds)
    BY <2>1
  <2>3. \A k \in DOMAIN <<[kind |-> "seed"]>> : <<[kind |-> "seed"]>>[k].kind = "seed"
    OBVIOUS
  <2>4. <<>> \in Seq(Blocks \cup Seeds) /\ DOMAIN <<>> = {}
    OBVIOUS
  <2>5. CASE seeded
    BY <1>1, <2>2, <2>3, <2>5
  <2>6. CASE ~seeded
    BY <1>1, <2>4, <2>6
  <2> QED BY <2>5, <2>6
<1>3. sessions \in Seq(Session)
  BY StaticTypes
<1>4. CASE current = 0
  <2>1. PICK v : v = [messages |-> seed, settled |-> TRUE]
    OBVIOUS
  <2>2. v \in Session /\ v.messages = seed
    BY <1>2, <2>1 DEF Session
  <2>3. /\ Len(sessions) < MaxSessions /\ sessions' = Append(sessions, v)
        /\ current' = Len(sessions) + 1 /\ UNCHANGED <<disposed, loop, live, told>>
    BY <1>1, <1>4, <2>1 DEF Create
  <2>4. PICK i : i = Len(sessions) + 1
    OBVIOUS
  <2>5. /\ sessions' \in Seq(Session) /\ Len(sessions') = i
        /\ i \notin DOMAIN sessions /\ sessions'[i] = v
        /\ \A j \in DOMAIN sessions' : j # i => j \in DOMAIN sessions /\ sessions'[j] = sessions[j]
        /\ DOMAIN sessions \subseteq DOMAIN sessions'
    BY <1>3, <2>2, <2>3, <2>4
  <2>6. Len(sessions') <= MaxSessions /\ Len(sessions) <= Len(sessions')
        /\ current' \in 0..Len(sessions')
    BY <1>3, <2>3, <2>4, <2>5, LoopConstants
  <2>7. \A k \in DOMAIN sessions'[i].messages : sessions'[i].messages[k].kind = "seed"
    BY <1>2, <2>2, <2>5
  <2> QED BY <2>3, <2>5, <2>6, <2>7 DEF Creates
<1>5. CASE current # 0
  <2>1. PICK v : v = [sessions[current] EXCEPT !.messages = seed]
    OBVIOUS
  <2>2. current \in DOMAIN sessions /\ current \in 1..Len(sessions)
    BY <1>3, <1>5, StaticTypes
  <2>3. v \in Session /\ v.messages = seed
    BY <1>2, <2>1, <2>2, SessionFacts DEF Session
  <2>4. /\ sessions[current].settled /\ sessions' = [sessions EXCEPT ![current] = v]
        /\ UNCHANGED <<current, disposed, loop, live, told>>
    BY <1>1, <1>3, <1>5, <2>1, <2>2 DEF Create
  <2>5. /\ sessions' \in Seq(Session) /\ Len(sessions') = Len(sessions)
        /\ DOMAIN sessions' = DOMAIN sessions /\ sessions'[current] = v
        /\ \A j \in DOMAIN sessions : j # current => sessions'[j] = sessions[j]
    BY <1>3, <2>2, <2>3, <2>4, SessionPut
  <2>6. \A k \in DOMAIN sessions'[current].messages :
           sessions'[current].messages[k].kind = "seed"
    BY <1>2, <2>3, <2>5
  <2>7. Len(sessions') <= MaxSessions /\ Len(sessions) <= Len(sessions')
        /\ current' \in 0..Len(sessions')
    BY <2>4, <2>5, StaticTypes
  <2>8. Creates(current)
    BY <2>4, <2>5, <2>6, <2>7 DEF Creates
  <2> QED BY <2>8
<1> QED BY <1>4, <1>5

LEMMA CreatesTypes ==
    ASSUME Types, NEW i, Creates(i)
    PROVE  Types'
<1>1. \A r \in Runs : loop[r].session \in Nat
  BY StaticTypes, LoopConstants DEF Loop
<1>2. \A r \in Runs : loop[r].session <= Len(sessions')
  BY <1>1, StaticTypes DEF Creates, Types, TypeOK
<1>3. TypeOK'
  BY <1>2, StaticTypes DEF Creates, TypeOK
<1>4. AwaitedIsLive' /\ \A r \in Runs : LocalHolds(loop[r])'
  BY DEF Creates, Types, AwaitedIsLive, Awaited
<1> QED BY <1>3, <1>4 DEF Types

\* What abort(), stop() and dispose() do: the runs in rs are aborted, and the
\* transcript of the current session may be emptied if its run is among them.
Cut(rs) ==
    /\ rs \subseteq Runs
    /\ Aborting(rs) /\ live' = live
    /\ sessions' \in Seq(Session) /\ Len(sessions') = Len(sessions)
    /\ DOMAIN sessions' = DOMAIN sessions
    /\ \A j \in DOMAIN sessions :
         /\ sessions'[j].settled = sessions[j].settled
         /\ \/ sessions'[j].messages = sessions[j].messages
            \/ /\ sessions'[j].messages = <<>>
               /\ \A r \in Runs : loop[r].pc \in Running /\ loop[r].session = j => r \in rs
    /\ current' \in 0..Len(sessions) /\ disposed' \in BOOLEAN

LEMMA AbortCuts ==
    ASSUME Types, NEW r \in Runs, Abort(r)
    PROVE  Cut({r})
BY StaticTypes DEF Abort, Cut

LEMMA DisposeCuts ==
    ASSUME Types, Dispose
    PROVE  \E rs : Cut(rs)
<1>1. PICK rs : rs = {r \in Runs : loop[r].pc \in Running /\ loop[r].session = current}
  OBVIOUS
<1>2. rs \subseteq Runs /\ Aborting(rs) /\ live' = live /\ sessions' = sessions
      /\ current' = 0 /\ disposed' = TRUE
  BY <1>1 DEF Dispose
<1>3. 0 \in 0..Len(sessions)
  BY StaticTypes
<1>4. Cut(rs)
  BY <1>2, <1>3, StaticTypes DEF Cut
<1> QED BY <1>4

LEMMA StopCuts ==
    ASSUME Types, Stop
    PROVE  \E rs : Cut(rs)
<1>1. PICK rs : rs = {r \in Runs : loop[r].pc \in Running /\ loop[r].session = current}
  OBVIOUS
<1>2. /\ rs \subseteq Runs /\ Aborting(rs) /\ live' = live
      /\ current' = 0 /\ disposed' = disposed
  BY <1>1 DEF Stop
<1>3. PICK v : v = [sessions[current] EXCEPT !.messages = <<>>]
  OBVIOUS
<1>4. current \in DOMAIN sessions /\ current \in 1..Len(sessions) /\ 0 \in 0..Len(sessions)
  BY StaticTypes DEF Stop
<1>5. v \in Session /\ v.messages = <<>> /\ v.settled = sessions[current].settled
  <2>1. <<>> \in Seq(Blocks \cup Seeds)
    OBVIOUS
  <2>2. sessions[current] \in Session
    BY <1>4, SessionFacts
  <2> QED BY <1>3, <2>1, <2>2 DEF Session
<1>6. sessions' = [sessions EXCEPT ![current] = v]
  BY <1>3, <1>4, StaticTypes DEF Stop
<1>7. /\ sessions' \in Seq(Session) /\ Len(sessions') = Len(sessions)
      /\ DOMAIN sessions' = DOMAIN sessions /\ sessions'[current] = v
      /\ \A j \in DOMAIN sessions : j # current => sessions'[j] = sessions[j]
  BY <1>4, <1>5, <1>6, StaticTypes, SessionPut
<1>8. Cut(rs)
  BY <1>1, <1>2, <1>4, <1>5, <1>7, StaticTypes DEF Cut
<1> QED BY <1>8

\* Only the abort flag of a run changes.
LEMMA CutRuns ==
    ASSUME Types, NEW rs, Cut(rs)
    PROVE  /\ loop' \in [Runs -> Loop]
           /\ \A r \in Runs :
                /\ loop'[r].pc = loop[r].pc /\ loop'[r].session = loop[r].session
                /\ loop'[r].iteration = loop[r].iteration /\ loop'[r].done = loop[r].done
                /\ loop'[r].calls = loop[r].calls /\ loop'[r].reason = loop[r].reason
                /\ loop'[r].aborted = (r \in rs \/ loop[r].aborted)
                /\ Awaited(r)' = Awaited(r)
<1>1. \A r \in Runs : loop'[r] = IF r \in rs THEN [loop[r] EXCEPT !.aborted = TRUE]
                                ELSE loop[r]
  BY DEF Cut, Aborting
<1>2. loop \in [Runs -> Loop]
  BY StaticTypes
<1>3. \A r \in Runs :
                /\ loop'[r] \in Loop
                /\ loop'[r].pc = loop[r].pc /\ loop'[r].session = loop[r].session
                /\ loop'[r].iteration = loop[r].iteration /\ loop'[r].done = loop[r].done
                /\ loop'[r].calls = loop[r].calls /\ loop'[r].reason = loop[r].reason
                /\ loop'[r].aborted = (r \in rs \/ loop[r].aborted)
  BY ZenonT(60), <1>1, <1>2 DEF Loop
<1>4. loop' \in [Runs -> Loop]
  BY <1>2, <1>3 DEF Cut, Aborting
<1> QED BY <1>3, <1>4 DEF Awaited

LEMMA CutTypes ==
    ASSUME Types, NEW rs, Cut(rs)
    PROVE  Types'
<1>1. \A r \in Runs : LocalHolds(loop[r]) /\ loop[r].session <= Len(sessions)
  BY DEF Types, TypeOK
<1>2. \A r \in Runs : LocalHolds(loop[r])' /\ loop'[r].session <= Len(sessions')
  BY <1>1, CutRuns DEF LocalHolds, Cut
<1>3. told' = [r \in Runs |-> IF r \in rs /\ loop[r].pc = "executing"
                              THEN told[r] \cup {Awaited(r)} ELSE told[r]]
  BY DEF Cut, Aborting
<1>4. \A r \in Runs : loop[r].pc = "executing" => Awaited(r) \in live[r]
  BY DEF Types, AwaitedIsLive
<1>5. told' \in [Runs -> SUBSET Executions] /\ \A r \in Runs : told'[r] \subseteq live[r]
  BY <1>3, <1>4, StaticTypes
<1>6. TypeOK'
  BY <1>2, <1>5, CutRuns, StaticTypes DEF TypeOK, Cut
<1>7. AwaitedIsLive'
  BY <1>4, CutRuns DEF AwaitedIsLive, Cut
<1> QED BY <1>2, <1>6, <1>7 DEF Types

-----------------------------------------------------------------------------
(* Every step is one of the above.                                             *)

Steps ==
    \/ \E r \in Runs : RunSteps(r) \/ \E x : Begins(r, x) \/ Settles(r, x)
    \/ \E i : Creates(i)
    \/ \E rs : Cut(rs)
    \/ UNCHANGED vars

LEMMA NextSteps ==
    ASSUME Types, [Next]_vars
    PROVE  Steps
<1>1. ASSUME NEW r \in Runs, Runtime(r)
      PROVE  Steps
  <2>1. CASE \E preAborted \in BOOLEAN : Run(r, preAborted)
    BY <2>1, RunBegins DEF Steps
  <2>2. CASE Unwinds(r)
    BY <2>2, StartStreamStep, StreamAbortedStep, DispatchStep, AfterGateStep,
       AfterToolStep, SettleSettles DEF Unwinds, Steps
  <2>3. CASE BudgetExhausted(r) \/ StreamSettles(r) \/ GateSettles(r)
    BY <2>3, BudgetExhaustedStep, StreamEndsStep, GateAnswersStep
       DEF StreamSettles, GateSettles, Steps
  <2>4. CASE (\E e \in live[r] : ToolSettles(r, e)) \/ DeadlineFires(r)
    BY <2>4, ToolSettlesStep, DeadlineFiresStep DEF Steps
  <2>5. CASE Abort(r)
    BY <2>5, AbortCuts DEF Steps
  <2> QED BY <1>1, <2>1, <2>2, <2>3, <2>4, <2>5 DEF Runtime
<1>2. ASSUME NEW seeded \in BOOLEAN, Create(seeded)
      PROVE  Steps
  BY <1>2, CreateCreates DEF Steps
<1>3. CASE Stop \/ Dispose
  BY <1>3, StopCuts, DisposeCuts DEF Steps
<1>4. CASE UNCHANGED vars
  BY <1>4 DEF Steps
<1> QED BY <1>1, <1>2, <1>3, <1>4 DEF Next

LEMMA TypesStep ==
    ASSUME Types, Steps
    PROVE  Types'
<1>1. ASSUME UNCHANGED vars PROVE Types'
  BY <1>1 DEF vars, Types, TypeOK, AwaitedIsLive, Awaited
<1> QED
  BY <1>1, RunStepsTypes, BeginsTypes, SettlesTypes, CreatesTypes, CutTypes DEF Steps

-----------------------------------------------------------------------------
(* A session has one run.                                                      *)

LEMMA MovesOwned ==
    ASSUME Types, Owned, NEW r \in Runs, NEW x \in Loop, Moves(r, x),
           \A j \in DOMAIN sessions : sessions'[j].settled = sessions[j].settled
    PROVE  Owned'
<1>1. loop \in [Runs -> Loop]
  BY StaticTypes
<1>2. \A s \in Runs : /\ loop'[s].session = loop[s].session
                      /\ loop'[s].pc \in Running <=> loop[s].pc \in Running
  BY <1>1 DEF Moves
<1>3. \A s \in Runs : loop[s].pc \in Running => loop[s].session \in DOMAIN sessions
  BY OwnSession DEF Running, Working
<1> QED BY <1>2, <1>3 DEF Owned, OneRunPerTranscript

LEMMA RunStepsOwned ==
    ASSUME Types, Owned, NEW r \in Runs, RunSteps(r)
    PROVE  Owned'
<1>1. ASSUME NEW x \in Loop, Moves(r, x), sessions' = sessions PROVE Owned'
  BY <1>1, MovesOwned
<1>2. ASSUME NEW x \in Loop, NEW b \in Blocks, Moves(r, x), sessions' = Push(r, b)
      PROVE  Owned'
  <2>1. loop[r].pc # "idle"
    BY <1>2 DEF Moves, Running, Working
  <2>2. \A j \in DOMAIN sessions : sessions'[j].settled = sessions[j].settled
    BY <1>2, <2>1, PushFacts
  <2> QED BY <1>2, <2>2, MovesOwned
<1>3. loop[r].iteration \in 0..MaxIterations
  BY StaticTypes DEF Loop
<1>4. /\ Block("use", r, loop[r].iteration) \in Blocks
      /\ Block("results", r, loop[r].iteration) \in Blocks
  BY <1>3, BlockFacts
<1>5. ASSUME NEW x \in Loop, Uses(r, x) \/ Answered(r, x) PROVE Owned'
  BY <1>2, <1>4, <1>5 DEF Uses, Answered
<1>6. ASSUME NEW x \in Loop, Quiet(r, x) \/ Starts(r, x) \/ Executed(r, x) PROVE Owned'
  BY <1>1, <1>6 DEF Quiet, Starts, Executed
<1>7. ASSUME NEW e \in live[r], SettlesLate(r, e) PROVE Owned'
  BY <1>7 DEF SettlesLate, Owned, OneRunPerTranscript
<1> QED BY <1>5, <1>6, <1>7 DEF RunSteps

LEMMA BeginsOwned ==
    ASSUME Types, Owned, NEW r \in Runs, NEW x, Begins(r, x)
    PROVE  Owned'
<1>1. /\ loop'[r] = x /\ x.session = current /\ sessions[current].settled
      /\ \A s \in Runs : s # r => loop'[s] = loop[s]
  BY StaticTypes DEF Begins
<1>2. \A s \in Runs : loop[s].pc \in Running =>
         loop[s].session \in DOMAIN sessions /\ loop[s].session # current
  BY <1>1, OwnSession DEF Owned, Running, Working
<1>3. ~sessions'[current].settled
      /\ \A j \in DOMAIN sessions : j # current => sessions'[j] = sessions[j]
  BY BeginsSession
<1> QED BY <1>1, <1>2, <1>3 DEF Owned, OneRunPerTranscript

LEMMA SettlesOwned ==
    ASSUME Types, Owned, NEW r \in Runs, NEW x, Settles(r, x)
    PROVE  Owned'
<1>1. /\ loop'[r] = x /\ x.pc \notin Running /\ loop[r].pc \in Running
      /\ \A s \in Runs : s # r => loop'[s] = loop[s]
  BY StaticTypes DEF Settles, Running, Working
<1>2. \A s \in Runs : s # r /\ loop[s].pc \in Running =>
         loop[s].session \in DOMAIN sessions /\ loop[s].session # loop[r].session
  BY <1>1, OwnSession DEF Owned, OneRunPerTranscript, Running, Working
<1>3. \A j \in DOMAIN sessions : j # loop[r].session => sessions'[j] = sessions[j]
  BY SettlesSession
<1> QED BY <1>1, <1>2, <1>3 DEF Owned, OneRunPerTranscript

LEMMA CreatesOwned ==
    ASSUME Types, Owned, NEW i, Creates(i)
    PROVE  Owned'
<1>1. \A s \in Runs : loop[s].pc \in Running =>
         loop[s].session \in DOMAIN sessions /\ loop[s].session # i
  BY OwnSession DEF Owned, Running, Working, Creates
<1>2. \A s \in Runs : loop[s].pc \in Running =>
         sessions'[loop[s].session] = sessions[loop[s].session]
  BY <1>1 DEF Creates
<1> QED BY <1>2 DEF Owned, OneRunPerTranscript, Creates

LEMMA CutOwned ==
    ASSUME Types, Owned, NEW rs, Cut(rs)
    PROVE  Owned'
<1>1. \A s \in Runs : loop[s].pc \in Running => loop[s].session \in DOMAIN sessions
  BY OwnSession DEF Running, Working
<1> QED BY <1>1, CutRuns DEF Owned, OneRunPerTranscript, Cut

LEMMA OwnedStep ==
    ASSUME Types, Owned, Steps
    PROVE  Owned'
<1>1. ASSUME UNCHANGED vars PROVE Owned'
  BY <1>1 DEF vars, Owned, OneRunPerTranscript
<1> QED
  BY <1>1, RunStepsOwned, BeginsOwned, SettlesOwned, CreatesOwned, CutOwned DEF Steps

-----------------------------------------------------------------------------
(* Tools that are left behind are told.                                        *)

LEMMA ToldStep ==
    ASSUME Types, Told, Steps
    PROVE  Told'
<1> DEFINE Awaits(r) == IF loop[r].pc = "executing" THEN {Awaited(r)} ELSE {}
           Holds(r) == /\ live[r] \ Awaits(r) \subseteq told[r]
                       /\ loop[r].pc = "executing" /\ loop[r].aborted
                            => Awaited(r) \in told[r]
<1>1. \A r \in Runs : Holds(r)
  BY DEF Told, AbandonedAreTold
<1>2. ASSUME \A r \in Runs : Holds(r)' PROVE Told'
  BY <1>2 DEF Told, AbandonedAreTold
<1>3. ASSUME NEW r \in Runs, NEW x, loop' = [loop EXCEPT ![r] = x],
             \A s \in Runs : s # r => live'[s] = live[s] /\ told'[s] = told[s],
             Holds(r)'
      PROVE  Told'
  <2>1. \A s \in Runs : s # r => loop'[s] = loop[s]
    BY <1>3, StaticTypes
  <2>2. \A s \in Runs : Holds(s)'
    BY <1>1, <1>3, <2>1 DEF Awaited
  <2> QED BY <1>2, <2>2
<1>4. ASSUME NEW r \in Runs, NEW x, loop' = [loop EXCEPT ![r] = x],
             live' = live, told' = told, x.pc # "executing",
             loop[r].pc = "executing" => loop[r].aborted
      PROVE  Told'
  <2>1. loop'[r] = x
    BY <1>4, StaticTypes
  <2>2. live[r] \subseteq told[r]
    BY <1>1, <1>4
  <2>3. Holds(r)'
    BY <1>4, <2>1, <2>2
  <2> QED BY <1>3, <1>4, <2>3
<1>5. ASSUME NEW r \in Runs, NEW x \in Loop, Quiet(r, x) \/ Uses(r, x) \/ Answered(r, x)
      PROVE  Told'
  BY <1>4, <1>5 DEF Quiet, Uses, Answered, Moves
<1>6. ASSUME NEW r \in Runs, NEW x \in Loop, Starts(r, x)
      PROVE  Told'
  <2>1. loop' = [loop EXCEPT ![r] = x] /\ x.aborted = FALSE /\ x.pc = "executing"
    BY <1>6, StaticTypes DEF Starts, Moves, Loop
  <2>2. /\ live'[r] = live[r] \cup {Awaited(r)}
        /\ told' = told /\ \A s \in Runs : s # r => live'[s] = live[s]
    BY <1>6, StaticTypes DEF Starts
  <2>3. loop'[r] = x /\ Awaited(r)' = Awaited(r)
    BY <1>6, <2>1, StaticTypes DEF Starts, Awaited
  <2>4. live[r] \subseteq told[r]
    BY <1>1, <1>6 DEF Starts
  <2>5. Holds(r)'
    BY <2>1, <2>2, <2>3, <2>4
  <2> QED BY <1>3, <2>1, <2>2, <2>5
<1>7. ASSUME NEW r \in Runs, NEW x \in Loop, Executed(r, x)
      PROVE  Told'
  <2>1. loop' = [loop EXCEPT ![r] = x] /\ x.pc = "executed" /\ loop'[r] = x
    BY <1>7, StaticTypes DEF Executed, Moves
  <2>2. /\ \A s \in Runs : s # r => live'[s] = live[s] /\ told'[s] = told[s]
        /\ \/ live'[r] = live[r] \ {Awaited(r)} /\ told'[r] = told[r] \ {Awaited(r)}
           \/ live'[r] = live[r] /\ told'[r] = told[r] \cup {Awaited(r)}
    BY <1>7, StaticTypes DEF Executed
  <2>3. live[r] \ {Awaited(r)} \subseteq told[r]
    BY <1>1, <1>7 DEF Executed
  <2>4. live'[r] \subseteq told'[r]
    BY <2>2, <2>3
  <2>5. Holds(r)'
    BY <2>1, <2>4
  <2> QED BY <1>3, <2>1, <2>2, <2>5
<1>8. ASSUME NEW r \in Runs, NEW e \in live[r], SettlesLate(r, e)
      PROVE  Told'
  <2>1. /\ live'[r] = live[r] \ {e} /\ told'[r] = told[r] \ {e} /\ loop' = loop
        /\ \A s \in Runs : s # r => live'[s] = live[s] /\ told'[s] = told[s]
        /\ loop[r].pc = "executing" => e # Awaited(r)
    BY <1>8, StaticTypes DEF SettlesLate
  <2>2. \A s \in Runs : Holds(s)'
    BY <1>1, <2>1 DEF Awaited
  <2> QED BY <1>2, <2>2
<1>9. ASSUME NEW r \in Runs, NEW x, Begins(r, x) \/ Settles(r, x)
      PROVE  Told'
  BY <1>4, <1>9 DEF Begins, Settles
<1>10. ASSUME NEW rs, Cut(rs)
       PROVE  Told'
  <2>1. /\ live' = live
        /\ \A s \in Runs : told'[s] = IF s \in rs /\ loop[s].pc = "executing"
                                      THEN told[s] \cup {Awaited(s)} ELSE told[s]
    BY <1>10 DEF Cut, Aborting
  <2>2. \A s \in Runs : /\ loop'[s].pc = loop[s].pc /\ Awaited(s)' = Awaited(s)
                        /\ loop'[s].aborted = (s \in rs \/ loop[s].aborted)
    BY <1>10, CutRuns
  <2>3. \A s \in Runs : Holds(s)'
    BY <1>1, <2>1, <2>2
  <2> QED BY <1>2, <2>3
<1>11. ASSUME UNCHANGED <<loop, live, told>>
       PROVE  Told'
  BY <1>11 DEF Told, AbandonedAreTold, Awaited
<1> HIDE DEF Holds
<1> QED
  BY <1>5, <1>6, <1>7, <1>8, <1>9, <1>10, <1>11 DEF Steps, RunSteps, Creates, vars

-----------------------------------------------------------------------------
(* Tool calls and their results.                                               *)

BlocksIn(i, m) ==
    \A k \in DOMAIN m : m[k].kind # "seed" => loop[m[k].run].session = i

PairedIn(m) ==
    \A k \in DOMAIN m :
        /\ m[k].kind = "use" =>
             \/ k < Len(m) /\ m[k + 1] = Block("results", m[k].run, m[k].turn)
             \/ k = Len(m) /\ Using(m[k].run)
             \/ loop[m[k].run].reason = "aborted"
        /\ m[k].kind = "results" /\ k > 1 =>
             m[k - 1] = Block("use", m[k].run, m[k].turn)

EndsWithUse(r) ==
    Using(r) /\ ~loop[r].aborted =>
        LET m == sessions[loop[r].session].messages IN
          Len(m) # 0 /\ m[Len(m)] = Block("use", r, loop[r].iteration)

\* Every session is in order, and one in use ends with its run's tool calls.
Sound ==
    /\ \A i \in DOMAIN sessions :
         BlocksIn(i, sessions[i].messages) /\ PairedIn(sessions[i].messages)
    /\ \A r \in Runs : EndsWithUse(r)

LEMMA SoundIs == Sound <=> Located /\ PairedUnlessAborted
BY DEF Sound, Located, PairedUnlessAborted, BlocksIn, PairedIn, EndsWithUse

LEMMA BlockTyped ==
    ASSUME NEW m \in Seq(Blocks \cup Seeds), NEW k \in DOMAIN m, m[k].kind # "seed"
    PROVE  m[k] \in Blocks /\ m[k].run \in Runs
<1>1. m[k] \in Blocks \cup Seeds
  OBVIOUS
<1> QED BY <1>1 DEF Blocks, Seeds

\* What a step does to a run q whose blocks stay where they are.
Steady(q) ==
    /\ loop'[q].session = loop[q].session
    /\ Using(q) => Using(q)' \/ loop'[q].reason = "aborted"
    /\ loop[q].reason = "aborted" => loop'[q].reason = "aborted"

LEMMA SameTranscript ==
    ASSUME NEW i, NEW m \in Seq(Blocks \cup Seeds), BlocksIn(i, m), PairedIn(m),
           \A q \in Runs : loop[q].session = i => Steady(q)
    PROVE  BlocksIn(i, m)' /\ PairedIn(m)'
<1>1. \A k \in DOMAIN m : m[k].kind # "seed" => m[k].run \in Runs /\ Steady(m[k].run)
  BY BlockTyped DEF BlocksIn
<1>2. BlocksIn(i, m)'
  BY <1>1 DEF BlocksIn, Steady
<1>3. ASSUME NEW k \in DOMAIN m, m[k].kind = "use"
      PROVE  \/ k < Len(m) /\ m[k + 1] = Block("results", m[k].run, m[k].turn)
             \/ k = Len(m) /\ Using(m[k].run)'
             \/ loop'[m[k].run].reason = "aborted"
  BY <1>1, <1>3 DEF PairedIn, Steady
<1>4. PairedIn(m)'
  BY <1>3 DEF PairedIn, Block
<1> QED BY <1>2, <1>4

\* A block is appended.
LEMMA LongerTranscript ==
    ASSUME NEW i, NEW m \in Seq(Blocks \cup Seeds), NEW b \in Blocks,
           BlocksIn(i, m), PairedIn(m), loop'[b.run].session = i,
           \A k \in DOMAIN m : m[k].kind # "seed" =>
              /\ loop'[m[k].run].session = i
              /\ loop[m[k].run].reason = "aborted" => loop'[m[k].run].reason = "aborted",
           b.kind = "use" => Using(b.run)',
           Len(m) # 0 /\ m[Len(m)].kind = "use" =>
              \/ b = Block("results", m[Len(m)].run, m[Len(m)].turn)
              \/ loop'[m[Len(m)].run].reason = "aborted",
           b.kind = "results" /\ Len(m) # 0 => m[Len(m)] = Block("use", b.run, b.turn)
    PROVE  BlocksIn(i, Append(m, b))' /\ PairedIn(Append(m, b))'
<1>1. PICK n : n = Append(m, b)
  OBVIOUS
<1>2. /\ Len(n) = Len(m) + 1 /\ DOMAIN n = 1..(Len(m) + 1) /\ DOMAIN m = 1..Len(m)
      /\ n[Len(m) + 1] = b /\ \A k \in DOMAIN m : n[k] = m[k] /\ k \in Nat
      /\ Len(m) \in Nat
  BY <1>1
<1>3. BlocksIn(i, n)'
  BY <1>2 DEF BlocksIn
<1>4. ASSUME NEW k \in DOMAIN n, n[k].kind = "use"
      PROVE  \/ k < Len(n) /\ n[k + 1] = Block("results", n[k].run, n[k].turn)
             \/ k = Len(n) /\ Using(n[k].run)'
             \/ loop'[n[k].run].reason = "aborted"
  <2>1. CASE k = Len(m) + 1
    BY <1>2, <1>4, <2>1
  <2>2. CASE k = Len(m) /\ Len(m) # 0
    <3>1. Len(m) \in DOMAIN m /\ k < Len(n) /\ n[k] = m[Len(m)] /\ n[k + 1] = b
      BY <1>2, <2>2
    <3> QED BY <1>4, <2>2, <3>1
  <2>3. CASE k \in DOMAIN m /\ k # Len(m)
    <3>1. k < Len(m) /\ k + 1 \in DOMAIN m /\ k < Len(n) /\ n[k] = m[k] /\ n[k + 1] = m[k + 1]
      BY <1>2, <2>3
    <3>2. \/ m[k + 1] = Block("results", m[k].run, m[k].turn)
          \/ loop[m[k].run].reason = "aborted"
      BY <1>4, <2>3, <3>1 DEF PairedIn
    <3> QED BY <1>4, <2>3, <3>1, <3>2
  <2> QED BY <1>2, <2>1, <2>2, <2>3
<1>5. ASSUME NEW k \in DOMAIN n, n[k].kind = "results", k > 1
      PROVE  n[k - 1] = Block("use", n[k].run, n[k].turn)
  <2>1. CASE k = Len(m) + 1
    <3>1. Len(m) # 0 /\ k - 1 = Len(m) /\ Len(m) \in DOMAIN m
      BY <1>2, <1>5, <2>1
    <3> QED BY <1>2, <1>5, <2>1, <3>1
  <2>2. CASE k \in DOMAIN m
    <3>1. k - 1 \in DOMAIN m /\ n[k - 1] = m[k - 1] /\ n[k] = m[k]
      BY <1>2, <1>5, <2>2
    <3> QED BY <1>5, <2>2, <3>1 DEF PairedIn
  <2> QED BY <1>2, <2>1, <2>2
<1>6. PairedIn(n)'
  BY <1>4, <1>5 DEF PairedIn, Block
<1> QED BY <1>1, <1>3, <1>6

\* trim() leaves what it keeps in order.
LEMMA ShorterTranscript ==
    ASSUME NEW i, NEW m \in Seq(Blocks \cup Seeds), BlocksIn(i, m), PairedIn(m),
           \A q \in Runs : loop[q].session = i =>
              /\ loop'[q].session = i /\ ~Using(q)
              /\ loop[q].reason = "aborted" => loop'[q].reason = "aborted"
    PROVE  BlocksIn(i, Trim(m))' /\ PairedIn(Trim(m))'
<1>1. PICK n : n = Trim(m)
  OBVIOUS
<1>2. n \in Seq(Blocks \cup Seeds)
  BY <1>1, TrimFacts
<1>3. PICK d \in 0..Len(m) :
         /\ Len(n) = Len(m) - d
         /\ \A k \in DOMAIN n : k + d \in DOMAIN m /\ n[k] = m[k + d]
  BY <1>1, TrimFacts
<1>4. Len(m) \in Nat /\ Len(n) \in Nat /\ DOMAIN n = 1..Len(n) /\ d \in Nat
  BY <1>2, <1>3
<1>5. \A k \in DOMAIN m : m[k].kind # "seed" =>
         /\ m[k].run \in Runs /\ loop[m[k].run].session = i
         /\ loop'[m[k].run].session = i /\ ~Using(m[k].run)
         /\ loop[m[k].run].reason = "aborted" => loop'[m[k].run].reason = "aborted"
  BY BlockTyped DEF BlocksIn
<1>6. BlocksIn(i, n)'
  BY <1>3, <1>5 DEF BlocksIn
<1>7. ASSUME NEW k \in DOMAIN n, n[k].kind = "use"
      PROVE  \/ k < Len(n) /\ n[k + 1] = Block("results", n[k].run, n[k].turn)
             \/ loop'[n[k].run].reason = "aborted"
  <2>1. k + d \in DOMAIN m /\ n[k] = m[k + d]
    BY <1>3
  <2>2. \/ k + d < Len(m) /\ m[k + d + 1] = Block("results", n[k].run, n[k].turn)
        \/ loop[n[k].run].reason = "aborted"
    BY <1>5, <1>7, <2>1 DEF PairedIn
  <2>3. CASE k + d < Len(m) /\ m[k + d + 1] = Block("results", n[k].run, n[k].turn)
    <3>1. k < Len(n) /\ k + 1 \in DOMAIN n /\ k + 1 + d = k + d + 1
      BY <1>3, <1>4, <2>3
    <3>2. n[k + 1] = m[k + d + 1]
      BY <1>3, <3>1
    <3> QED BY <2>3, <3>1, <3>2
  <2>4. CASE loop[n[k].run].reason = "aborted"
    BY <1>5, <1>7, <2>1, <2>4
  <2> QED BY <2>2, <2>3, <2>4
<1>8. ASSUME NEW k \in DOMAIN n, n[k].kind = "results", k > 1
      PROVE  n[k - 1] = Block("use", n[k].run, n[k].turn)
  <2>1. k + d \in DOMAIN m /\ n[k] = m[k + d]
    BY <1>3
  <2>2. k - 1 \in DOMAIN n /\ (k - 1) + d = (k + d) - 1 /\ k + d > 1
    BY <1>4, <1>8
  <2>3. n[k - 1] = m[(k + d) - 1]
    BY <1>3, <2>2
  <2>4. m[(k + d) - 1] = Block("use", m[k + d].run, m[k + d].turn)
    BY <1>8, <2>1, <2>2 DEF PairedIn
  <2> QED BY <2>1, <2>3, <2>4
<1>9. PairedIn(n)'
  BY <1>7, <1>8 DEF PairedIn, Block
<1> QED BY <1>1, <1>6, <1>9

\* Only run r and its session i change.
LEMMA OneSession ==
    ASSUME Types, Sound, NEW r \in Runs, NEW x, NEW i,
           loop' = [loop EXCEPT ![r] = x], x.session = i,
           loop[r].session \in {0, i}, DOMAIN sessions' = DOMAIN sessions,
           \A j \in DOMAIN sessions : j # i => sessions'[j] = sessions[j],
           \A s \in Runs : s # r /\ Using(s) => loop[s].session # i,
           i \in DOMAIN sessions => /\ BlocksIn(i, sessions[i].messages)'
                                    /\ PairedIn(sessions[i].messages)',
           EndsWithUse(r)'
    PROVE  Sound'
<1>1. loop'[r] = x /\ \A s \in Runs : s # r => loop'[s] = loop[s]
  BY StaticTypes
<1>2. \A s \in Runs : s # r => Steady(s)
  BY <1>1 DEF Steady, Using
<1>3. ASSUME NEW j \in DOMAIN sessions, j # i
      PROVE  BlocksIn(j, sessions[j].messages)' /\ PairedIn(sessions[j].messages)'
  <2>1. PICK m : m = sessions[j].messages
    OBVIOUS
  <2>2. m \in Seq(Blocks \cup Seeds) /\ BlocksIn(j, m) /\ PairedIn(m) /\ j # 0
    BY <2>1, SessionFacts, StaticTypes DEF Sound
  <2>3. \A q \in Runs : loop[q].session = j => Steady(q)
    BY <1>2, <1>3, <2>2
  <2>4. sessions'[j].messages = m
    BY <1>3, <2>1
  <2> QED BY <2>2, <2>3, <2>4, SameTranscript
<1>4. ASSUME NEW s \in Runs, s # r
      PROVE  EndsWithUse(s)'
  <2>1. SUFFICES ASSUME Using(s), ~loop[s].aborted
                 PROVE  LET m == sessions'[loop[s].session].messages IN
                          Len(m) # 0 /\ m[Len(m)] = Block("use", s, loop[s].iteration)
    BY <1>1, <1>4 DEF EndsWithUse, Using, Block
  <2>2. loop[s].session \in DOMAIN sessions /\ loop[s].session # i
    BY <1>4, <2>1, OwnSession DEF Using
  <2> QED BY <2>1, <2>2 DEF Sound, EndsWithUse
<1>5. \A j \in DOMAIN sessions' :
         BlocksIn(j, sessions[j].messages)' /\ PairedIn(sessions[j].messages)'
  BY <1>3
<1>6. \A s \in Runs : EndsWithUse(s)'
  BY <1>4
<1> QED BY <1>5, <1>6 DEF Sound

\* Run r moves, and its transcript stays.
LEMMA SoundQuiet ==
    ASSUME Types, Owned, Sound, NEW r \in Runs, NEW x \in Loop, Moves(r, x),
           loop[r].pc \in Working, sessions' = sessions,
           Using(r) => \/ x.pc \in UsingPoints /\ x.iteration = loop[r].iteration
                       \/ x.reason = "aborted",
           ~Using(r) => x.pc \notin UsingPoints
    PROVE  Sound'
<1>1. PICK i : i = loop[r].session
  OBVIOUS
<1>2. /\ loop' = [loop EXCEPT ![r] = x] /\ x.session = i /\ loop'[r] = x
      /\ LocalHolds(x) /\ x.aborted = loop[r].aborted /\ x.pc \in Running
      /\ \A s \in Runs : s # r => loop'[s] = loop[s]
  BY <1>1, StaticTypes DEF Moves
<1>3. loop[r].pc \in Running /\ loop[r].pc # "idle" /\ loop[r].reason = "none"
  BY RunFacts DEF Working, Running, LocalHolds
<1>4. \A s \in Runs : s # r /\ Using(s) => loop[s].session # i
  BY <1>1, <1>3 DEF Owned, OneRunPerTranscript, Using, Running, Working
<1>5. i \in DOMAIN sessions
  BY <1>1, <1>3, OwnSession
<1>6. Steady(r)
  BY <1>1, <1>2, <1>3 DEF Steady, Using, UsingPoints, Awaiting
<1>7. \A s \in Runs : s # r => Steady(s)
  BY <1>2 DEF Steady, Using
<1>8. PICK m : m = sessions[i].messages
  OBVIOUS
<1>9. BlocksIn(i, m)' /\ PairedIn(m)'
  BY <1>5, <1>6, <1>7, <1>8, SessionFacts, SameTranscript DEF Sound
<1>10. EndsWithUse(r)'
  <2>1. SUFFICES ASSUME x.pc \in UsingPoints, ~x.aborted
                 PROVE  Len(m) # 0 /\ m[Len(m)] = Block("use", r, x.iteration)
    BY <1>2, <1>8 DEF EndsWithUse, Using, UsingPoints, Awaiting, Block
  <2>2. x.reason = "none"
    BY <1>2, <2>1 DEF LocalHolds, UsingPoints, Awaiting, Working
  <2>3. Using(r) /\ x.iteration = loop[r].iteration /\ ~loop[r].aborted
    BY <1>2, <2>1, <2>2
  <2> QED BY <1>1, <1>8, <2>3 DEF Sound, EndsWithUse
<1> QED BY <1>1, <1>2, <1>4, <1>8, <1>9, <1>10, OneSession

\* No other run is in the session of a run in flight.
LEMMA AloneInSession ==
    ASSUME Types, Owned, NEW r \in Runs, loop[r].pc \in Running
    PROVE  \A s \in Runs : s # r /\ Using(s) => loop[s].session # loop[r].session
BY DEF Owned, OneRunPerTranscript, Using, Running, Working

LEMMA SoundUses ==
    ASSUME Types, Owned, Sound, NEW r \in Runs, NEW x \in Loop, Uses(r, x)
    PROVE  Sound'
<1>1. PICK i : i = loop[r].session
  OBVIOUS
<1>2. PICK m : m = sessions[i].messages
  OBVIOUS
<1>3. PICK b : b = Block("use", r, loop[r].iteration)
  OBVIOUS
<1>4. /\ loop[r].pc = "streaming" /\ loop[r].pc \in Running /\ loop[r].pc # "idle"
      /\ loop[r].reason = "none" /\ loop[r].iteration \in 0..MaxIterations
  BY RunFacts DEF Uses, Working, Running, LocalHolds, Loop
<1>5. /\ loop' = [loop EXCEPT ![r] = x] /\ loop'[r] = x /\ x.session = i
      /\ x.pc = "dispatch" /\ x.iteration = loop[r].iteration
      /\ \A s \in Runs : s # r => loop'[s] = loop[s]
  BY <1>1, StaticTypes DEF Uses, Moves
<1>6. b \in Blocks /\ b.kind = "use" /\ b.run = r /\ b.turn = loop[r].iteration
  BY <1>3, <1>4, BlockFacts
<1>7. i \in DOMAIN sessions /\ m \in Seq(Blocks \cup Seeds) /\ BlocksIn(i, m) /\ PairedIn(m)
  BY <1>1, <1>2, <1>4, OwnSession, SessionFacts DEF Sound
<1>8. sessions' = Push(r, b)
  BY <1>3 DEF Uses
<1>9. /\ DOMAIN sessions' = DOMAIN sessions
      /\ \A j \in DOMAIN sessions : j # i => sessions'[j] = sessions[j]
      /\ sessions'[i].messages = Append(m, b)
  BY SMTT(40), <1>1, <1>2, <1>4, <1>6, <1>8, PushFacts
<1>10. \A s \in Runs : s # r /\ Using(s) => loop[s].session # i
  BY <1>1, <1>4, AloneInSession
<1>11. \A k \in DOMAIN m : m[k].kind # "seed" =>
          /\ m[k].run \in Runs /\ loop'[m[k].run].session = i
          /\ loop[m[k].run].reason = "aborted" => loop'[m[k].run].reason = "aborted"
  BY <1>1, <1>4, <1>5, <1>7, BlockTyped DEF BlocksIn
<1>12. ASSUME Len(m) # 0, m[Len(m)].kind = "use"
       PROVE  loop'[m[Len(m)].run].reason = "aborted"
  <2>1. Len(m) \in DOMAIN m
    BY <1>7, <1>12
  <2>2. m[Len(m)].run \in Runs /\ loop[m[Len(m)].run].session = i
    BY <1>7, <1>12, <2>1, BlockTyped DEF BlocksIn
  <2>3. ~Using(m[Len(m)].run)
    BY <1>4, <1>10, <2>2 DEF Using
  <2>4. loop[m[Len(m)].run].reason = "aborted"
    BY <1>7, <1>12, <2>1, <2>3 DEF PairedIn
  <2> QED BY <1>11, <1>12, <2>1, <2>4
<1>13. Using(r)' /\ loop'[b.run].session = i
  BY <1>5, <1>6 DEF Using
<1>14. BlocksIn(i, Append(m, b))' /\ PairedIn(Append(m, b))'
  BY <1>6, <1>7, <1>11, <1>12, <1>13, LongerTranscript
<1>15. EndsWithUse(r)'
  <2>1. Len(Append(m, b)) # 0 /\ Append(m, b)[Len(Append(m, b))] = b
    BY <1>7
  <2>2. b = Block("use", r, x.iteration)
    BY <1>3, <1>5
  <2> QED BY <1>5, <1>9, <2>1, <2>2 DEF EndsWithUse, Block
<1> QED BY <1>1, <1>5, <1>9, <1>10, <1>14, <1>15, OneSession

LEMMA SoundAnswered ==
    ASSUME Types, Owned, Sound, NEW r \in Runs, NEW x \in Loop, Answered(r, x)
    PROVE  Sound'
<1>1. PICK i : i = loop[r].session
  OBVIOUS
<1>2. PICK m : m = sessions[i].messages
  OBVIOUS
<1>3. PICK b : b = Block("results", r, loop[r].iteration)
  OBVIOUS
<1>4. /\ loop[r].pc = "dispatch" /\ loop[r].pc \in Running /\ loop[r].pc # "idle"
      /\ loop[r].reason = "none" /\ loop[r].iteration \in 0..MaxIterations
      /\ Using(r) /\ ~loop[r].aborted
  BY RunFacts DEF Answered, Working, Running, LocalHolds, Loop, Using
<1>5. /\ loop' = [loop EXCEPT ![r] = x] /\ loop'[r] = x /\ x.session = i
      /\ x.pc \in {"started", "returned"}
      /\ \A s \in Runs : s # r => loop'[s] = loop[s]
  BY <1>1, StaticTypes DEF Answered, Moves
<1>6. b \in Blocks /\ b.kind = "results" /\ b.run = r /\ b.turn = loop[r].iteration
  BY <1>3, <1>4, BlockFacts
<1>7. i \in DOMAIN sessions /\ m \in Seq(Blocks \cup Seeds) /\ BlocksIn(i, m) /\ PairedIn(m)
  BY <1>1, <1>2, <1>4, OwnSession, SessionFacts DEF Sound
<1>8. sessions' = Push(r, b)
  BY <1>3 DEF Answered
<1>9. /\ DOMAIN sessions' = DOMAIN sessions
      /\ \A j \in DOMAIN sessions : j # i => sessions'[j] = sessions[j]
      /\ sessions'[i].messages = Append(m, b)
  BY SMTT(40), <1>1, <1>2, <1>4, <1>6, <1>8, PushFacts
<1>10. \A s \in Runs : s # r /\ Using(s) => loop[s].session # i
  BY <1>1, <1>4, AloneInSession
<1>11. \A k \in DOMAIN m : m[k].kind # "seed" =>
          /\ m[k].run \in Runs /\ loop'[m[k].run].session = i
          /\ loop[m[k].run].reason = "aborted" => loop'[m[k].run].reason = "aborted"
  BY <1>1, <1>4, <1>5, <1>7, BlockTyped DEF BlocksIn
<1>12. Len(m) # 0 /\ m[Len(m)] = Block("use", r, loop[r].iteration)
  BY <1>1, <1>2, <1>4 DEF Sound, EndsWithUse
<1>13. m[Len(m)].run = r /\ m[Len(m)].turn = loop[r].iteration
  BY <1>4, <1>12, BlockFacts
<1>14. BlocksIn(i, Append(m, b))' /\ PairedIn(Append(m, b))'
  BY <1>3, <1>5, <1>6, <1>7, <1>11, <1>12, <1>13, LongerTranscript
<1>15. EndsWithUse(r)'
  BY <1>5 DEF EndsWithUse, Using
<1> QED BY <1>1, <1>5, <1>9, <1>10, <1>14, <1>15, OneSession

LEMMA SoundBegins ==
    ASSUME Types, Owned, Sound, NEW r \in Runs, NEW x, Begins(r, x)
    PROVE  Sound'
<1>1. PICK i : i = current
  OBVIOUS
<1>2. PICK m : m = sessions[i].messages
  OBVIOUS
<1>3. PICK b : b = Block("prompt", r, 0)
  OBVIOUS
<1>4. /\ loop[r].pc = "idle" /\ loop[r].session = 0 /\ i # 0 /\ sessions[i].settled
      /\ loop' = [loop EXCEPT ![r] = x] /\ loop'[r] = x /\ x.session = i
      /\ x.pc \in {"started", "returned"}
      /\ \A s \in Runs : s # r => loop'[s] = loop[s]
  BY <1>1, RunFacts, StaticTypes DEF Begins, LocalHolds
<1>5. b \in Blocks /\ b.kind = "prompt" /\ b.run = r
  BY <1>3, BlockFacts, LoopConstants
<1>6. /\ DOMAIN sessions' = DOMAIN sessions /\ i \in DOMAIN sessions
      /\ \A j \in DOMAIN sessions : j # i => sessions'[j] = sessions[j]
      /\ sessions'[i].messages = Append(m, b)
  BY <1>1, <1>2, <1>3, BeginsSession
<1>7. m \in Seq(Blocks \cup Seeds) /\ BlocksIn(i, m) /\ PairedIn(m)
  BY <1>2, <1>6, SessionFacts DEF Sound
<1>8. \A s \in Runs : Using(s) => loop[s].session # i
  BY <1>4 DEF Owned, Using, Running, Working
<1>9. \A k \in DOMAIN m : m[k].kind # "seed" =>
          /\ m[k].run \in Runs /\ m[k].run # r /\ loop'[m[k].run] = loop[m[k].run]
          /\ loop[m[k].run].session = i
  BY <1>4, <1>7, BlockTyped DEF BlocksIn
<1>10. ASSUME Len(m) # 0, m[Len(m)].kind = "use"
       PROVE  loop'[m[Len(m)].run].reason = "aborted"
  <2>1. Len(m) \in DOMAIN m
    BY <1>7, <1>10
  <2>2. ~Using(m[Len(m)].run)
    BY <1>8, <1>9, <1>10, <2>1
  <2>3. loop[m[Len(m)].run].reason = "aborted"
    BY <1>7, <1>10, <2>1, <2>2 DEF PairedIn
  <2> QED BY <1>9, <1>10, <2>1, <2>3
<1>11. BlocksIn(i, Append(m, b))' /\ PairedIn(Append(m, b))'
  BY <1>4, <1>5, <1>7, <1>9, <1>10, LongerTranscript
<1>12. EndsWithUse(r)'
  BY <1>4 DEF EndsWithUse, Using
<1> QED BY <1>4, <1>6, <1>8, <1>11, <1>12, OneSession

LEMMA SoundSettles ==
    ASSUME Types, Owned, Sound, NEW r \in Runs, NEW x, Settles(r, x)
    PROVE  Sound'
<1>1. PICK i : i = loop[r].session
  OBVIOUS
<1>2. PICK m : m = sessions[i].messages
  OBVIOUS
<1>3. /\ loop[r].pc = "returned" /\ loop[r].pc \in Running
      /\ loop' = [loop EXCEPT ![r] = x] /\ loop'[r] = x /\ x.session = i
      /\ x.pc = "closed" /\ x.reason = loop[r].reason
      /\ \A s \in Runs : s # r => loop'[s] = loop[s]
  BY <1>1, StaticTypes DEF Settles, Running
<1>4. /\ DOMAIN sessions' = DOMAIN sessions /\ i \in DOMAIN sessions
      /\ \A j \in DOMAIN sessions : j # i => sessions'[j] = sessions[j]
      /\ sessions'[i].messages = Trim(m)
  BY <1>1, <1>2, SettlesSession
<1>5. m \in Seq(Blocks \cup Seeds) /\ BlocksIn(i, m) /\ PairedIn(m)
  BY <1>2, <1>4, SessionFacts DEF Sound
<1>6. \A s \in Runs : Using(s) => loop[s].session # i
  BY <1>1, <1>3, AloneInSession DEF Using
<1>7. \A q \in Runs : loop[q].session = i =>
         /\ loop'[q].session = i /\ ~Using(q)
         /\ loop[q].reason = "aborted" => loop'[q].reason = "aborted"
  BY <1>3, <1>6
<1>8. BlocksIn(i, Trim(m))' /\ PairedIn(Trim(m))'
  BY <1>5, <1>7, ShorterTranscript
<1>9. EndsWithUse(r)'
  BY <1>3 DEF EndsWithUse, Using
<1> QED BY <1>1, <1>3, <1>4, <1>6, <1>8, <1>9, OneSession

\* create() gives a transcript of seeds to a session that no run is in.
LEMMA SoundCreates ==
    ASSUME Types, Owned, Sound, NEW i, Creates(i)
    PROVE  Sound'
<1>1. loop' = loop
  BY DEF Creates
<1>2. ASSUME NEW j \in DOMAIN sessions', j # i
      PROVE  BlocksIn(j, sessions[j].messages)' /\ PairedIn(sessions[j].messages)'
  <2>1. j \in DOMAIN sessions /\ sessions'[j] = sessions[j]
    BY <1>2 DEF Creates
  <2>2. PICK m : m = sessions[j].messages
    OBVIOUS
  <2>3. m \in Seq(Blocks \cup Seeds) /\ BlocksIn(j, m) /\ PairedIn(m)
    BY <2>1, <2>2, SessionFacts DEF Sound
  <2>4. \A q \in Runs : loop[q].session = j => Steady(q)
    BY <1>1 DEF Steady, Using
  <2>5. BlocksIn(j, m)' /\ PairedIn(m)'
    BY <2>3, <2>4, SameTranscript
  <2>6. sessions'[j].messages = m
    BY <2>1, <2>2
  <2> QED BY <2>5, <2>6
<1>3. ASSUME i \in DOMAIN sessions'
      PROVE  BlocksIn(i, sessions[i].messages)' /\ PairedIn(sessions[i].messages)'
  <2>1. \A k \in DOMAIN sessions'[i].messages : sessions'[i].messages[k].kind = "seed"
    BY DEF Creates
  <2> QED BY <2>1 DEF BlocksIn, PairedIn
<1>4. ASSUME NEW s \in Runs
      PROVE  EndsWithUse(s)'
  <2>1. SUFFICES ASSUME Using(s), ~loop[s].aborted
                 PROVE  LET m == sessions'[loop[s].session].messages IN
                          Len(m) # 0 /\ m[Len(m)] = Block("use", s, loop[s].iteration)
    BY <1>1 DEF EndsWithUse, Using, Block
  <2>2. loop[s].pc \in Running /\ loop[s].pc # "idle"
    BY <2>1 DEF Using, Running, Working
  <2>3. loop[s].session \in DOMAIN sessions /\ ~sessions[loop[s].session].settled
    BY <2>2, OwnSession DEF Owned
  <2>4. sessions'[loop[s].session] = sessions[loop[s].session]
    BY <2>3 DEF Creates
  <2> QED BY <2>1, <2>4 DEF Sound, EndsWithUse
<1> QED BY <1>2, <1>3, <1>4 DEF Sound

\* An abort moves no run, and what stop() empties is in order.
LEMMA SoundCut ==
    ASSUME Types, Owned, Sound, NEW rs, Cut(rs)
    PROVE  Sound'
<1>1. \A r \in Runs :
         /\ loop'[r].pc = loop[r].pc /\ loop'[r].session = loop[r].session
         /\ loop'[r].iteration = loop[r].iteration /\ loop'[r].reason = loop[r].reason
         /\ loop'[r].aborted = (r \in rs \/ loop[r].aborted)
  BY CutRuns
<1>2. \A r \in Runs : Steady(r)
  BY <1>1 DEF Steady, Using
<1>3. ASSUME NEW j \in DOMAIN sessions'
      PROVE  BlocksIn(j, sessions[j].messages)' /\ PairedIn(sessions[j].messages)'
  <2>1. PICK n : n = sessions'[j].messages
    OBVIOUS
  <2>2. j \in DOMAIN sessions
    BY <1>3 DEF Cut
  <2>3. CASE n = <<>>
    <3>1. BlocksIn(j, n)' /\ PairedIn(n)'
      BY <2>3 DEF BlocksIn, PairedIn
    <3> QED BY <2>1, <3>1
  <2>4. CASE n = sessions[j].messages
    <3>1. n \in Seq(Blocks \cup Seeds) /\ BlocksIn(j, n) /\ PairedIn(n)
      BY <2>2, <2>4, SessionFacts DEF Sound
    <3>2. BlocksIn(j, n)' /\ PairedIn(n)'
      BY <1>2, <3>1, SameTranscript
    <3> QED BY <2>1, <3>2
  <2> QED BY <2>1, <2>2, <2>3, <2>4 DEF Cut
<1>4. ASSUME NEW s \in Runs
      PROVE  EndsWithUse(s)'
  <2>1. SUFFICES ASSUME Using(s), ~loop'[s].aborted
                 PROVE  LET m == sessions'[loop[s].session].messages IN
                          Len(m) # 0 /\ m[Len(m)] = Block("use", s, loop[s].iteration)
    BY <1>1 DEF EndsWithUse, Using, Block
  <2>2. ~loop[s].aborted /\ s \notin rs
    BY <1>1, <2>1
  <2>3. loop[s].pc \in Running /\ loop[s].pc # "idle"
    BY <2>1 DEF Using, Running, Working
  <2>4. loop[s].session \in DOMAIN sessions
    BY <2>3, OwnSession
  <2>5. sessions'[loop[s].session].messages = sessions[loop[s].session].messages
    BY <2>2, <2>3, <2>4 DEF Cut
  <2> QED BY <2>1, <2>2, <2>5 DEF Sound, EndsWithUse
<1> QED BY <1>3, <1>4 DEF Sound

LEMMA SoundSame ==
    ASSUME Sound, loop' = loop, sessions' = sessions
    PROVE  Sound'
<1>1. ASSUME NEW r PROVE Using(r)' <=> Using(r)
  BY DEF Using
<1>2. ASSUME NEW i, NEW m, BlocksIn(i, m) PROVE BlocksIn(i, m)'
  BY <1>2 DEF BlocksIn
<1>3. ASSUME NEW m, PairedIn(m) PROVE PairedIn(m)'
  <2>1. ASSUME NEW k \in DOMAIN m, m[k].kind = "use"
        PROVE  \/ k < Len(m) /\ m[k + 1] = Block("results", m[k].run, m[k].turn)
               \/ k = Len(m) /\ Using(m[k].run)'
               \/ loop'[m[k].run].reason = "aborted"
    BY <1>1, <1>3, <2>1 DEF PairedIn
  <2>2. ASSUME NEW k \in DOMAIN m, m[k].kind = "results", k > 1
        PROVE  m[k - 1] = Block("use", m[k].run, m[k].turn)
    BY <1>3, <2>2 DEF PairedIn
  <2> QED BY <2>1, <2>2 DEF PairedIn, Block
<1>4. ASSUME NEW i \in DOMAIN sessions'
      PROVE  BlocksIn(i, sessions[i].messages)' /\ PairedIn(sessions[i].messages)'
  <2>1. PICK m : m = sessions[i].messages
    OBVIOUS
  <2>2. BlocksIn(i, m) /\ PairedIn(m)
    BY <2>1 DEF Sound
  <2>3. BlocksIn(i, m)' /\ PairedIn(m)'
    BY <2>2, <1>2, <1>3
  <2>4. sessions'[i].messages = m
    BY <2>1
  <2> QED BY <2>3, <2>4
<1>5. ASSUME NEW r \in Runs PROVE EndsWithUse(r)'
  <2>1. EndsWithUse(r)
    BY DEF Sound
  <2> QED BY <1>1, <2>1 DEF EndsWithUse, Block
<1> QED BY <1>4, <1>5 DEF Sound

LEMMA SoundRunSteps ==
    ASSUME Types, Owned, Sound, NEW r \in Runs, RunSteps(r)
    PROVE  Sound'
<1>1. ASSUME NEW x \in Loop, Quiet(r, x)
      PROVE  Sound'
  <2>1. /\ Moves(r, x) /\ loop[r].pc \in Working /\ sessions' = sessions
        /\ Using(r) => \/ x.pc \in UsingPoints /\ x.iteration = loop[r].iteration
                       \/ x.reason = "aborted"
        /\ ~Using(r) => x.pc \notin UsingPoints
    BY <1>1 DEF Quiet
  <2> QED BY <2>1, SoundQuiet
<1>2. ASSUME NEW x \in Loop, Starts(r, x) \/ Executed(r, x)
      PROVE  Sound'
  <2>1. /\ Moves(r, x) /\ loop[r].pc \in Working /\ sessions' = sessions
        /\ Using(r) /\ x.pc \in UsingPoints /\ x.iteration = loop[r].iteration
    BY <1>2 DEF Starts, Executed, Using, UsingPoints, Awaiting, Working
  <2> QED BY <2>1, SoundQuiet
<1>3. ASSUME NEW e, SettlesLate(r, e)
      PROVE  Sound'
  <2>1. loop' = loop /\ sessions' = sessions
    BY <1>3 DEF SettlesLate
  <2> QED BY <2>1, SoundSame
<1>4. ASSUME NEW x \in Loop, Uses(r, x) \/ Answered(r, x)
      PROVE  Sound'
  BY <1>4, SoundUses, SoundAnswered
<1> QED BY <1>1, <1>2, <1>3, <1>4 DEF RunSteps

LEMMA SoundStep ==
    ASSUME Types, Owned, Sound, Steps
    PROVE  Sound'
<1>1. ASSUME UNCHANGED vars PROVE Sound'
  <2>1. loop' = loop /\ sessions' = sessions
    BY <1>1 DEF vars
  <2> QED BY <2>1, SoundSame
<1>2. ASSUME NEW r \in Runs, RunSteps(r) PROVE Sound'
  BY <1>2, SoundRunSteps
<1>3. ASSUME NEW r \in Runs, NEW x, Begins(r, x) \/ Settles(r, x) PROVE Sound'
  BY <1>3, SoundBegins, SoundSettles
<1>4. ASSUME (\E i : Creates(i)) \/ (\E rs : Cut(rs)) PROVE Sound'
  BY <1>4, SoundCreates, SoundCut
<1> QED BY <1>1, <1>2, <1>3, <1>4 DEF Steps

-----------------------------------------------------------------------------
(* The invariant, and what follows from it.                                    *)

LEMMA InitInv == Init => Inv
<1> SUFFICES ASSUME Init PROVE Inv
  OBVIOUS
<1>1. sessions = <<>> /\ DOMAIN sessions = {} /\ Len(sessions) = 0
  BY DEF Init
<1>2. /\ loop \in [Runs -> Loop]
      /\ \A r \in Runs : /\ LocalHolds(loop[r]) /\ loop[r].pc = "idle"
                         /\ loop[r].session = 0 /\ live[r] = {} /\ told[r] = {}
  BY BlankHolds DEF Init, Blank
<1>3. TypeOK
  <2>1. sessions \in Seq(Session) /\ Len(sessions) <= MaxSessions /\ current \in 0..Len(sessions)
    <3>1. <<>> \in Seq(Session)
      OBVIOUS
    <3> QED BY <1>1, <3>1, LoopConstants DEF Init
  <2>2. \A r \in Runs : loop[r].session <= Len(sessions)
    <3>1. 0 <= 0
      OBVIOUS
    <3> QED BY <1>1, <1>2, <3>1, Zenon
  <2>3. live \in [Runs -> SUBSET Executions] /\ told \in [Runs -> SUBSET Executions]
    BY DEF Init
  <2>4. disposed \in BOOLEAN
    BY DEF Init
  <2> QED BY <1>2, <2>1, <2>2, <2>3, <2>4 DEF TypeOK
<1>4. Types
  BY <1>2, <1>3 DEF Types, AwaitedIsLive
<1>5. Owned /\ Told
  BY <1>2 DEF Owned, OneRunPerTranscript, Told, AbandonedAreTold, Running, Working
<1>6. Located /\ PairedUnlessAborted
  BY <1>1, <1>2 DEF Located, PairedUnlessAborted, Using
<1> QED BY <1>4, <1>5, <1>6 DEF Inv

LEMMA NextInv == Inv /\ [Next]_vars => Inv'
<1> SUFFICES ASSUME Inv, [Next]_vars PROVE Inv'
  OBVIOUS
<1>1. Types /\ Owned /\ Told /\ Sound
  BY SoundIs DEF Inv
<1>2. Steps
  BY <1>1, NextSteps
<1>3. Types' /\ Owned' /\ Told' /\ Sound'
  BY <1>1, <1>2, TypesStep, OwnedStep, ToldStep, SoundStep
<1>4. Located' /\ PairedUnlessAborted'
  BY <1>3 DEF Sound, Located, PairedUnlessAborted, BlocksIn, PairedIn, EndsWithUse
<1> QED BY <1>3, <1>4 DEF Inv

LEMMA SpecInv == Spec => []Inv
BY InitInv, NextInv, PTL DEF Spec

\* The sessions, the locals of the runs and their tools keep their types.
THEOREM TypeCorrect == Spec => []TypeOK
<1>1. Inv => TypeOK
  BY DEF Inv, Types
<1> QED BY <1>1, SpecInv, PTL

\* Two runs never append to one transcript.
THEOREM OneRun == Spec => []OneRunPerTranscript
<1>1. Inv => OneRunPerTranscript
  BY DEF Inv, Owned
<1> QED BY <1>1, SpecInv, PTL

\* A tool that still runs although nobody awaits it was told to stop.
THEOREM Abandoned == Spec => []AbandonedAreTold
<1>1. Inv => AbandonedAreTold
  BY DEF Inv, Told
<1> QED BY <1>1, SpecInv, PTL

\* Tool calls and their results stay together in every transcript, unless the
\* run was aborted while it dispatched them.
THEOREM Paired == Spec => []PairedUnlessAborted
<1>1. Inv => PairedUnlessAborted
  BY DEF Inv
<1> QED BY <1>1, SpecInv, PTL

\* No tool starts once its run is aborted.
THEOREM NoneOnceAborted == Spec => NoToolOnceAborted
<1> DEFINE Step == \A r \in Runs : loop[r].aborted => live'[r] \subseteq live[r]
<1>1. Inv /\ [Next]_vars => Step
  <2> SUFFICES ASSUME Inv, [Next]_vars PROVE Step
    OBVIOUS
  <2>1. Types /\ Steps
    BY NextSteps DEF Inv
  <2>2. live \in [Runs -> SUBSET Executions]
    BY <2>1, StaticTypes
  <2>3. ASSUME NEW r \in Runs, RunSteps(r)
        PROVE  Step
    BY <2>2, <2>3 DEF RunSteps, Quiet, Uses, Answered, Starts, Executed, SettlesLate
  <2>4. ASSUME NEW r \in Runs, NEW x, Begins(r, x) \/ Settles(r, x)
        PROVE  Step
    BY <2>4 DEF Begins, Settles
  <2>5. ASSUME (\E i : Creates(i)) \/ (\E rs : Cut(rs)) \/ UNCHANGED vars
        PROVE  Step
    BY <2>5 DEF Creates, Cut, vars
  <2> QED BY <2>1, <2>3, <2>4, <2>5 DEF Steps
<1> QED BY <1>1, SpecInv, PTL DEF Spec, NoToolOnceAborted

\* Complete is only ever said of a run that was not aborted and that has
\* answered its tool calls.
THEOREM CompleteClean == Spec => CompleteIsClean
<1> DEFINE Completes(r) == loop[r].reason # "complete" /\ loop'[r].reason = "complete"
           Step == \A r \in Runs : Completes(r) => ~loop[r].aborted /\ loop[r].calls = 0
<1>1. Inv /\ [Next]_vars => Step
  <2> SUFFICES ASSUME Inv, [Next]_vars, NEW r \in Runs, Completes(r)
               PROVE  ~loop[r].aborted /\ loop[r].calls = 0
    OBVIOUS
  <2>1. Types /\ Steps
    BY NextSteps DEF Inv
  <2>2. ASSUME NEW s \in Runs, NEW x, loop' = [loop EXCEPT ![s] = x]
        PROVE  s = r /\ x.reason = "complete"
    BY <2>1, <2>2, StaticTypes
  <2>3. ASSUME NEW s \in Runs, RunSteps(s)
        PROVE  ~loop[r].aborted /\ loop[r].calls = 0
    <3>1. ASSUME NEW x \in Loop, Quiet(s, x)
          PROVE  ~loop[r].aborted /\ loop[r].calls = 0
      BY <2>2, <3>1 DEF Quiet, Moves
    <3>2. ASSUME NEW x \in Loop, Uses(s, x) \/ Starts(s, x) \/ Executed(s, x)
          PROVE  FALSE
      <4>1. /\ LocalHolds(x) /\ x.pc \in Working /\ loop' = [loop EXCEPT ![s] = x]
        BY <3>2 DEF Uses, Starts, Executed, Moves, Working
      <4> QED BY <2>2, <4>1 DEF LocalHolds
    <3>3. ASSUME NEW x \in Loop, Answered(s, x)
          PROVE  FALSE
      BY <2>2, <3>3 DEF Answered, Moves
    <3>4. ASSUME NEW e, SettlesLate(s, e)
          PROVE  FALSE
      BY <3>4 DEF SettlesLate
    <3> QED BY <2>3, <3>1, <3>2, <3>3, <3>4 DEF RunSteps
  <2>4. ASSUME NEW s \in Runs, NEW x, Begins(s, x)
        PROVE  FALSE
    BY <2>2, <2>4 DEF Begins
  <2>5. ASSUME NEW s \in Runs, NEW x, Settles(s, x)
        PROVE  FALSE
    BY <2>2, <2>5 DEF Settles
  <2>6. ASSUME NEW rs, Cut(rs)
        PROVE  FALSE
    BY <2>1, <2>6, CutRuns
  <2>7. ASSUME (\E i : Creates(i)) \/ UNCHANGED vars
        PROVE  FALSE
    BY <2>7 DEF Creates, vars
  <2> QED BY <2>1, <2>3, <2>4, <2>5, <2>6, <2>7 DEF Steps
<1> QED BY <1>1, SpecInv, PTL DEF Spec, CompleteIsClean

-----------------------------------------------------------------------------
(* What the runtime relies on: an abort is not lost, and it is the answer.     *)

\* A run at work that is aborted stays aborted, and if it returns it says so, or
\* fails on the budget of its next turn: never complete, incomplete or out of
\* iterations.  RuntimeLifecycle assumes this of an attempt whose signal is
\* aborted.
AbortIsAnswered ==
    [][\A r \in Runs :
         loop[r].pc \in Working /\ loop[r].aborted =>
           /\ loop'[r].aborted
           /\ loop'[r].pc \in Running
           /\ loop'[r].pc = "returned" => loop'[r].reason \in {"aborted", "error"}]_vars

Answers(r) ==
    /\ loop'[r].aborted /\ loop'[r].pc \in Running
    /\ loop'[r].pc = "returned" => loop'[r].reason \in {"aborted", "error"}

LEMMA AnswersIf ==
    ASSUME Types, NEW r \in Runs, loop[r].aborted, NEW x, Becomes(r, x),
           \/ x = Returned(loop[r], "aborted") \/ x = Returned(loop[r], "error")
           \/ \E p \in Working : x = [loop[r] EXCEPT !.pc = p]
           \/ \E p \in Working, b \in BOOLEAN : x = [loop[r] EXCEPT !.pc = p, !.approved = b]
    PROVE  Answers(r)
<1>1. loop'[r] = x /\ loop[r] \in Loop /\ loop[r].aborted
  BY StaticTypes DEF Becomes
<1>2. ASSUME NEW reason \in {"aborted", "error"}, x = Returned(loop[r], reason)
      PROVE  Answers(r)
  <2>1. x.pc = "returned" /\ x.reason = reason /\ x.aborted
    BY <1>1, <1>2 DEF Returned, Blank
  <2> QED BY <1>1, <2>1 DEF Answers, Running
<1>3. ASSUME NEW p \in Working, x = [loop[r] EXCEPT !.pc = p]
      PROVE  Answers(r)
  <2>1. x.pc = p /\ x.aborted
    BY <1>1, <1>3 DEF Loop
  <2> QED BY <1>1, <2>1 DEF Answers, Running, Working
<1>4. ASSUME NEW p \in Working, NEW b \in BOOLEAN,
             x = [loop[r] EXCEPT !.pc = p, !.approved = b]
      PROVE  Answers(r)
  <2>1. x.pc = p /\ x.aborted
    BY <1>1, <1>4 DEF Loop
  <2> QED BY <1>1, <2>1 DEF Answers, Running, Working
<1> QED BY <1>2, <1>3, <1>4

\* The steps of the run itself.
LEMMA OwnStepAnswers ==
    ASSUME Types, NEW r \in Runs, loop[r].pc \in Working, loop[r].aborted, Runtime(r)
    PROVE  Answers(r)
<1>1. CASE (\E preAborted \in BOOLEAN : Run(r, preAborted)) \/ Settle(r) \/ StreamSettles(r)
           \/ Abort(r)
  BY <1>1 DEF Run, Settle, StreamSettles, StreamEnds, Abort, Working
<1>2. CASE StartStream(r)
  BY <1>2, AnswersIf DEF StartStream, Working
<1>3. CASE StreamAborted(r) \/ BudgetExhausted(r)
  BY <1>3, AnswersIf DEF StreamAborted, BudgetExhausted, Return
<1>4. CASE Dispatch(r)
  BY <1>4, AnswersIf DEF Dispatch, Return
<1>5. CASE AfterGate(r)
  BY <1>5, AnswersIf DEF AfterGate, BehindGate, Return
<1>6. CASE AfterTool(r)
  BY <1>6, AnswersIf DEF AfterTool, Return
<1>7. CASE GateSettles(r)
  BY <1>7, AnswersIf DEF GateSettles, GateAnswers, Working
<1>8. CASE \E e \in live[r] : ToolSettles(r, e)
  <2>1. CASE UNCHANGED loop
    BY <2>1 DEF Answers, Running, Working
  <2>2. CASE Becomes(r, [loop[r] EXCEPT !.pc = "executed"])
    BY <2>2, AnswersIf DEF Working
  <2> QED BY <1>8, <2>1, <2>2 DEF ToolSettles
<1>9. CASE DeadlineFires(r)
  BY <1>9, AnswersIf DEF DeadlineFires, Working
<1> QED BY <1>1, <1>2, <1>3, <1>4, <1>5, <1>6, <1>7, <1>8, <1>9 DEF Runtime, Unwinds

\* A run that is aborted at work stays aborted, and if it returns it returns
\* aborted, or with an error.
THEOREM AbortAnswered == Spec => AbortIsAnswered
<1> DEFINE Step == \A r \in Runs :
                     loop[r].pc \in Working /\ loop[r].aborted =>
                       /\ loop'[r].aborted
                       /\ loop'[r].pc \in Running
                       /\ loop'[r].pc = "returned" => loop'[r].reason \in {"aborted", "error"}
<1>1. Inv /\ [Next]_vars => Step
  <2> SUFFICES ASSUME Inv, [Next]_vars, NEW r \in Runs, loop[r].pc \in Working, loop[r].aborted
               PROVE  Answers(r)
    BY DEF Answers
  <2>1. Types
    BY DEF Inv
  <2>2. ASSUME loop'[r] = loop[r]
        PROVE  Answers(r)
    BY <2>2 DEF Answers, Running, Working
  <2>3. ASSUME NEW s \in Runs, NEW x, s # r, loop' = [loop EXCEPT ![s] = x]
        PROVE  Answers(r)
    BY <2>1, <2>2, <2>3, StaticTypes
  <2>4. ASSUME NEW s \in Runs, s # r, RunSteps(s)
        PROVE  Answers(r)
    BY <2>2, <2>3, <2>4 DEF RunSteps, Quiet, Uses, Answered, Starts, Executed, SettlesLate, Moves
  <2>5. ASSUME NEW s \in Runs, s # r, NEW x, Begins(s, x) \/ Settles(s, x)
        PROVE  Answers(r)
    BY <2>3, <2>5 DEF Begins, Settles
  <2>6. ASSUME NEW rs, Cut(rs)
        PROVE  Answers(r)
    BY <2>1, <2>6, CutRuns DEF Answers, Running, Working
  <2>7. ASSUME NEW s \in Runs, Runtime(s)
        PROVE  Answers(r)
    <3>1. CASE s = r
      BY <2>1, <2>7, <3>1, OwnStepAnswers
    <3>2. CASE s # r
      <4>1. CASE \E preAborted \in BOOLEAN : Run(s, preAborted)
        BY <2>1, <2>5, <3>2, <4>1, RunBegins
      <4>2. CASE Unwinds(s)
        BY <2>1, <2>4, <2>5, <3>2, <4>2, StartStreamStep, StreamAbortedStep, DispatchStep,
           AfterGateStep, AfterToolStep, SettleSettles DEF Unwinds
      <4>3. CASE BudgetExhausted(s) \/ StreamSettles(s) \/ GateSettles(s)
        BY <2>1, <2>4, <3>2, <4>3, BudgetExhaustedStep, StreamEndsStep, GateAnswersStep
           DEF StreamSettles, GateSettles
      <4>4. CASE (\E e \in live[s] : ToolSettles(s, e)) \/ DeadlineFires(s)
        BY <2>1, <2>4, <3>2, <4>4, ToolSettlesStep, DeadlineFiresStep
      <4>5. CASE Abort(s)
        BY <2>1, <2>6, <4>5, AbortCuts
      <4> QED BY <2>7, <4>1, <4>2, <4>3, <4>4, <4>5 DEF Runtime
    <3> QED BY <3>1, <3>2
  <2>8. ASSUME (\E seeded \in BOOLEAN : Create(seeded)) \/ UNCHANGED vars
        PROVE  Answers(r)
    BY <2>2, <2>8 DEF Create, vars
  <2>9. CASE Stop \/ Dispose
    BY <2>1, <2>6, <2>9, StopCuts, DisposeCuts
  <2> QED BY <2>7, <2>8, <2>9 DEF Next
<1> QED BY <1>1, SpecInv, PTL DEF Spec, AbortIsAnswered
=============================================================================
