----------------------- MODULE RuntimeLifecycleProofs -----------------------
(* Safety of the runtime, for any number of runs and retries.  The settlement  *)
(* of a run is proved for a host that awaits a startSession() before it calls  *)
(* the next one: ~Overlapping.  The last part shows that for such a host the   *)
(* runtime implements RunContract.                                             *)
EXTENDS RuntimeLifecycle, TLAPS

\* The machine's states of a run that is not settled.
Active == {"PLANNING", "EXECUTING", "RUNNING_TOOL"}

\* The run in flight is the one that the fields of the runtime belong to, and
\* it is settled exactly when its engine is told to stop.
FlightHolds ==
    \A r \in Runs :
        /\ InFlight(r) => /\ taskId = r /\ controller = r
                          /\ runSettled <=> r \in aborted
                          /\ r \in cancelled => runSettled
        /\ run[r].pc = "idle" => verdict[r] = "none" /\ r \notin aborted \cup cancelled
        /\ run[r].pc = "ended" => verdict[r] # "none"
        /\ run[r].pc = "looping" => run[r].signal = r

\* What the fields of the runtime say of the run they belong to.
FieldsHold ==
    /\ source = taskId
    /\ controller # None => InFlight(controller)
    /\ timer # None => InFlight(timer)
    /\ taskId # None => /\ run[taskId].pc # "idle"
                        /\ runSettled <=> verdict[taskId] # "none"
                        /\ ~InFlight(taskId) => runSettled
                        /\ ~runSettled => machine \in Active

Inv == TypeOK /\ FlightHolds /\ FieldsHold /\ MachineShowsVerdict

-----------------------------------------------------------------------------
(* Types.                                                                      *)

Repair == [stage : {"none", "replaying", "gating", "installing"},
           failure : {"none"} \cup Failures]

LEMMA LocalTypes ==
    ASSUME TypeOK, NEW r \in Runs
    PROVE  /\ run[r] \in Local /\ repair[r] \in Repair
           /\ run[r].attempt \in 0..MaxRetries
           /\ Blank \in Local /\ NoRepair \in Repair
<1>1. 0 \in 0..MaxRetries
  BY RuntimeConstants
<1>2. Blank \in Local /\ NoRepair \in Repair
  BY <1>1 DEF Blank, NoRepair, Local, Repair
<1>3. run[r] \in Local /\ repair[r] \in Repair
  BY DEF TypeOK, Repair
<1> QED BY <1>2, <1>3 DEF Local

LEMMA RunPut ==
    ASSUME TypeOK, NEW r \in Runs, NEW x \in Local, run' = [run EXCEPT ![r] = x]
    PROVE  /\ run' \in [Runs -> Local] /\ run'[r] = x
           /\ \A s \in Runs : s # r => run'[s] = run[s]
BY DEF TypeOK

\* The locals of a run that is about to run an attempt.
LEMMA AttemptHolds ==
    ASSUME TypeOK, NEW r \in Runs, NEW dead \in BOOLEAN
    PROVE  /\ Attempt(r, dead) \in Local
           /\ Attempt(r, dead).pc \in {"looping", "returned"}
           /\ Attempt(r, dead).pc = "looping" => Attempt(r, dead).signal = controller
<1>1. run[r] \in Local /\ controller \in Runs \cup {None}
  BY DEF TypeOK
<1>2. PICK x : x = [run[r] EXCEPT !.pc = "returned", !.outcome = "aborted"]
  OBVIOUS
<1>3. PICK y : y = [run[r] EXCEPT !.pc = "returned", !.outcome = "permanent"]
  OBVIOUS
<1>4. PICK z : z = [run[r] EXCEPT !.pc = "looping", !.outcome = "none", !.tool = FALSE,
                                 !.signal = controller]
  OBVIOUS
<1>5. x \in Local /\ x.pc = "returned"
  BY <1>1, <1>2 DEF Local, Outcomes
<1>6. y \in Local /\ y.pc = "returned"
  BY <1>1, <1>3 DEF Local, Outcomes
<1>7. z \in Local /\ z.pc = "looping" /\ z.signal = controller
  BY <1>1, <1>4 DEF Local
<1>8. Attempt(r, dead) \in {x, y, z}
  BY <1>2, <1>3, <1>4 DEF Attempt
<1> QED BY <1>5, <1>6, <1>7, <1>8

-----------------------------------------------------------------------------
(* What a step amounts to.                                                     *)

\* Runs stay in flight or out of it, and an attempt that starts gets the
\* runtime's controller.
Keeps ==
    /\ run' \in [Runs -> Local]
    /\ \A r \in Runs :
         /\ run'[r].pc = "idle" <=> run[r].pc = "idle"
         /\ run'[r].pc = "ended" <=> run[r].pc = "ended"
         /\ run'[r].pc = "looping" =>
              \/ run[r].pc = "looping" /\ run'[r].signal = run[r].signal
              \/ run[r].pc # "looping" /\ run'[r].signal = controller
    /\ repair' \in [Runs -> Repair]
    /\ status' \in {"idle", "running", "failed"} /\ closed' \in BOOLEAN
    /\ UNCHANGED <<controller, source, taskId, timed>>

\* The machine moves on, if it moves, among the states of a run at work.
Drifts == machine' = machine \/ (machine \in Active /\ machine' \in Active)

\* A run works, or a repair does.
Works == Keeps /\ Drifts /\ UNCHANGED <<timer, disposed, runSettled, verdict, signals>>

\* The same without a run being touched, or with run r only.
LEMMA RunKeeps ==
    ASSUME TypeOK, NEW r \in Runs, NEW x \in Local, run' = [run EXCEPT ![r] = x],
           InFlight(r), x.pc \notin {"idle", "ended"},
           x.pc = "looping" => \/ run[r].pc = "looping" /\ x.signal = run[r].signal
                               \/ run[r].pc # "looping" /\ x.signal = controller,
           repair' \in [Runs -> Repair], status' \in {"idle", "running", "failed"},
           closed' \in BOOLEAN, UNCHANGED <<controller, source, taskId, timed>>
    PROVE  Keeps
<1>1. /\ run' \in [Runs -> Local] /\ run'[r] = x
      /\ \A s \in Runs : s # r => run'[s] = run[s]
  BY RunPut
<1>2. \A s \in Runs :
         /\ run'[s].pc = "idle" <=> run[s].pc = "idle"
         /\ run'[s].pc = "ended" <=> run[s].pc = "ended"
         /\ run'[s].pc = "looping" =>
              \/ run[s].pc = "looping" /\ run'[s].signal = run[s].signal
              \/ run[s].pc # "looping" /\ run'[s].signal = controller
  BY <1>1 DEF InFlight
<1> QED BY <1>1, <1>2 DEF Keeps

LEMMA StaticKeeps ==
    ASSUME TypeOK, run' = run, repair' \in [Runs -> Repair],
           status' \in {"idle", "running", "failed"},
           closed' \in BOOLEAN, UNCHANGED <<controller, source, taskId, timed>>
    PROVE  Keeps
BY DEF Keeps, TypeOK

LEMMA TypeFacts ==
    ASSUME TypeOK
    PROVE  /\ run \in [Runs -> Local] /\ repair \in [Runs -> Repair]
           /\ status \in {"idle", "running", "failed"} /\ closed \in BOOLEAN
           /\ machine \in AgentStates
           /\ controller \in Runs \cup {None} /\ source \in Runs \cup {None}
           /\ timer \in Runs \cup {None} /\ taskId \in Runs \cup {None}
           /\ aborted \in SUBSET Runs /\ cancelled \in SUBSET Runs
           /\ verdict \in [Runs -> Verdicts]
BY DEF TypeOK, Repair

\* A transition within the states of a run at work.
LEMMA WorkDrifts ==
    ASSUME TypeOK, NEW from \in SUBSET Active, NEW to \in Active, Transition(from, to)
    PROVE  Drifts
BY DEF Transition, Drifts

LEMMA BeginWorks ==
    ASSUME TypeOK, NEW r \in Runs, Begin(r)
    PROVE  Works
<1>1. PICK x : x = Attempt(r, FALSE)
  OBVIOUS
<1>2. /\ x \in Local /\ x.pc \in {"looping", "returned"}
      /\ x.pc = "looping" => x.signal = controller
  BY <1>1, AttemptHolds
<1>3. /\ run' = [run EXCEPT ![r] = x] /\ InFlight(r) /\ run[r].pc # "looping"
      /\ repair' = repair /\ status' = "running" /\ closed' = FALSE
      /\ UNCHANGED <<controller, source, taskId, timed>>
  BY <1>1 DEF Begin, InFlight
<1>4. Keeps
  BY <1>2, <1>3, RunKeeps, TypeFacts
<1>5. Drifts
  <2>1. {"PLANNING"} \in SUBSET Active /\ "EXECUTING" \in Active
    BY DEF Active
  <2> QED BY <2>1, WorkDrifts DEF Begin
<1> QED BY <1>4, <1>5 DEF Works, Begin, signals

LEMMA DelayEndsWorks ==
    ASSUME TypeOK, NEW r \in Runs, DelayEnds(r)
    PROVE  Works
<1>1. PICK x : x = Attempt(r, closed)
  OBVIOUS
<1>2. /\ x \in Local /\ x.pc \in {"looping", "returned"}
      /\ x.pc = "looping" => x.signal = controller
  BY <1>1, AttemptHolds, TypeFacts
<1>3. /\ run' = [run EXCEPT ![r] = x] /\ InFlight(r) /\ run[r].pc # "looping"
      /\ UNCHANGED <<fields, settlement, signals, repair>>
  BY <1>1 DEF DelayEnds, InFlight
<1>4. Keeps
  BY <1>2, <1>3, RunKeeps, TypeFacts DEF fields, settlement
<1> QED BY <1>3, <1>4 DEF Works, Drifts, fields, settlement, signals

LEMMA RetriesWorks ==
    ASSUME TypeOK, NEW r \in Runs, Retries(r)
    PROVE  Works
<1>1. run[r] \in Local /\ run[r].attempt \in 0..MaxRetries
  BY LocalTypes
<1>2. run[r].pc = "returned" /\ run[r].attempt < MaxRetries
      /\ UNCHANGED <<fields, settlement, signals, repair>>
  BY DEF Retries, MayRetry
<1>3. PICK x : x = IF r \in cancelled THEN [run[r] EXCEPT !.outcome = "aborted"]
                   ELSE [run[r] EXCEPT !.pc = "backoff", !.attempt = run[r].attempt + 1,
                                       !.outcome = "none", !.signal = None]
  OBVIOUS
<1>4. run[r].attempt + 1 \in 0..MaxRetries
  BY <1>1, <1>2, RuntimeConstants
<1>5. x \in Local /\ x.pc \in {"returned", "backoff"}
  <2>1. CASE r \in cancelled
    BY <1>1, <1>2, <1>3, <2>1 DEF Local, Outcomes
  <2>2. CASE r \notin cancelled
    BY <1>1, <1>3, <1>4, <2>2 DEF Local
  <2> QED BY <2>1, <2>2
<1>6. run' = [run EXCEPT ![r] = x]
  BY <1>3 DEF Retries
<1>7. Keeps
  BY <1>2, <1>5, <1>6, RunKeeps, TypeFacts DEF InFlight, fields, settlement
<1> QED BY <1>2, <1>7 DEF Works, Drifts, fields, settlement, signals

LEMMA LoopReturnsWorks ==
    ASSUME TypeOK, NEW r \in Runs, NEW outcome \in Outcomes, LoopReturns(r, outcome)
    PROVE  Works
<1>1. run[r] \in Local
  BY LocalTypes
<1>2. PICK x : x = [run[r] EXCEPT !.pc = "returned", !.outcome = outcome, !.tool = FALSE]
  OBVIOUS
<1>3. x \in Local /\ x.pc = "returned"
  BY <1>1, <1>2 DEF Local
<1>4. run' = [run EXCEPT ![r] = x]
  BY <1>2, Zenon DEF LoopReturns
<1>5. InFlight(r) /\ UNCHANGED <<fields, settlement, signals, repair>>
  BY DEF LoopReturns, InFlight
<1>6. Keeps
  BY <1>3, <1>4, <1>5, RunKeeps, TypeFacts DEF fields, settlement
<1> QED BY <1>6, <1>5, <1>5 DEF Works, Drifts, fields, settlement, signals

\* Between the events of a tool.
LEMMA ToolKeeps ==
    ASSUME TypeOK, NEW r \in Runs, NEW tool \in BOOLEAN, run[r].pc = "looping",
           run' = [run EXCEPT ![r].tool = tool], repair' \in [Runs -> Repair],
           UNCHANGED <<fields, status>>
    PROVE  Keeps
<1>1. run[r] \in Local
  BY LocalTypes
<1>2. PICK x : x = [run[r] EXCEPT !.tool = tool]
  OBVIOUS
<1>3. x \in Local /\ x.pc = "looping" /\ x.signal = run[r].signal
  BY <1>1, <1>2 DEF Local
<1>4. run' = [run EXCEPT ![r] = x] /\ InFlight(r)
  BY <1>2, TypeFacts DEF InFlight
<1> QED BY <1>3, <1>4, RunKeeps, TypeFacts DEF fields

LEMMA EngineWorks ==
    ASSUME TypeOK, NEW r \in Runs,
           Streams(r) \/ ToolStarts(r) \/ ToolCompletes(r) \/ ToolDenied(r)
    PROVE  Works
<1>1. {"EXECUTING"} \in SUBSET Active /\ {"RUNNING_TOOL"} \in SUBSET Active
      /\ "EXECUTING" \in Active /\ "RUNNING_TOOL" \in Active
  BY DEF Active
<1>2. CASE Streams(r)
  <2>1. Keeps
    BY <1>2, StaticKeeps, TypeFacts DEF Streams, fields
  <2> QED BY <1>2, <2>1 DEF Streams, Works, Drifts, fields, signals
<1>3. CASE ToolStarts(r)
  <2>1. Keeps
    BY <1>3, ToolKeeps, TypeFacts DEF ToolStarts
  <2>2. Drifts
    BY <1>1, <1>3, WorkDrifts DEF ToolStarts
  <2> QED BY <1>3, <2>1, <2>2 DEF ToolStarts, Works, fields, signals
<1>4. CASE ToolCompletes(r)
  <2>1. Keeps
    BY <1>4, ToolKeeps, TypeFacts DEF ToolCompletes, ToolOver
  <2>2. Drifts
    BY <1>1, <1>4, WorkDrifts DEF ToolCompletes
  <2> QED BY <1>4, <2>1, <2>2 DEF ToolCompletes, Works, fields, signals
<1>5. CASE ToolDenied(r)
  <2>1. Keeps
    BY <1>5, ToolKeeps, TypeFacts DEF ToolDenied, ToolOver, settlement
  <2> QED BY <1>5, <2>1 DEF ToolDenied, Works, Drifts, fields, settlement, signals
<1> QED BY <1>2, <1>3, <1>4, <1>5

LEMMA RepairsWork ==
    ASSUME TypeOK, NEW r \in Runs, Repairs(r)
    PROVE  Works
<1>1. {"RUNNING_TOOL"} \in SUBSET Active /\ "EXECUTING" \in Active
  BY DEF Active
<1>2. ASSUME NEW x \in Repair, repair' = [repair EXCEPT ![r] = x]
      PROVE  repair' \in [Runs -> Repair]
  BY <1>2, TypeFacts
<1>3. ASSUME NEW failure \in Failures, ToolFails(r, failure)
      PROVE  Works
  <2>1. [stage |-> "replaying", failure |-> failure] \in Repair
    BY DEF Repair
  <2>2. repair' \in [Runs -> Repair]
    BY <1>2, <1>3, <2>1 DEF ToolFails
  <2>3. Keeps
    BY <1>3, <2>2, ToolKeeps, TypeFacts DEF ToolFails, ToolOver
  <2>4. Drifts
    BY <1>1, <1>3, WorkDrifts DEF ToolFails
  <2> QED BY <1>3, <2>3, <2>4 DEF ToolFails, Works, fields, signals
<1>4. ASSUME NEW recovered \in BOOLEAN, RepairEnds(r, recovered)
      PROVE  Works
  <2>1. repair' \in [Runs -> Repair]
    BY <1>2, <1>4, LocalTypes DEF RepairEnds
  <2>2. Keeps
    BY <1>4, <2>1, StaticKeeps, TypeFacts DEF RepairEnds, fields
  <2>3. Drifts
    BY <1>1, <1>4, WorkDrifts DEF RepairEnds, Drifts
  <2> QED BY <1>4, <2>2, <2>3 DEF RepairEnds, Works, fields, signals
<1>5. CASE RepairTransforms(r)
  <2>1. [stage |-> "gating", failure |-> "missing_module"] \in Repair
    BY DEF Repair, Failures
  <2>2. repair' \in [Runs -> Repair]
    BY <1>2, <1>5, <2>1 DEF RepairTransforms
  <2>3. Keeps
    BY <1>5, <2>2, StaticKeeps, TypeFacts DEF RepairTransforms, fields, settlement
  <2> QED BY <1>5, <2>3 DEF RepairTransforms, Works, Drifts, fields, settlement, signals
<1>6. ASSUME NEW approved \in BOOLEAN, RepairGated(r, approved)
      PROVE  Works
  <2>1. repair[r] \in Repair /\ NoRepair \in Repair
    BY LocalTypes
  <2>2. PICK x : x = IF approved THEN [repair[r] EXCEPT !.stage = "installing"]
                     ELSE NoRepair
    OBVIOUS
  <2>3. x \in Repair
    BY <2>1, <2>2 DEF Repair
  <2>4. repair' = [repair EXCEPT ![r] = x]
    BY <1>6, <2>2 DEF RepairGated
  <2>5. repair' \in [Runs -> Repair]
    BY <1>2, <2>3, <2>4
  <2>6. Keeps
    BY <1>6, <2>5, StaticKeeps, TypeFacts DEF RepairGated, fields, settlement
  <2> QED BY <1>6, <2>6 DEF RepairGated, Works, Drifts, fields, settlement, signals
<1> QED BY <1>3, <1>4, <1>5, <1>6 DEF Repairs

\* What startSession() does at its start.
Starts(r) ==
    /\ run[r].pc = "idle" /\ MayStart
    /\ Overlapping \/ \A s \in Runs : ~InFlight(s)
    /\ run' \in [Runs -> Local] /\ run'[r].pc = "starting"
    /\ \A s \in Runs : s # r => run'[s] = run[s]
    /\ controller' = r /\ source' = r /\ taskId' = r /\ timer' \in {r, None}
    /\ runSettled' = FALSE
    /\ machine \in TerminalStates \cup {"CREATED"} => machine' = "PLANNING"
    /\ machine \notin TerminalStates \cup {"CREATED"} => machine' = machine
    /\ UNCHANGED <<status, verdict, closed, disposed, timed, signals, repair>>

LEMMA StartStarts ==
    ASSUME TypeOK, NEW r \in Runs, Start(r)
    PROVE  Starts(r)
<1>1. run[r] \in Local
  BY LocalTypes
<1>2. PICK x : x = [run[r] EXCEPT !.pc = "starting"]
  OBVIOUS
<1>3. x \in Local /\ x.pc = "starting"
  BY <1>1, <1>2 DEF Local
<1>4. run' = [run EXCEPT ![r] = x]
  BY <1>2, TypeFacts DEF Start
<1>5. /\ run' \in [Runs -> Local] /\ run'[r] = x
      /\ \A s \in Runs : s # r => run'[s] = run[s]
  BY <1>3, <1>4, RunPut
<1> QED BY <1>3, <1>5 DEF Start, Starts

\* The finally block of a startSession() whose run is settled.
Ends(r) ==
    /\ InFlight(r) /\ run[r].pc = "returned"
    /\ run' \in [Runs -> Local] /\ run'[r].pc = "ended"
    /\ \A s \in Runs : s # r => run'[s] = run[s]
    /\ controller' = None /\ timer' = None
    /\ runSettled' = TRUE
    /\ status' \in {"idle", "running", "failed"} /\ machine' \in AgentStates
    /\ runSettled => UNCHANGED <<machine, verdict>>
    /\ ~runSettled => \E kind \in Verdicts \ {"none"} :
         /\ Attribute(kind)
         /\ kind = "cancelled" /\ machine \in Active => machine' = "CANCELLED"
         /\ kind = "failed" /\ machine \in Active => machine' = "FAILED"
         /\ kind = "completed" /\ machine \in Active => machine' \notin {"FAILED", "CANCELLED"}
    /\ UNCHANGED <<source, taskId, closed, disposed, timed, signals, repair>>

LEMMA FinallyEnds ==
    ASSUME TypeOK, NEW r \in Runs, Finally(r)
    PROVE  /\ run' \in [Runs -> Local] /\ run'[r].pc = "ended"
           /\ \A s \in Runs : s # r => run'[s] = run[s]
           /\ controller' = None /\ timer' = None
           /\ UNCHANGED <<source, taskId, closed, disposed, timed>>
<1>1. PICK x : x = [Blank EXCEPT !.pc = "ended"]
  OBVIOUS
<1>2. x \in Local /\ x.pc = "ended"
  BY <1>1, LocalTypes DEF Local
<1>3. run' = [run EXCEPT ![r] = x]
  BY <1>1 DEF Finally
<1> QED BY <1>2, <1>3, RunPut DEF Finally

LEMMA CompletesEnds ==
    ASSUME TypeOK, NEW r \in Runs, Completes(r)
    PROVE  Ends(r)
<1>1. /\ InFlight(r) /\ run[r].pc = "returned"
      /\ Finally(r) /\ UNCHANGED <<signals, repair>>
  BY DEF Completes, InFlight
<1>2. CASE runSettled
  <2>1. UNCHANGED settlement
    BY <1>2 DEF Completes
  <2>2. runSettled' = runSettled /\ UNCHANGED <<status, machine, verdict>>
    BY <2>1 DEF settlement
  <2> QED BY <1>1, <1>2, <2>2, FinallyEnds, TypeFacts DEF Ends
<1>3. CASE ~runSettled
  <2>1. /\ runSettled' = TRUE /\ status' = "idle"
        /\ Transition({"PLANNING", "EXECUTING"}, "COMPLETED") /\ Attribute("completed")
    BY <1>3 DEF Completes
  <2>2. /\ machine' \in AgentStates
        /\ machine \in Active => machine' \notin {"FAILED", "CANCELLED"}
    BY <2>1, TypeFacts DEF Transition, Active, AgentStates, TerminalStates
  <2>3. \E kind \in Verdicts \ {"none"} :
         /\ Attribute(kind)
         /\ kind = "cancelled" /\ machine \in Active => machine' = "CANCELLED"
         /\ kind = "failed" /\ machine \in Active => machine' = "FAILED"
         /\ kind = "completed" /\ machine \in Active => machine' \notin {"FAILED", "CANCELLED"}
    <3>1. "completed" \in Verdicts \ {"none"} /\ "completed" # "failed"
          /\ "completed" # "cancelled"
      BY DEF Verdicts
    <3> QED BY <2>1, <2>2, <3>1
  <2> QED BY <1>1, <1>3, <2>1, <2>2, <2>3, FinallyEnds DEF Ends
<1> QED BY <1>2, <1>3

LEMMA FailsEnds ==
    ASSUME TypeOK, NEW r \in Runs, Fails(r)
    PROVE  Ends(r)
<1>1. /\ InFlight(r) /\ run[r].pc = "returned"
      /\ Finally(r) /\ UNCHANGED <<signals, repair>>
  BY DEF Fails, InFlight
<1>2. CASE runSettled
  <2>1. UNCHANGED settlement
    BY <1>2 DEF Fails
  <2>2. runSettled' = runSettled /\ UNCHANGED <<status, machine, verdict>>
    BY <2>1 DEF settlement
  <2> QED BY <1>1, <1>2, <2>2, FinallyEnds, TypeFacts DEF Ends
<1>3. CASE ~runSettled
  <2>1. /\ runSettled' = TRUE /\ status' = "failed" /\ Attribute("failed")
        /\ Transition(AgentStates \ (TerminalStates \cup {"CREATED"}), "FAILED")
    BY <1>3 DEF Fails
  <2>2. machine' \in AgentStates /\ (machine \in Active => machine' = "FAILED")
    BY <2>1, TypeFacts DEF Transition, Active, AgentStates, TerminalStates
  <2> QED BY <1>1, <1>3, <2>1, <2>2, FinallyEnds DEF Ends, Verdicts
<1> QED BY <1>2, <1>3

LEMMA CatchesEnds ==
    ASSUME TypeOK, NEW r \in Runs, CatchesCancellation(r)
    PROVE  Ends(r)
<1>1. /\ InFlight(r) /\ run[r].pc = "returned"
      /\ Finally(r) /\ UNCHANGED <<signals, repair>> /\ SettleCancelled
  BY DEF CatchesCancellation, InFlight
<1>2. CASE runSettled
  <2>1. runSettled' = runSettled /\ UNCHANGED <<status, machine, verdict>>
    BY <1>1, <1>2 DEF SettleCancelled, settlement
  <2> QED BY <1>1, <1>2, <2>1, FinallyEnds, TypeFacts DEF Ends
<1>3. CASE ~runSettled
  <2>1. /\ runSettled' = TRUE /\ status' = "idle" /\ Attribute("cancelled")
        /\ machine' = IF machine \in TerminalStates THEN machine ELSE "CANCELLED"
    BY <1>1, <1>3 DEF SettleCancelled
  <2>2. machine' \in AgentStates /\ (machine \in Active => machine' = "CANCELLED")
    BY <2>1, TypeFacts DEF Active, AgentStates, TerminalStates
  <2> QED BY <1>1, <1>3, <2>1, <2>2, FinallyEnds DEF Ends, Verdicts
<1> QED BY <1>2, <1>3

\* The host or the timeout cancels: the run in flight is settled and its engine
\* told, or there is none, or it was settled before.
Cancels ==
    /\ Keeps
    /\ timer' \in {None, timer} /\ disposed' \in BOOLEAN
    /\ aborted' = aborted \/ aborted' = aborted \cup ({controller} \ {None})
    /\ cancelled' = cancelled \/ (source # None /\ cancelled' = cancelled \cup {source})
    /\ \/ SettleCancelled /\ aborted' = aborted \cup ({controller} \ {None})
       \/ /\ UNCHANGED settlement
          /\ runSettled \/ controller = None \/ source = None \/ source \in cancelled

\* A backoff is cut short.
LEMMA CutKeeps ==
    ASSUME TypeOK,
           run' = [r \in Runs |->
                     IF r = source /\ run[r].pc = "backoff"
                     THEN [run[r] EXCEPT !.pc = "returned", !.outcome = "aborted"]
                     ELSE run[r]],
           status' \in {"idle", "running", "failed"}, closed' \in BOOLEAN,
           UNCHANGED <<controller, source, taskId, timed, repair>>
    PROVE  Keeps
<1>1. ASSUME NEW r \in Runs
      PROVE  /\ run'[r] \in Local
             /\ run'[r].pc = "idle" <=> run[r].pc = "idle"
             /\ run'[r].pc = "ended" <=> run[r].pc = "ended"
             /\ run'[r].pc = "looping" =>
                  run[r].pc = "looping" /\ run'[r].signal = run[r].signal
  <2>1. run[r] \in Local
    BY LocalTypes
  <2>2. PICK x : x = [run[r] EXCEPT !.pc = "returned", !.outcome = "aborted"]
    OBVIOUS
  <2>3. x \in Local /\ x.pc = "returned"
    BY <2>1, <2>2 DEF Local, Outcomes
  <2>4. run'[r] = run[r] \/ (run'[r] = x /\ run[r].pc = "backoff")
    BY <2>2
  <2> QED BY <2>1, <2>3, <2>4
<1>2. run' \in [Runs -> Local]
  BY <1>1
<1> QED BY <1>1, <1>2, TypeFacts DEF Keeps

LEMMA SettledStatus ==
    ASSUME TypeOK, SettleCancelled \/ UNCHANGED settlement
    PROVE  status' \in {"idle", "running", "failed"}
BY TypeFacts DEF SettleCancelled, settlement

LEMMA SourceCancels ==
    ASSUME TypeOK, Cancellable, CancelSource, timer' \in {None, timer},
           UNCHANGED <<controller, source, taskId, timed, closed, disposed, repair>>
    PROVE  Cancels
<1>1. SettleCancelled \/ UNCHANGED settlement
  BY DEF CancelSource
<1>2. Keeps
  BY <1>1, SettledStatus, CutKeeps, TypeFacts DEF CancelSource
<1>3. source # None /\ cancelled' = cancelled \cup {source} /\ disposed' \in BOOLEAN
  BY DEF Cancellable, CancelSource, TypeOK
<1>4. CASE ~runSettled /\ controller # None
  <2>1. SettleCancelled /\ aborted' = aborted \cup {controller}
    BY <1>4 DEF CancelSource
  <2>2. {controller} \ {None} = {controller}
    BY <1>4
  <2> QED BY <1>2, <1>3, <2>1, <2>2 DEF Cancels
<1>5. CASE ~(~runSettled /\ controller # None)
  <2>1. UNCHANGED settlement /\ aborted' = aborted
    BY <1>5 DEF CancelSource
  <2> QED BY <1>2, <1>3, <1>5, <2>1 DEF Cancels
<1> QED BY <1>4, <1>5

LEMMA TimeoutCancels ==
    ASSUME TypeOK, TimeoutFires
    PROVE  Cancels
<1>1. timer' = None /\ UNCHANGED <<controller, source, taskId, closed, disposed, timed, repair>>
  BY DEF TimeoutFires
<1>2. CASE Cancellable
  BY <1>1, <1>2, SourceCancels DEF TimeoutFires
<1>3. CASE ~Cancellable
  <2>1. UNCHANGED <<run, settlement, signals>>
    BY <1>3 DEF TimeoutFires
  <2>2. Keeps
    BY <1>1, <2>1, StaticKeeps, TypeFacts DEF settlement
  <2>3. disposed' \in BOOLEAN /\ UNCHANGED <<aborted, cancelled>>
    BY <1>1, <2>1 DEF signals, TypeOK
  <2> QED BY <1>1, <1>3, <2>1, <2>2, <2>3 DEF Cancels, Cancellable
<1> QED BY <1>2, <1>3

LEMMA AbortCancels ==
    ASSUME TypeOK, Abort
    PROVE  Cancels
<1>1. UNCHANGED <<controller, source, timer, taskId, closed, disposed, timed, repair>>
  BY DEF Abort, fields
<1>2. CASE Cancellable
  BY <1>1, <1>2, SourceCancels DEF Abort
<1>3. CASE ~Cancellable
  <2>1. /\ aborted' = aborted \cup ({controller} \ {None}) /\ SettleCancelled
        /\ UNCHANGED <<run, cancelled>>
    BY <1>3 DEF Abort
  <2>2. Keeps
    BY <1>1, <2>1, StaticKeeps, SettledStatus, TypeFacts
  <2>3. disposed' \in BOOLEAN
    BY <1>1 DEF TypeOK
  <2> QED BY <1>1, <2>1, <2>2, <2>3 DEF Cancels
<1> QED BY <1>2, <1>3

LEMMA StopCancels ==
    ASSUME TypeOK, StopSession
    PROVE  Cancels
<1>1. /\ UNCHANGED <<run, controller, source, timer, taskId, closed, disposed, timed,
                     cancelled, repair>>
      /\ aborted' = aborted \cup ({controller} \ {None}) /\ SettleCancelled
  BY DEF StopSession, fields
<1>2. Keeps
  BY <1>1, StaticKeeps, SettledStatus, TypeFacts
<1>3. disposed' \in BOOLEAN
  BY <1>1 DEF TypeOK
<1> QED BY <1>1, <1>2, <1>3 DEF Cancels

LEMMA DisposeCancels ==
    ASSUME TypeOK, Dispose
    PROVE  Cancels
<1>1. /\ disposed' = TRUE /\ closed' = TRUE /\ timer' = None
      /\ aborted' = aborted \cup ({controller} \ {None})
      /\ UNCHANGED <<controller, source, taskId, timed, repair>>
  BY DEF Dispose
<1>2. CASE Cancellable
  <2>1. cancelled' = cancelled \cup {source} /\ source # None
    BY <1>2 DEF Dispose, Cancellable
  <2>2. SettleCancelled \/ (controller = None /\ UNCHANGED settlement)
    BY <1>2 DEF Dispose
  <2>3. Keeps
    BY <1>1, <1>2, <2>2, CutKeeps, SettledStatus DEF Dispose
  <2> QED BY <1>1, <2>1, <2>2, <2>3 DEF Cancels
<1>3. CASE ~Cancellable
  <2>1. UNCHANGED <<run, settlement, cancelled>>
    BY <1>3 DEF Dispose
  <2>2. Keeps
    BY <1>1, <2>1, StaticKeeps, TypeFacts DEF settlement
  <2> QED BY <1>1, <1>3, <2>1, <2>2 DEF Cancels, Cancellable
<1> QED BY <1>2, <1>3

Steps ==
    \/ Works \/ Cancels
    \/ \E r \in Runs : Starts(r) \/ Ends(r)
    \/ UNCHANGED vars

LEMMA NextSteps ==
    ASSUME TypeOK, [Next]_vars
    PROVE  Steps
<1>1. ASSUME NEW r \in Runs, Unwinds(r) \/ EngineReturns(r)
      PROVE  Steps
  BY <1>1, BeginWorks, DelayEndsWorks, RetriesWorks, LoopReturnsWorks, CompletesEnds,
     CatchesEnds, FailsEnds DEF Unwinds, EngineUnwinds, EngineReturns, Steps
<1>2. ASSUME NEW r \in Runs,
             \/ Start(r) \/ Streams(r) \/ ToolStarts(r) \/ ToolCompletes(r)
             \/ ToolDenied(r) \/ Repairs(r)
      PROVE  Steps
  BY <1>2, StartStarts, EngineWorks, RepairsWork DEF Steps
<1>3. ASSUME TimeoutFires \/ Abort \/ StopSession \/ Dispose
      PROVE  Steps
  BY <1>3, TimeoutCancels, AbortCancels, StopCancels, DisposeCancels DEF Steps
<1>4. CASE UNCHANGED vars
  BY <1>4 DEF Steps
<1> QED BY <1>1, <1>2, <1>3, <1>4 DEF Next

-----------------------------------------------------------------------------
(* Every step keeps the types, of overlapping runs too.                        *)

LEMMA TypeStep ==
    ASSUME TypeOK, Steps
    PROVE  TypeOK'
<1>1. CASE Works
  <2>1. machine' \in AgentStates
    BY <1>1, TypeFacts DEF Works, Drifts, Active, AgentStates
  <2> QED BY <1>1, <2>1, TypeFacts DEF Works, Keeps, TypeOK, Repair, signals
<1>2. CASE Cancels
  <2>1. /\ runSettled' \in BOOLEAN /\ machine' \in AgentStates
        /\ verdict' \in [Runs -> Verdicts]
    <3>1. CASE SettleCancelled
      BY <3>1, TypeFacts DEF SettleCancelled, settlement, Attribute, Verdicts,
         AgentStates, TerminalStates, TypeOK
    <3>2. CASE UNCHANGED settlement
      BY <3>2 DEF settlement, TypeOK
    <3> QED BY <1>2, <3>1, <3>2 DEF Cancels
  <2>2. /\ aborted' \in SUBSET Runs /\ cancelled' \in SUBSET Runs
        /\ timer' \in Runs \cup {None}
    BY <1>2, TypeFacts DEF Cancels
  <2> QED BY <1>2, <2>1, <2>2, TypeFacts DEF Cancels, Keeps, TypeOK, Repair
<1>3. ASSUME NEW r \in Runs, Starts(r)
      PROVE  TypeOK'
  <2>1. machine' \in AgentStates
    BY <1>3, TypeFacts DEF Starts, AgentStates
  <2> QED BY <1>3, <2>1 DEF Starts, TypeOK, signals
<1>4. ASSUME NEW r \in Runs, Ends(r)
      PROVE  TypeOK'
  <2>1. verdict' \in [Runs -> Verdicts]
    BY <1>4, TypeFacts DEF Ends, Attribute
  <2> QED BY <1>4, <2>1 DEF Ends, TypeOK, signals
<1>5. ASSUME UNCHANGED vars
      PROVE  TypeOK'
  BY <1>5 DEF vars, fields, settlement, signals, TypeOK
<1> QED BY <1>1, <1>2, <1>3, <1>4, <1>5 DEF Steps

-----------------------------------------------------------------------------
(* The settlement of a run, for a host that never overlaps two runs.           *)

LEMMA WorksInv ==
    ASSUME Inv, Works
    PROVE  FlightHolds' /\ FieldsHold' /\ MachineShowsVerdict'
<1>1. /\ UNCHANGED <<controller, source, taskId, timer, runSettled, verdict>>
      /\ aborted' = aborted /\ cancelled' = cancelled
  BY DEF Works, Keeps, signals
<1>2. \A r \in Runs :
         /\ run'[r].pc = "idle" <=> run[r].pc = "idle"
         /\ run'[r].pc = "ended" <=> run[r].pc = "ended"
         /\ run'[r].pc = "looping" =>
              run'[r].signal = run[r].signal \/ run'[r].signal = controller
         /\ InFlight(r)' <=> InFlight(r)
  BY DEF Works, Keeps, InFlight
<1>3. /\ controller \in Runs \cup {None} /\ timer \in Runs \cup {None}
      /\ taskId \in Runs \cup {None}
  BY TypeFacts DEF Inv
<1>4. FlightHolds'
  <2>1. \A r \in Runs : run'[r].pc = "looping" => run'[r].signal = r
    <3> SUFFICES ASSUME NEW r \in Runs, run'[r].pc = "looping"
                 PROVE  run'[r].signal = r
      OBVIOUS
    <3>1. \/ run[r].pc = "looping" /\ run'[r].signal = run[r].signal
          \/ run[r].pc # "looping" /\ run'[r].signal = controller
      BY DEF Works, Keeps
    <3>2. InFlight(r)
      BY <1>2 DEF InFlight
    <3> QED BY <3>1, <3>2 DEF Inv, FlightHolds
  <2> QED BY <1>1, <1>2, <2>1 DEF Inv, FlightHolds
<1>5. FieldsHold'
  BY <1>1, <1>2, <1>3 DEF Works, Drifts, Inv, FieldsHold
<1>6. MachineShowsVerdict'
  BY <1>1 DEF Works, Drifts, Active, Inv, MachineShowsVerdict
<1> QED BY <1>4, <1>5, <1>6

LEMMA StartsInv ==
    ASSUME Inv, ~Overlapping, NEW r \in Runs, Starts(r)
    PROVE  FlightHolds' /\ FieldsHold' /\ MachineShowsVerdict'
<1>1. /\ run[r].pc = "idle" /\ run'[r].pc = "starting"
      /\ \A s \in Runs : ~InFlight(s)
      /\ \A s \in Runs : s # r => run'[s] = run[s]
      /\ controller' = r /\ source' = r /\ taskId' = r /\ timer' \in {r, None}
      /\ runSettled' = FALSE /\ verdict' = verdict
      /\ aborted' = aborted /\ cancelled' = cancelled
  BY DEF Starts, signals
<1>2. r # None
  BY RuntimeConstants
<1>3. verdict[r] = "none" /\ r \notin aborted /\ r \notin cancelled
  BY <1>1 DEF Inv, FlightHolds
<1>4. InFlight(r)' /\ \A s \in Runs : s # r => ~InFlight(s)'
  BY <1>1 DEF InFlight
<1>5. FlightHolds'
  BY <1>1, <1>3, <1>4 DEF Inv, FlightHolds
<1>6. machine' \in Active
  BY TypeFacts DEF Starts, Inv, Active, AgentStates
<1>7. FieldsHold'
  BY <1>1, <1>2, <1>3, <1>4, <1>6 DEF FieldsHold
<1>8. MachineShowsVerdict'
  BY <1>1 DEF MachineShowsVerdict
<1> QED BY <1>5, <1>7, <1>8

LEMMA EndsInv ==
    ASSUME Inv, NEW r \in Runs, Ends(r)
    PROVE  FlightHolds' /\ FieldsHold' /\ MachineShowsVerdict'
<1>1. /\ InFlight(r) /\ run'[r].pc = "ended"
      /\ \A s \in Runs : s # r => run'[s] = run[s]
      /\ controller' = None /\ timer' = None /\ runSettled' = TRUE
      /\ source' = source /\ taskId' = taskId
      /\ aborted' = aborted /\ cancelled' = cancelled
  BY DEF Ends, signals
<1>2. taskId = r /\ source = r /\ r # None
  BY <1>1, RuntimeConstants DEF Inv, FlightHolds, FieldsHold
<1>3. \A s \in Runs : s # r => ~InFlight(s)
  BY <1>2 DEF Inv, FlightHolds
<1>4. \A s \in Runs : ~InFlight(s)'
  BY <1>1, <1>3 DEF InFlight
<1>5. verdict'[r] # "none" /\ \A s \in Runs : s # r => verdict'[s] = verdict[s]
  <2>1. CASE runSettled
    BY <1>2, <2>1 DEF Ends, Inv, FieldsHold
  <2>2. CASE ~runSettled
    BY <1>2, <2>2, TypeFacts DEF Ends, Inv, Attribute
  <2> QED BY <2>1, <2>2
<1>6. FlightHolds'
  BY <1>1, <1>4, <1>5 DEF Inv, FlightHolds, InFlight
<1>7. FieldsHold'
  BY <1>1, <1>2, <1>4, <1>5 DEF Inv, FieldsHold
<1>8. MachineShowsVerdict'
  <2>1. CASE runSettled
    BY <1>1, <2>1 DEF Ends, Inv, MachineShowsVerdict
  <2>2. CASE ~runSettled
    <3>1. machine \in Active
      BY <1>2, <2>2 DEF Inv, FieldsHold
    <3>2. PICK kind \in Verdicts \ {"none"} :
             /\ Attribute(kind)
             /\ kind = "cancelled" => machine' = "CANCELLED"
             /\ kind = "failed" => machine' = "FAILED"
             /\ kind = "completed" => machine' \notin {"FAILED", "CANCELLED"}
      BY <2>2, <3>1 DEF Ends
    <3>3. verdict'[taskId'] = kind
      BY <1>1, <1>2, <3>2 DEF Attribute
    <3> QED BY <3>2, <3>3 DEF MachineShowsVerdict
  <2> QED BY <2>1, <2>2
<1> QED BY <1>6, <1>7, <1>8

LEMMA CancelsInv ==
    ASSUME Inv, Cancels
    PROVE  FlightHolds' /\ FieldsHold' /\ MachineShowsVerdict'
<1>1. /\ UNCHANGED <<controller, source, taskId>> /\ timer' \in {None, timer}
      /\ aborted' = aborted \/ aborted' = aborted \cup ({controller} \ {None})
      /\ cancelled' = cancelled \/ (source # None /\ cancelled' = cancelled \cup {source})
  BY DEF Cancels, Keeps
<1>2. \A r \in Runs :
         /\ run'[r].pc = "idle" <=> run[r].pc = "idle"
         /\ run'[r].pc = "ended" <=> run[r].pc = "ended"
         /\ InFlight(r)' <=> InFlight(r)
  BY DEF Cancels, Keeps, InFlight
<1>3. /\ controller \in Runs \cup {None} /\ timer \in Runs \cup {None}
      /\ taskId \in Runs \cup {None} /\ None \notin Runs
      /\ verdict \in [Runs -> Verdicts]
  BY TypeFacts, RuntimeConstants DEF Inv
<1>4. \A r \in Runs : run'[r].pc = "looping" => run'[r].signal = r
  <2> SUFFICES ASSUME NEW r \in Runs, run'[r].pc = "looping"
               PROVE  run'[r].signal = r
    OBVIOUS
  <2>1. \/ run[r].pc = "looping" /\ run'[r].signal = run[r].signal
        \/ run[r].pc # "looping" /\ run'[r].signal = controller
    BY DEF Cancels, Keeps
  <2>2. InFlight(r)
    BY <1>2 DEF InFlight
  <2> QED BY <2>1, <2>2 DEF Inv, FlightHolds
<1>5. \A r \in Runs : run[r].pc = "idle" => r \notin aborted' \cup cancelled'
  <2> SUFFICES ASSUME NEW r \in Runs, run[r].pc = "idle"
               PROVE  r \notin aborted' \cup cancelled'
    OBVIOUS
  <2>1. r \notin aborted \cup cancelled /\ ~InFlight(r)
    BY DEF Inv, FlightHolds, InFlight
  <2>2. r # controller /\ (source # None => r # source)
    BY <1>3, <2>1 DEF Inv, FieldsHold
  <2> QED BY <1>1, <2>1, <2>2
<1>6. \A r \in Runs : InFlight(r) => r = controller /\ r = taskId /\ r = source /\ r # None
  BY <1>3 DEF Inv, FlightHolds, FieldsHold
<1>7. CASE runSettled \/ UNCHANGED settlement
  <2>1. UNCHANGED settlement
    BY <1>7 DEF Cancels, SettleCancelled
  <2>2. runSettled' = runSettled /\ verdict' = verdict /\ machine' = machine
    BY <2>1 DEF settlement
  <2>3. \A r \in Runs : InFlight(r) => runSettled
         \/ (SettleCancelled /\ aborted' = aborted \cup ({controller} \ {None}))
    BY <1>6 DEF Cancels, Inv, FlightHolds
  <2>4. ~runSettled /\ SettleCancelled => FALSE
    BY <2>1, <2>2 DEF SettleCancelled
  <2>5. ASSUME NEW r \in Runs, InFlight(r)
        PROVE  runSettled /\ r \in aborted'
    <3>1. runSettled
      BY <2>3, <2>4, <2>5
    <3>2. r \in aborted
      BY <2>5, <3>1 DEF Inv, FlightHolds
    <3> QED BY <1>1, <3>1, <3>2
  <2>6. FlightHolds'
    BY <1>1, <1>2, <1>4, <1>5, <2>2, <2>5 DEF Inv, FlightHolds
  <2>7. FieldsHold'
    BY <1>1, <1>2, <1>3, <2>2 DEF Inv, FieldsHold
  <2>8. MachineShowsVerdict'
    BY <1>1, <2>2 DEF Inv, MachineShowsVerdict
  <2> QED BY <2>6, <2>7, <2>8
<1>8. CASE ~(runSettled \/ UNCHANGED settlement)
  <2>1. SettleCancelled /\ aborted' = aborted \cup ({controller} \ {None}) /\ ~runSettled
    BY <1>8 DEF Cancels
  <2>2. /\ runSettled' = TRUE /\ Attribute("cancelled")
        /\ machine' = IF machine \in TerminalStates THEN machine ELSE "CANCELLED"
    BY <2>1 DEF SettleCancelled
  <2>3. \A r \in Runs : verdict'[r] = IF r = taskId THEN "cancelled" ELSE verdict[r]
    BY <2>2 DEF Attribute
  <2>4. taskId # None => InFlight(taskId) /\ machine' = "CANCELLED"
    BY <1>3, <2>1, <2>2 DEF Inv, FieldsHold, Active, TerminalStates
  <2>5. \A r \in Runs : InFlight(r) => r \in aborted'
    BY <1>6, <2>1
  <2>6. \A r \in Runs : ~InFlight(r) => verdict'[r] = verdict[r]
    BY <1>3, <2>3, <2>4
  <2>7. \A r \in Runs : /\ run[r].pc = "idle" => ~InFlight(r)
                        /\ run[r].pc = "ended" => ~InFlight(r)
    BY DEF InFlight
  <2>8. FlightHolds'
    BY <1>1, <1>2, <1>4, <1>5, <2>2, <2>5, <2>6, <2>7 DEF Inv, FlightHolds
  <2>9. FieldsHold'
    BY <1>1, <1>2, <1>3, <2>2, <2>3, <2>4 DEF Inv, FieldsHold
  <2>10. MachineShowsVerdict'
    BY <1>1, <1>3, <2>2, <2>3, <2>4 DEF MachineShowsVerdict
  <2> QED BY <2>8, <2>9, <2>10
<1> QED BY <1>7, <1>8

LEMMA InitInv == Init => Inv
<1> SUFFICES ASSUME Init PROVE Inv
  OBVIOUS
<1>1. 0 \in 0..MaxRetries
  BY RuntimeConstants
<1>2. Blank \in Local /\ NoRepair \in Repair /\ Blank.pc = "idle"
  BY <1>1 DEF Blank, NoRepair, Local, Repair
<1>3. TypeOK
  BY <1>2 DEF Init, TypeOK, Repair, AgentStates, Verdicts
<1>4. \A r \in Runs : run[r].pc = "idle" /\ verdict[r] = "none"
  BY <1>2 DEF Init
<1>5. FlightHolds /\ FieldsHold /\ MachineShowsVerdict
  BY <1>4 DEF Init, FlightHolds, FieldsHold, MachineShowsVerdict, InFlight
<1> QED BY <1>3, <1>5 DEF Inv

LEMMA NextInv ==
    ASSUME ~Overlapping, Inv, [Next]_vars
    PROVE  Inv'
<1>1. Steps /\ TypeOK'
  BY NextSteps, TypeStep DEF Inv
<1>2. ASSUME UNCHANGED vars
      PROVE  FlightHolds' /\ FieldsHold' /\ MachineShowsVerdict'
  BY <1>2 DEF vars, fields, settlement, signals, Inv, FlightHolds, FieldsHold,
     MachineShowsVerdict, InFlight
<1>3. ASSUME NEW r \in Runs, Starts(r) \/ Ends(r)
      PROVE  FlightHolds' /\ FieldsHold' /\ MachineShowsVerdict'
  BY <1>3, StartsInv, EndsInv
<1>4. FlightHolds' /\ FieldsHold' /\ MachineShowsVerdict'
  BY <1>1, <1>2, <1>3, WorksInv, CancelsInv DEF Steps
<1> QED BY <1>1, <1>4 DEF Inv

LEMMA SpecInv ==
    ASSUME ~Overlapping
    PROVE  Spec => []Inv
<1>1. Inv /\ [Next]_vars => Inv'
  BY NextInv
<1> QED BY <1>1, InitInv, PTL DEF Spec

\* The locals of every run and the fields of the runtime keep their types, for
\* a host that overlaps its runs too; no run retries more than MaxRetries times.
THEOREM TypeCorrect == Spec => []TypeOK
<1>1. Init => TypeOK
  BY InitInv DEF Inv
<1>2. TypeOK /\ [Next]_vars => TypeOK'
  BY NextSteps, TypeStep
<1> QED BY <1>1, <1>2, PTL DEF Spec

\* An engine that works and was not told to stop is that of the run that is not
\* settled yet, and the runtime's controller reaches it, as long as the host
\* awaits each startSession() before the next.
THEOREM Owner ==
    ASSUME ~Overlapping
    PROVE  Spec => []OneOwner
<1>1. Inv => OneOwner
  BY DEF Inv, FlightHolds, OneOwner, InFlight, SignalAborted
<1> QED BY <1>1, SpecInv, PTL

\* Each startSession() that resolved had its terminal event.
THEOREM Reported ==
    ASSUME ~Overlapping
    PROVE  Spec => []EveryEndIsReported
<1>1. Inv => EveryEndIsReported
  BY DEF Inv, FlightHolds, FieldsHold, EveryEndIsReported
<1> QED BY <1>1, SpecInv, PTL

\* The state machine agrees with the verdict, whatever tools and repairs report
\* behind it.
THEOREM MachineAgrees ==
    ASSUME ~Overlapping
    PROVE  Spec => []MachineShowsVerdict
<1>1. Inv => MachineShowsVerdict
  BY DEF Inv
<1> QED BY <1>1, SpecInv, PTL

\* A run whose cancellation was signalled is never reported completed or failed.
THEOREM CancellationWins ==
    ASSUME ~Overlapping
    PROVE  Spec => CancelWins
<1> DEFINE Overrides(r) == r \in aborted \cup cancelled /\ verdict'[r] \in {"completed", "failed"}
           Step == \A r \in Runs : Overrides(r) => verdict[r] = verdict'[r]
<1>1. Inv /\ [Next]_vars => Step
  <2> SUFFICES ASSUME Inv, [Next]_vars, NEW r \in Runs, Overrides(r)
               PROVE  verdict[r] = verdict'[r]
    OBVIOUS
  <2>1. Steps /\ verdict \in [Runs -> Verdicts]
    BY NextSteps, TypeFacts DEF Inv
  <2>2. ASSUME Cancels
        PROVE  verdict[r] = verdict'[r]
    BY <2>1, <2>2 DEF Cancels, SettleCancelled, settlement, Attribute
  <2>3. ASSUME NEW s \in Runs, Ends(s)
        PROVE  verdict[r] = verdict'[r]
    <3>1. CASE runSettled
      BY <2>3, <3>1 DEF Ends
    <3>2. CASE ~runSettled
      <4>1. taskId = s /\ s \notin aborted \cup cancelled
        BY <2>3, <3>2 DEF Ends, Inv, FlightHolds
      <4>2. r # taskId
        BY <4>1
      <4> QED BY <2>1, <2>3, <3>2, <4>2 DEF Ends, Attribute
    <3> QED BY <3>1, <3>2
  <2>4. ASSUME Works \/ (\E s \in Runs : Starts(s)) \/ UNCHANGED vars
        PROVE  verdict[r] = verdict'[r]
    BY <2>4 DEF Works, Starts, vars, settlement
  <2> QED BY <2>1, <2>2, <2>3, <2>4 DEF Steps
<1> QED BY <1>1, SpecInv, PTL DEF Spec, CancelWins

\* No attempt starts to work once its run is settled: a retry that a stop did
\* not prevent finds its signal aborted.
NoAttemptOnceSettled ==
    [][\A r \in Runs :
         verdict[r] # "none" /\ run[r].pc # "looping" /\ run'[r].pc = "looping"
           => run'[r].signal \in aborted]_vars

\* An attempt that starts behind the settlement of its run finds its signal
\* aborted.
THEOREM SettledStaysIdle ==
    ASSUME ~Overlapping
    PROVE  Spec => NoAttemptOnceSettled
<1> DEFINE Resumes(r) == verdict[r] # "none" /\ run[r].pc # "looping" /\ run'[r].pc = "looping"
           Step == \A r \in Runs : Resumes(r) => run'[r].signal \in aborted
<1>1. Inv /\ [Next]_vars => Step
  <2> SUFFICES ASSUME Inv, [Next]_vars, NEW r \in Runs, Resumes(r)
               PROVE  run'[r].signal \in aborted
    OBVIOUS
  <2>1. Steps
    BY NextSteps DEF Inv
  <2>2. ASSUME Keeps
        PROVE  run'[r].signal \in aborted
    <3>1. run'[r].signal = controller /\ InFlight(r)
      BY <2>2 DEF Keeps, InFlight
    <3>2. controller = r /\ taskId = r /\ r # None
      BY <3>1, RuntimeConstants DEF Inv, FlightHolds
    <3>3. runSettled
      BY <3>2 DEF Inv, FieldsHold
    <3> QED BY <3>1, <3>2, <3>3 DEF Inv, FlightHolds
  <2>3. ASSUME NEW s \in Runs, Starts(s) \/ Ends(s)
        PROVE  FALSE
    BY <2>3 DEF Starts, Ends
  <2>4. ASSUME UNCHANGED vars
        PROVE  FALSE
    BY <2>4 DEF vars
  <2> QED BY <2>1, <2>2, <2>3, <2>4 DEF Steps, Works, Cancels
<1> QED BY <1>1, SpecInv, PTL DEF Spec, NoAttemptOnceSettled

-----------------------------------------------------------------------------
(* The runtime implements the contract of startSession().                      *)

\* The engines at work under a signal nobody aborted.
AtWork == {r \in Runs : run[r].pc = "looping" /\ ~SignalAborted(r)}

\* Of a run in flight, only a cancellation is a verdict.
EarlyVerdict == \A r \in Runs : InFlight(r) => verdict[r] \in {"none", "cancelled"}

LEMMA EarlyVerdictStep ==
    ASSUME ~Overlapping, Inv, Inv', EarlyVerdict, [Next]_vars
    PROVE  EarlyVerdict'
<1>1. Steps /\ verdict \in [Runs -> Verdicts]
  BY NextSteps, TypeFacts DEF Inv
<1>2. CASE Works
  BY <1>2 DEF Works, Keeps, EarlyVerdict, InFlight
<1>3. CASE Cancels
  <2>1. \A r \in Runs : verdict'[r] \in {verdict[r], "cancelled"}
    BY <1>1, <1>3 DEF Cancels, SettleCancelled, settlement, Attribute
  <2> QED BY <1>3, <2>1 DEF Cancels, Keeps, EarlyVerdict, InFlight
<1>4. ASSUME NEW r \in Runs, Starts(r)
      PROVE  EarlyVerdict'
  <2>1. run[r].pc = "idle" /\ verdict' = verdict
    BY <1>4 DEF Starts
  <2>2. verdict[r] = "none"
    BY <2>1 DEF Inv, FlightHolds
  <2>3. \A s \in Runs : s # r => run'[s] = run[s]
    BY <1>4 DEF Starts
  <2> QED BY <2>1, <2>2, <2>3 DEF EarlyVerdict, InFlight
<1>5. ASSUME NEW r \in Runs, Ends(r)
      PROVE  EarlyVerdict'
  <2>1. /\ InFlight(r) /\ run'[r].pc = "ended"
        /\ \A s \in Runs : s # r => run'[s] = run[s]
    BY <1>5 DEF Ends
  <2>2. \A s \in Runs : ~InFlight(s)'
    <3>1. \A s \in Runs : s # r => ~InFlight(s)
      BY <2>1 DEF Inv, FlightHolds
    <3> QED BY <2>1, <3>1 DEF InFlight
  <2> QED BY <2>2 DEF EarlyVerdict
<1>6. CASE UNCHANGED vars
  BY <1>6 DEF vars, settlement, EarlyVerdict, InFlight
<1> QED BY <1>1, <1>2, <1>3, <1>4, <1>5, <1>6 DEF Steps

\* Who is in flight is alone, and works only while it has no verdict.
LEMMA InFlightFacts ==
    ASSUME Inv, EarlyVerdict, NEW r \in Runs, InFlight(r)
    PROVE  /\ \A s \in Runs : InFlight(s) => s = r
           /\ taskId = r /\ controller = r /\ r # None
           /\ runSettled <=> verdict[r] # "none"
           /\ runSettled <=> r \in aborted
           /\ runSettled => verdict[r] = "cancelled"
           /\ AtWork = IF run[r].pc = "looping" /\ ~runSettled THEN {r} ELSE {}
<1>1. /\ \A s \in Runs : InFlight(s) => taskId = s
      /\ taskId = r /\ controller = r /\ r # None
      /\ runSettled <=> r \in aborted
  BY RuntimeConstants DEF Inv, FlightHolds
<1>2. runSettled <=> verdict[r] # "none"
  BY <1>1 DEF Inv, FieldsHold
<1>3. \A s \in AtWork : InFlight(s)
  BY DEF AtWork, InFlight
<1>4. r \in AtWork <=> run[r].pc = "looping" /\ ~runSettled
  BY <1>1 DEF AtWork, SignalAborted, Inv, FlightHolds
<1>5. AtWork \subseteq {r}
  BY <1>1, <1>3 DEF AtWork
<1> QED BY <1>1, <1>2, <1>4, <1>5 DEF EarlyVerdict

\* Nobody works when nobody is in flight.
LEMMA NobodyWorks ==
    ASSUME \A r \in Runs : ~InFlight(r)
    PROVE  AtWork = {}
BY DEF AtWork, InFlight

LEMMA StageLemma ==
    ASSUME NEW r \in Runs
    PROVE  /\ Stage(run[r]) = "live" <=> InFlight(r)
           /\ Stage(run[r]) = "new" <=> run[r].pc = "idle"
           /\ run[r].pc = "ended" => Stage(run[r]) = "over"
BY DEF Stage, InFlight

\* What the contract sees of the stages, and how a step of one run changes them.
Stages == [r \in Runs |-> Stage(run[r])]

LEMMA StagesKept ==
    ASSUME \A r \in Runs : /\ run'[r].pc = "idle" <=> run[r].pc = "idle"
                           /\ run'[r].pc = "ended" <=> run[r].pc = "ended"
    PROVE  Stages' = Stages
<1>1. \A r \in Runs : Stage(run'[r]) = Stage(run[r])
  BY DEF Stage
<1>2. Stages' = [r \in Runs |-> Stage(run'[r])]
  BY DEF Stages
<1> QED BY <1>1, <1>2 DEF Stages

LEMMA StagesMoved ==
    ASSUME NEW r \in Runs, \A s \in Runs : s # r => run'[s] = run[s]
    PROVE  Stages' = [Stages EXCEPT ![r] = Stage(run'[r])]
<1>1. \A s \in Runs : s # r => Stage(run'[s]) = Stage(run[s])
  OBVIOUS
<1>2. Stages' = [s \in Runs |-> Stage(run'[s])]
  BY DEF Stages
<1> QED BY <1>1, <1>2 DEF Stages

\* The contract's actions on what it sees.
LEMMA ContractSees ==
    ASSUME NEW r \in Runs
    PROVE  /\ Contract!Request(r) <=>
                /\ Stages[r] = "new" /\ \A s \in Runs : Stages[s] # "live"
                /\ Stages' = [Stages EXCEPT ![r] = "live"]
                /\ AtWork' = AtWork /\ verdict' = verdict
           /\ Contract!Work(r) <=>
                /\ Stages[r] = "live" /\ verdict[r] = "none" /\ r \notin AtWork
                /\ AtWork' = AtWork \cup {r}
                /\ Stages' = Stages /\ verdict' = verdict
           /\ Contract!Rest(r) <=>
                /\ r \in AtWork /\ AtWork' = AtWork \ {r}
                /\ Stages' = Stages /\ verdict' = verdict
           /\ Contract!CancelRun(r) <=>
                /\ Stages[r] = "live" /\ verdict[r] = "none"
                /\ AtWork' = AtWork \ {r}
                /\ verdict' = [verdict EXCEPT ![r] = "cancelled"]
                /\ Stages' = Stages
           /\ \A kind : Contract!Report(r, kind) <=>
                /\ Stages[r] = "live" /\ verdict[r] = "none" /\ r \notin AtWork
                /\ Stages' = [Stages EXCEPT ![r] = "over"]
                /\ verdict' = [verdict EXCEPT ![r] = kind]
                /\ AtWork' = AtWork
           /\ Contract!Unwind(r) <=>
                /\ Stages[r] = "live" /\ verdict[r] = "cancelled"
                /\ Stages' = [Stages EXCEPT ![r] = "over"]
                /\ AtWork' = AtWork /\ verdict' = verdict
<1>1. Contract!Request(r) <=>
                /\ Stages[r] = "new" /\ \A s \in Runs : Stages[s] # "live"
                /\ Stages' = [Stages EXCEPT ![r] = "live"]
                /\ AtWork' = AtWork /\ verdict' = verdict
  BY DEF Contract!Request, Stages, AtWork
<1>2. Contract!Work(r) <=>
                /\ Stages[r] = "live" /\ verdict[r] = "none" /\ r \notin AtWork
                /\ AtWork' = AtWork \cup {r}
                /\ Stages' = Stages /\ verdict' = verdict
  BY DEF Contract!Work, Stages, AtWork
<1>3. Contract!Rest(r) <=>
                /\ r \in AtWork /\ AtWork' = AtWork \ {r}
                /\ Stages' = Stages /\ verdict' = verdict
  BY DEF Contract!Rest, Stages, AtWork
<1>4. Contract!CancelRun(r) <=>
                /\ Stages[r] = "live" /\ verdict[r] = "none"
                /\ AtWork' = AtWork \ {r}
                /\ verdict' = [verdict EXCEPT ![r] = "cancelled"]
                /\ Stages' = Stages
  BY DEF Contract!CancelRun, Stages, AtWork
<1>5. \A kind : Contract!Report(r, kind) <=>
                /\ Stages[r] = "live" /\ verdict[r] = "none" /\ r \notin AtWork
                /\ Stages' = [Stages EXCEPT ![r] = "over"]
                /\ verdict' = [verdict EXCEPT ![r] = kind]
                /\ AtWork' = AtWork
  BY DEF Contract!Report, Stages, AtWork
<1>6. Contract!Unwind(r) <=>
                /\ Stages[r] = "live" /\ verdict[r] = "cancelled"
                /\ Stages' = [Stages EXCEPT ![r] = "over"]
                /\ AtWork' = AtWork /\ verdict' = verdict
  BY DEF Contract!Unwind, Stages, AtWork
<1> QED BY <1>1, <1>2, <1>3, <1>4, <1>5, <1>6

Refines == [Contract!ContractNext]_(Contract!contractVars)

LEMMA ContractStutters ==
    ASSUME Stages' = Stages, AtWork' = AtWork, verdict' = verdict
    PROVE  Refines
BY DEF Refines, Contract!contractVars, Stages, AtWork

LEMMA ContractMoves ==
    ASSUME NEW r \in Runs,
           \/ Contract!Request(r) \/ Contract!Work(r) \/ Contract!Rest(r)
           \/ Contract!CancelRun(r) \/ Contract!Unwind(r)
           \/ \E kind \in {"completed", "failed", "cancelled"} : Contract!Report(r, kind)
    PROVE  Refines
BY DEF Refines, Contract!ContractNext

\* A step that leaves every run in flight, or out of it: what it does to the one
\* that is, and to nobody else.
LEMMA KeptFlight ==
    ASSUME Inv, EarlyVerdict, Keeps
    PROVE  /\ Stages' = Stages
           /\ (\A r \in Runs : ~InFlight(r)) => AtWork = {} /\ AtWork' = {}
           /\ \A r \in Runs : InFlight(r) =>
                AtWork' = IF run'[r].pc = "looping" /\ r \notin aborted' THEN {r} ELSE {}
<1>1. Stages' = Stages
  BY StagesKept DEF Keeps
<1>2. \A r \in Runs : InFlight(r)' <=> InFlight(r)
  BY DEF Keeps, InFlight
<1>3. \A r \in AtWork' : r \in Runs /\ InFlight(r)
  BY <1>2 DEF AtWork, InFlight
<1>4. ASSUME NEW r \in Runs, InFlight(r)
      PROVE  AtWork' = IF run'[r].pc = "looping" /\ r \notin aborted' THEN {r} ELSE {}
  <2>1. \A s \in Runs : InFlight(s) => s = r
    BY <1>4, InFlightFacts
  <2>2. run'[r].pc = "looping" => run'[r].signal = r
    BY <1>4, InFlightFacts DEF Keeps, Inv, FlightHolds
  <2>3. r \in AtWork' <=> run'[r].pc = "looping" /\ r \notin aborted'
    BY <2>2 DEF AtWork, SignalAborted
  <2> QED BY <1>3, <2>1, <2>3
<1> QED BY <1>1, <1>3, <1>4, NobodyWorks

LEMMA WorksRefines ==
    ASSUME Inv, EarlyVerdict, Works
    PROVE  Refines
<1>1. verdict' = verdict /\ aborted' = aborted /\ Keeps
  BY DEF Works, signals
<1>2. CASE \A r \in Runs : ~InFlight(r)
  BY <1>1, <1>2, KeptFlight, ContractStutters
<1>3. ASSUME NEW r \in Runs, InFlight(r)
      PROVE  Refines
  <2>1. /\ Stages' = Stages /\ Stages[r] = "live"
        /\ AtWork \in {{}, {r}} /\ AtWork' \in {{}, {r}}
        /\ runSettled => AtWork = {} /\ AtWork' = {}
        /\ ~runSettled => verdict[r] = "none"
    BY <1>1, <1>3, KeptFlight, InFlightFacts, StageLemma DEF Stages
  <2>2. CASE AtWork' = AtWork
    BY <1>1, <2>1, <2>2, ContractStutters
  <2>3. CASE AtWork = {} /\ AtWork' = {r}
    <3>1. Contract!Work(r)
      BY <1>1, <2>1, <2>3, ContractSees
    <3> QED BY <3>1, ContractMoves
  <2>4. CASE AtWork = {r} /\ AtWork' = {}
    <3>1. Contract!Rest(r)
      BY <1>1, <2>1, <2>4, ContractSees
    <3> QED BY <3>1, ContractMoves
  <2> QED BY <2>1, <2>2, <2>3, <2>4
<1> QED BY <1>2, <1>3

LEMMA CancelsRefines ==
    ASSUME Inv, EarlyVerdict, Cancels
    PROVE  Refines
<1>1. Keeps /\ verdict \in [Runs -> Verdicts] /\ aborted \subseteq aborted'
  BY TypeFacts DEF Cancels, Inv
<1>2. ASSUME \A r \in Runs : ~InFlight(r)
      PROVE  Refines
  <2>1. verdict' = verdict
    <3>1. taskId # None => runSettled
      BY <1>2, TypeFacts DEF Inv, FieldsHold
    <3>2. CASE SettleCancelled /\ ~runSettled
      <4>1. \A r \in Runs : r # taskId
        BY <3>1, <3>2, RuntimeConstants
      <4> QED BY <1>1, <3>2, <4>1 DEF SettleCancelled, Attribute
    <3>3. CASE UNCHANGED settlement \/ runSettled
      BY <3>3 DEF Cancels, SettleCancelled, settlement
    <3> QED BY <3>2, <3>3 DEF Cancels
  <2> QED BY <1>1, <1>2, <2>1, KeptFlight, ContractStutters
<1>3. ASSUME NEW r \in Runs, InFlight(r), runSettled
      PROVE  Refines
  <2>1. verdict' = verdict
    BY <1>3 DEF Cancels, SettleCancelled, settlement
  <2>2. AtWork = {} /\ AtWork' = {} /\ Stages' = Stages
    BY <1>1, <1>3, KeptFlight, InFlightFacts
  <2> QED BY <2>1, <2>2, ContractStutters
<1>4. ASSUME NEW r \in Runs, InFlight(r), ~runSettled
      PROVE  Refines
  <2>1. /\ taskId = r /\ controller = r /\ r # None /\ verdict[r] = "none"
        /\ source = r /\ r \notin cancelled
    BY <1>4, InFlightFacts DEF Inv, FieldsHold, FlightHolds
  <2>2. SettleCancelled /\ aborted' = aborted \cup ({controller} \ {None})
    BY <1>4, <2>1 DEF Cancels
  <2>3. verdict' = [verdict EXCEPT ![r] = "cancelled"]
    BY <1>1, <1>4, <2>1, <2>2 DEF SettleCancelled, Attribute
  <2>4. AtWork' = {} /\ AtWork \subseteq {r} /\ Stages' = Stages /\ Stages[r] = "live"
    BY <1>1, <1>4, <2>1, <2>2, KeptFlight, InFlightFacts, StageLemma DEF Stages
  <2>5. Contract!CancelRun(r)
    <3>1. AtWork' = AtWork \ {r}
      BY <2>4
    <3> QED BY <2>1, <2>3, <2>4, <3>1, ContractSees
  <2> QED BY <2>5, ContractMoves
<1> QED BY <1>2, <1>3, <1>4

LEMMA StartsRefines ==
    ASSUME ~Overlapping, Inv, EarlyVerdict, NEW r \in Runs, Starts(r)
    PROVE  Refines
<1>1. /\ run[r].pc = "idle" /\ run'[r].pc = "starting" /\ verdict' = verdict
      /\ \A s \in Runs : ~InFlight(s)
      /\ \A s \in Runs : s # r => run'[s] = run[s]
  BY DEF Starts
<1>2. AtWork = {}
  BY <1>1, NobodyWorks
<1>3. AtWork' = {}
  BY <1>1 DEF AtWork, InFlight
<1>4. Stage(run'[r]) = "live"
  BY <1>1 DEF Stage
<1>5. Stages' = [Stages EXCEPT ![r] = "live"]
  BY <1>1, <1>4, StagesMoved
<1>6. Stages[r] = "new" /\ \A s \in Runs : Stages[s] # "live"
  BY <1>1, StageLemma DEF Stages
<1>7. Contract!Request(r)
  BY <1>1, <1>2, <1>3, <1>5, <1>6, ContractSees
<1> QED BY <1>7, ContractMoves

LEMMA EndsRefines ==
    ASSUME Inv, EarlyVerdict, NEW r \in Runs, Ends(r)
    PROVE  Refines
<1>1. /\ InFlight(r) /\ run[r].pc = "returned" /\ run'[r].pc = "ended"
      /\ \A s \in Runs : s # r => run'[s] = run[s]
      /\ verdict \in [Runs -> Verdicts]
  BY TypeFacts DEF Ends, Inv
<1>2. AtWork = {}
  BY <1>1, InFlightFacts
<1>3. AtWork' = {}
  <2>1. \A s \in Runs : s # r => ~InFlight(s)
    BY <1>1, InFlightFacts
  <2> QED BY <1>1, <2>1 DEF AtWork, InFlight
<1>4. Stage(run'[r]) = "over"
  BY <1>1 DEF Stage
<1>5. Stages' = [Stages EXCEPT ![r] = "over"] /\ Stages[r] = "live"
  BY <1>1, <1>4, StagesMoved, StageLemma DEF Stages
<1>6. CASE runSettled
  <2>1. verdict' = verdict /\ verdict[r] = "cancelled"
    BY <1>1, <1>6, InFlightFacts DEF Ends
  <2>2. Contract!Unwind(r)
    BY <1>2, <1>3, <1>5, <2>1, ContractSees
  <2> QED BY <2>2, ContractMoves
<1>7. CASE ~runSettled
  <2>1. taskId = r /\ verdict[r] = "none"
    BY <1>1, <1>7, InFlightFacts
  <2>2. PICK kind \in {"completed", "failed", "cancelled"} : Attribute(kind)
    BY <1>7 DEF Ends, Verdicts
  <2>3. verdict' = [verdict EXCEPT ![r] = kind]
    BY <1>1, <2>1, <2>2 DEF Attribute
  <2>4. Contract!Report(r, kind)
    BY <1>2, <1>3, <1>5, <2>1, <2>3, ContractSees
  <2> QED BY <2>4, ContractMoves
<1> QED BY <1>6, <1>7

LEMMA NextRefines ==
    ASSUME ~Overlapping, Inv, EarlyVerdict, [Next]_vars
    PROVE  Refines
<1>1. Steps
  BY NextSteps DEF Inv
<1>2. CASE UNCHANGED vars
  <2>1. Stages' = Stages
    BY <1>2, StagesKept DEF vars
  <2> QED BY <1>2, <2>1, ContractStutters DEF vars, settlement, signals, AtWork,
             SignalAborted
<1> QED BY <1>1, <1>2, WorksRefines, CancelsRefines, StartsRefines, EndsRefines DEF Steps

\* Seen through the stages of its runs, the engines at work and the verdicts, every
\* behaviour of the runtime is one of RunContract, provided that the host awaits
\* each startSession() before the next.
THEOREM Implements ==
    ASSUME ~Overlapping
    PROVE  Spec => ImplementsRunContract
<1>1. Init => Contract!ContractInit /\ EarlyVerdict
  <2> SUFFICES ASSUME Init PROVE Contract!ContractInit /\ EarlyVerdict
    OBVIOUS
  <2>1. \A r \in Runs : run[r].pc = "idle"
    BY DEF Init, Blank
  <2>2. Stages = [r \in Runs |-> "new"]
    BY <2>1, StageLemma DEF Stages
  <2>3. AtWork = {} /\ EarlyVerdict
    BY <2>1 DEF AtWork, EarlyVerdict, InFlight
  <2> QED BY <2>2, <2>3 DEF Init, Stages, AtWork, Contract!ContractInit
<1>2. Inv /\ EarlyVerdict /\ [Next]_vars => Refines
  BY NextRefines
<1>3. Inv /\ Inv' /\ EarlyVerdict /\ [Next]_vars => EarlyVerdict'
  BY EarlyVerdictStep
<1> QED
  BY <1>1, <1>2, <1>3, SpecInv, PTL
     DEF Spec, Refines, ImplementsRunContract, Contract!ContractSpec
=============================================================================
