----------------------------- MODULE Scheduler -----------------------------
(* TaskScheduler (agent-runtime/src/m17-scheduler.ts) behind ScheduleService    *)
(* (vscode-extension/src/schedule-service.ts): schedules, their ticks, the run  *)
(* queue with its concurrency bound and retries, and the schedule file that a   *)
(* later process loads.                                                        *)
(*                                                                             *)
(* A run record is numbered when it is made.  Records are pushed on `runs` and  *)
(* on `queue` together, so both lists are sorted by number: the queue is a set,  *)
(* and `runs` is what was made since `oldest`.  Time is in minutes and does not  *)
(* go back.                                                                    *)
EXTENDS Integers, FiniteSets

CONSTANTS Schedules,      \* schedule ids
          Plans,          \* what a schedule may say
          Day,            \* length of a day
          MaxConcurrent,  \* maxConcurrent
          HistoryMax,     \* record() cuts `runs` above this length (500)
          HistoryKeep,    \* ... to this one (250)
          MaxRuns,        \* bound: records made
          MaxTime,        \* bound: the clock
          MaxEdits,       \* bound: calls of create, update, setEnabled and remove
          MaxDeaths       \* bound: deaths of the process

\* `at` is the time of a one-time schedule, the period of a recurring one or the
\* time of day of a daily one.
Plan == [kind : {"once", "every", "daily"}, at : Nat, policy : {"skip", "run"},
         retries : Nat]

ASSUME SchedulerConstants ==
    /\ IsFiniteSet(Schedules)
    /\ Plans \subseteq Plan
    /\ \A p \in Plans : p.kind = "every" => p.at > 0
    /\ Day \in Nat \ {0} /\ MaxConcurrent \in Nat \ {0}
    /\ HistoryMax \in Nat /\ HistoryKeep \in Nat \ {0} /\ HistoryKeep <= HistoryMax
    /\ Cardinality(Schedules) <= HistoryMax - HistoryKeep  \* one cut in a tick
    /\ MaxRuns \in Nat /\ MaxTime \in Nat /\ MaxEdits \in Nat /\ MaxDeaths \in Nat

Runs == 1..MaxRuns
Never == -1
Time == Nat \cup {Never}

VARIABLES
    now,
    process,     \* the service: not created, in use, disposed
    schedules,   \* the definitions, NoSchedule for none
    disk,        \* the schedule file
    started,     \* the timer is set
    record,      \* run records, by number
    made,        \* how many were made
    oldest,      \* the first record still in `runs`
    queue,       \* the queued ones
    executing,   \* those whose runner is at work
    activeRuns,  \* the counter the bound is checked with
    edits, deaths,
    fired        \* history: <<schedule, occurrence, record>> of each tick

runVars == <<record, made, oldest, queue, executing, activeRuns>>
vars == <<now, process, schedules, disk, started, runVars, edits, deaths, fired>>

Definition == [plan : Plans, enabled : BOOLEAN, last : Time, next : Time]
NoSchedule == [enabled |-> FALSE]

Statuses == {"none", "queued", "running", "success", "failed", "skipped", "cancelled"}
Record == [schedule : Schedules, status : Statuses, attempt : Nat, limit : Nat]
NoRecord == [status |-> "none"]

TypeOK ==
    /\ now \in 0..MaxTime
    /\ process \in {"down", "up", "disposed"}
    /\ schedules \in [Schedules -> Definition \cup {NoSchedule}]
    /\ disk \in [Schedules -> Definition \cup {NoSchedule}]
    /\ started \in BOOLEAN
    /\ record \in [Runs -> Record \cup {NoRecord}]
    /\ made \in 0..MaxRuns
    /\ oldest \in 1..(MaxRuns + 1)
    /\ queue \subseteq 1..made
    /\ executing \subseteq 1..made
    /\ activeRuns \in 0..MaxConcurrent
    /\ edits \in 0..MaxEdits
    /\ deaths \in 0..MaxDeaths
    /\ fired \subseteq Schedules \X Nat \X Runs

Init ==
    /\ now = 0 /\ process = "down"
    /\ schedules = [s \in Schedules |-> NoSchedule]
    /\ disk = [s \in Schedules |-> NoSchedule]
    /\ started = FALSE
    /\ record = [r \in Runs |-> NoRecord]
    /\ made = 0 /\ oldest = 1
    /\ queue = {} /\ executing = {} /\ activeRuns = 0
    /\ edits = 0 /\ deaths = 0
    /\ fired = {}

---------------------------------------------------------------------------
\* When a schedule runs next.

NextDaily(timeOfDay, after) ==
    LET today == after - (after % Day) + (timeOfDay % Day)
    IN  IF today > after THEN today ELSE today + Day

NextRunAt(plan, enabled, last, after) ==
    CASE ~enabled -> Never
      [] enabled /\ plan.kind = "once" -> IF plan.at > after THEN plan.at ELSE Never
      [] enabled /\ plan.kind = "every" -> (IF last = Never THEN after ELSE last) + plan.at
      [] enabled /\ plan.kind = "daily" -> NextDaily(plan.at, after)

Occurrence(def) ==
    IF def.next # Never THEN def.next
    ELSE NextRunAt(def.plan, def.enabled, def.last, now)

Due(def) == def.enabled /\ Occurrence(def) # Never /\ Occurrence(def) <= now

\* A daily schedule has no everyMinutes: one minute late is missed.
Missed(def) ==
    /\ def.plan.kind # "once"
    /\ now - Occurrence(def) > (IF def.plan.kind = "every" THEN def.plan.at ELSE 1)

\* Bookkeeping of a run, or of a run that is skipped.
RanNow(def) ==
    [def EXCEPT !.last = now, !.next = NextRunAt(def.plan, def.enabled, now, now)]

---------------------------------------------------------------------------
\* The queue.

Before(S, r) == {q \in S : q < r}

Active(s) ==
    \E r \in oldest..made : /\ record[r] # NoRecord
                            /\ record[r].schedule = s
                            /\ record[r].status \in {"queued", "running"}

\* Faulty: one too many.
Launches_OffByOne(q, rec, from, busy) ==
    LET found == {r \in q : r >= from /\ rec[r].status = "queued"}
    IN  {r \in found : Cardinality(Before(found, r)) <= MaxConcurrent - busy}

\* pumpQueue(): an entry is taken while a slot is free; one whose record is no
\* longer in `runs` is dropped without taking the slot.
Launches(q, rec, from, busy) ==
    LET found == {r \in q : r >= from /\ rec[r].status = "queued"}
    IN  {r \in found : Cardinality(Before(found, r)) < MaxConcurrent - busy}

Remaining(q, rec, from, busy) ==
    LET found == {r \in q : r >= from /\ rec[r].status = "queued"}
    IN  {r \in q : Cardinality(Before(found, r)) >= MaxConcurrent - busy}

Running(rec, L) ==
    [r \in Runs |-> IF r \in L THEN [rec[r] EXCEPT !.status = "running", !.attempt = 1]
                    ELSE rec[r]]

\* q, rec, from, going: the queue, the records, the oldest and the executing ones
\* before the queue is pumped.
Pump(q, rec, from, going, busy) ==
    LET L == Launches(q, rec, from, busy)
    IN  /\ record' = Running(rec, L)
        /\ queue' = Remaining(q, rec, from, busy)
        /\ executing' = going \cup L
        /\ activeRuns' = busy + Cardinality(L)

Queued(s, plan) == [schedule |-> s, status |-> "queued", attempt |-> 0,
                    limit |-> plan.retries]
Skipped(s, plan) == [schedule |-> s, status |-> "skipped", attempt |-> 0,
                     limit |-> plan.retries]

\* record() cuts `runs` when the record it pushes makes it too long.
Cut(skipped) ==
    LET over == {r \in skipped : r - oldest + 1 > HistoryMax}
    IN  IF over = {} THEN oldest
        ELSE (CHOOSE r \in over : \A x \in over : r <= x) - HistoryKeep + 1

\* processTick() over the definitions D; the order of the map is left open.
TickOver(D) ==
    LET due == {s \in Schedules : Due(D[s])}
        skip == {s \in due : Missed(D[s]) /\ D[s].plan.policy = "skip"}
        new == (made + 1)..(made + Cardinality(due))
    IN  /\ made + Cardinality(due) <= MaxRuns
        /\ made' = made + Cardinality(due)
        /\ schedules' = [s \in Schedules |-> IF s \in due THEN RanNow(D[s]) ELSE D[s]]
        /\ \E of \in [new -> due] :
              /\ \A s \in due : \E r \in new : of[r] = s
              /\ oldest' = Cut({r \in new : of[r] \in skip})
              /\ fired' = fired \cup {<<of[r], Occurrence(D[of[r]]), r>> : r \in new}
              /\ Pump(queue \cup {r \in new : of[r] \notin skip},
                      [r \in Runs |-> IF r \notin new THEN record[r]
                                      ELSE IF of[r] \in skip
                                      THEN Skipped(of[r], D[of[r]].plan)
                                      ELSE Queued(of[r], D[of[r]].plan)],
                      oldest', executing, activeRuns)

\* Faulty: the file is written when a run finishes, not when it is queued.
Persist_Late == IF made' = made THEN disk' = schedules' ELSE UNCHANGED disk

Persist == disk' = schedules'

\* ensureStarted(), after the definitions became D.
EnsureStarted(D) ==
    IF started \/ \A s \in Schedules : ~D[s].enabled
    THEN schedules' = D /\ UNCHANGED <<started, runVars, fired>>
    ELSE started' = TRUE /\ TickOver(D)

---------------------------------------------------------------------------
\* The service.

\* upsert(): the bookkeeping of the definition it replaces is kept.
Upserted(plan, enabled, old) ==
    LET last == IF old = NoSchedule THEN Never ELSE old.last
    IN  [plan |-> plan, enabled |-> enabled, last |-> last,
         next |-> NextRunAt(plan, enabled, last, now)]

Edit == process = "up" /\ edits < MaxEdits /\ edits' = edits + 1

\* create() and update(): a one-time schedule in the past is refused.
Save(s, plan, enabled) ==
    /\ Edit
    /\ plan.kind = "once" => plan.at > now
    /\ EnsureStarted([schedules EXCEPT ![s] = Upserted(plan, enabled, schedules[s])])
    /\ Persist
    /\ UNCHANGED <<now, process, deaths>>

\* setEnabled() does not look at the time.
SetEnabled(s, enabled) ==
    /\ Edit
    /\ schedules[s] # NoSchedule
    /\ EnsureStarted([schedules EXCEPT
                        ![s] = Upserted(schedules[s].plan, enabled, schedules[s])])
    /\ Persist
    /\ UNCHANGED <<now, process, deaths>>

\* remove(): refused while the schedule has a queued or running record.
Remove(s) ==
    /\ Edit
    /\ schedules[s] # NoSchedule
    /\ ~Active(s)
    /\ schedules' = [schedules EXCEPT ![s] = NoSchedule]
    /\ UNCHANGED <<now, process, started, runVars, deaths, fired>>
    /\ Persist

\* runNow(): the timer is already set, since the schedule is enabled.
RunNow(s) ==
    /\ process = "up"
    /\ schedules[s].enabled
    /\ ~Active(s)
    /\ made < MaxRuns
    /\ made' = made + 1
    /\ schedules' = [schedules EXCEPT ![s] = RanNow(schedules[s])]
    /\ Pump(queue \cup {made + 1},
            [record EXCEPT ![made + 1] = Queued(s, schedules[s].plan)],
            oldest, executing, activeRuns)
    /\ Persist
    /\ UNCHANGED <<now, process, started, oldest, edits, deaths, fired>>

\* The timer.
ProcessTick ==
    /\ process = "up" /\ started
    /\ \E s \in Schedules : Due(schedules[s])
    /\ TickOver(schedules)
    /\ UNCHANGED <<now, process, started, edits, deaths>>
    /\ Persist

---------------------------------------------------------------------------
\* executeWithRetry(): what the runner's promise brings.

\* Faulty: the freed slot waits for the next tick.
Finish_NoPump(r, status) ==
    /\ record' = [record EXCEPT ![r].status = status]
    /\ executing' = executing \ {r}
    /\ activeRuns' = activeRuns - 1
    /\ UNCHANGED queue

Finish(r, status) ==
    Pump(queue, [record EXCEPT ![r].status = status], oldest, executing \ {r},
         activeRuns - 1)

Succeeds(r) ==
    /\ r \in executing
    /\ Finish(r, "success")
    /\ disk' = schedules
    /\ UNCHANGED <<now, process, schedules, started, made, oldest, edits, deaths, fired>>

\* The record says failed while the next attempt is at work.
Retries(r) ==
    /\ r \in executing
    /\ record[r].attempt <= record[r].limit
    /\ record' = [record EXCEPT ![r].status = "failed", ![r].attempt = @ + 1]
    /\ UNCHANGED <<now, process, schedules, disk, started, made, oldest, queue,
                   executing, activeRuns, edits, deaths, fired>>

Fails(r) ==
    /\ r \in executing
    /\ record[r].attempt > record[r].limit
    /\ Finish(r, "failed")
    /\ disk' = schedules
    /\ UNCHANGED <<now, process, schedules, started, made, oldest, edits, deaths, fired>>

---------------------------------------------------------------------------
\* The life of the process.

\* dispose() and cancelAll(): runners are not told and go on.
Dispose ==
    /\ process = "up"
    /\ process' = "disposed"
    /\ started' = FALSE
    /\ queue' = {}
    /\ record' = [r \in Runs |->
                    IF r \in oldest..made /\ record[r].status \in {"queued", "running"}
                    THEN [record[r] EXCEPT !.status = "cancelled"] ELSE record[r]]
    /\ UNCHANGED <<now, schedules, disk, made, oldest, executing, activeRuns, edits,
                   deaths, fired>>

\* The process ends; only the file is left.
Die ==
    /\ process # "down"
    /\ deaths < MaxDeaths
    /\ deaths' = deaths + 1
    /\ process' = "down"
    /\ started' = FALSE
    /\ schedules' = [s \in Schedules |-> NoSchedule]
    /\ record' = [r \in Runs |-> NoRecord]
    /\ oldest' = made + 1
    /\ queue' = {} /\ executing' = {} /\ activeRuns' = 0
    /\ UNCHANGED <<now, disk, made, edits, fired>>

\* getSchedulerService(): the file is loaded and the timer set.
Activate ==
    /\ process = "down"
    /\ process' = "up"
    /\ EnsureStarted(disk)
    /\ IF started' THEN Persist ELSE UNCHANGED disk
    /\ UNCHANGED <<now, edits, deaths>>

Pass ==
    /\ now < MaxTime
    /\ now' = now + 1
    /\ UNCHANGED <<process, schedules, disk, started, runVars, edits, deaths, fired>>

Next ==
    \/ \E s \in Schedules :
          \/ \E p \in Plans, e \in BOOLEAN : Save(s, p, e)
          \/ \E e \in BOOLEAN : SetEnabled(s, e)
          \/ Remove(s) \/ RunNow(s)
    \/ ProcessTick
    \/ \E r \in Runs : Succeeds(r) \/ Retries(r) \/ Fails(r)
    \/ Dispose \/ Die \/ Activate \/ Pass

Spec == Init /\ [][Next]_vars

\* A runner settles: startSession() ends by its own run timeout at the latest.
FairSpec == Spec /\ \A r \in Runs : WF_vars(Succeeds(r) \/ Retries(r) \/ Fails(r))

---------------------------------------------------------------------------
\* At most maxConcurrent runners are at work and the counter says how many,
\* whatever is retried, cut from the history, edited or disposed meanwhile
\* (pumpQueue, launch, finish, cancelAll).
BoundedConcurrency ==
    /\ Cardinality(executing) <= MaxConcurrent
    /\ activeRuns = Cardinality(executing)

\* No occurrence of a schedule triggers two runs, whatever is edited, run by hand
\* or lost with the process between its bookkeeping and its runs (processTick,
\* upsert, runNow, loadSchedules).
NoOccurrenceTwice ==
    \A x, y \in fired : x[1] = y[1] /\ x[2] = y[2] => x = y

\* A queued run is launched or cancelled, unless the process dies or the history
\* was cut meanwhile (finish, pumpQueue, cancelAll, record).
QueuedRunsLeave ==
    \A r \in Runs : r \in queue ~> record[r].status # "queued" \/ r < oldest
=============================================================================
