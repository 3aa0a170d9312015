-------------------------- MODULE TaskPersistence --------------------------
(* The task files of the extension host: TaskStore (agent-runtime/src/        *)
(* m12-task-store.ts), whose mutations read a file, yield once and write it, as *)
(* extension.ts calls it, through the queue for the events of a run and around  *)
(* it for the preamble of a turn, a resume and the recovery at startup.         *)
(*                                                                             *)
(* Each step between two awaits is an action; the order of two continuations    *)
(* that are both ready is left open.  Of a record its status is kept and which *)
(* mutation of this process wrote it last.                                     *)
EXTENDS TaskQueue

CONSTANTS MaxCrashes   \* bound: deaths of the extension host

ASSUME TaskPersistenceConstants == MaxCrashes \in Nat

Statuses == {"running", "interrupted", "completed"}
Record == [by : Chains, status : Statuses]    \* by: 0 for create()
                                             \* and for an earlier process
Absent == [by |-> 0, status |-> "absent"]
Contents == Record \cup {Absent}

\* "user" is the turn's prompt, "plan" the plan carried over, "append" any entry,
\* result, counter or session id; the others set the status.
Kinds == {"user", "plan", "append", "resume", "interrupted", "completed"}

VARIABLES
    file,      \* the task files
    kind,      \* what each operation does
    held,      \* the record each operation has read
    host,      \* how far this host session has taken each task
    active,    \* activeTaskId, the task that the events of a run are written to
    recovery,  \* markInterruptedOnStartup()
    crashes,
    lost,      \* history: <<x, p>> where x wrote the file after p had read it
               \* and before p wrote it: what x did is gone
    discarded  \* history: tasks deleted for good

storeVars == <<file, kind, held, host, active, recovery, crashes, lost, discarded>>
vars == <<queueVars, storeVars>>

Recovery == [phase : {"listing", "marking", "done", "failed"}, unread : SUBSET Tasks,
             phantom : SUBSET Tasks, op : Chains]

TypeOK ==
    /\ QueueTypeOK
    /\ file \in [Tasks -> Contents]
    /\ kind \in [OpIds -> Kinds]
    /\ held \in [OpIds -> Contents]
    /\ host \in [Tasks -> {"none", "created", "resuming", "resumed", "open", "ended"}]
    /\ active \in Tasks \cup {None}
    /\ recovery \in Recovery
    /\ crashes \in 0..MaxCrashes
    /\ lost \in SUBSET (OpIds \X OpIds)
    /\ discarded \in SUBSET Tasks

Init ==
    /\ QueueInit
    /\ file = [t \in Tasks |-> Absent]
    /\ kind = [o \in OpIds |-> "append"]
    /\ held = [o \in OpIds |-> Absent]
    /\ host = [t \in Tasks |-> "none"]
    /\ active = None
    /\ recovery = [phase |-> "done", unread |-> {}, phantom |-> {}, op |-> 0]
    /\ crashes = 0
    /\ lost = {}
    /\ discarded = {}

---------------------------------------------------------------------------
\* Mutations of one record.

Exists(t) == file[t] # Absent

\* beginResume() declines a completed task, every mutation a missing one.
Declines(k, record) ==
    record = Absent \/ (k = "resume" /\ record.status = "completed")

StatusAfter(k, record) ==
    CASE k = "resume" -> "running"
      [] k \in {"interrupted", "completed"} -> k
      [] OTHER -> record.status

\* An operation outside the queue reads in the call that issues it.
Issue(o, t, k) ==
    /\ kind' = [kind EXCEPT ![o] = k]
    /\ held' = [held EXCEPT ![o] = file[t]]

Unqueued(t) == [task |-> t, chain |-> 0, epoch |-> 0, phase |-> "running"]

Direct(t, k) ==
    /\ issued < MaxOps
    /\ issued' = issued + 1
    /\ op' = [op EXCEPT ![issued + 1] = Unqueued(t)]
    /\ Issue(issued + 1, t, k)
    /\ UNCHANGED <<tasks, epoch, cancels, drains, revoked, dropped>>

\* A queued operation is called, and reads, when the chain reaches it.
Start(o) ==
    /\ Begin(o)
    /\ held' = [held EXCEPT ![o] = file[op[o].task]]
    /\ UNCHANGED <<file, kind, host, active, recovery, crashes, lost, discarded>>

\* The caller of an operation outside the queue goes on, or gets the error.
Over(o, phase) ==
    \/ Settle(o)
    \/ /\ op[o].chain = 0
       /\ op[o].phase = "running"
       /\ SetPhase(o, phase)
       /\ UNCHANGED <<tasks, epoch, issued, cancels, drains, revoked, dropped>>

\* The rest of the mutation: it changes the record it holds and writes that.
Write(o) ==
    LET t == op[o].task
        mine == held[o]
    IN  /\ Over(o, "accounted")
        /\ IF Declines(kind[o], mine)
           THEN UNCHANGED <<file, lost>>
           ELSE /\ file' = [file EXCEPT ![t] =
                              [by |-> o, status |-> StatusAfter(kind[o], mine)]]
                /\ lost' = IF file[t].by \notin {0, mine.by}
                           THEN lost \cup {<<file[t].by, o>>} ELSE lost
        /\ host' = IF kind[o] = "resume" /\ ~Declines("resume", mine) /\ host[t] = "resuming"
                   THEN [host EXCEPT ![t] = "resumed"] ELSE host
        /\ held' = [held EXCEPT ![o] = Absent]
        /\ UNCHANGED <<kind, active, recovery, crashes, discarded>>

\* The write or the rename throws; the file is as it was.
WriteFails(o) ==
    /\ ~Declines(kind[o], held[o])
    /\ Over(o, "thrown")
    /\ held' = [held EXCEPT ![o] = Absent]
    /\ recovery' = IF recovery.op = o THEN [recovery EXCEPT !.phase = "failed"] ELSE recovery
    /\ UNCHANGED <<file, kind, host, active, crashes, lost, discarded>>

---------------------------------------------------------------------------
\* What extension.ts does with it.

\* sendPromptToAgent(): create() names a task nobody else knows of.
Create(t) ==
    /\ host[t] = "none" /\ ~Exists(t) /\ t \notin discarded
    /\ file' = [file EXCEPT ![t] = [by |-> 0, status |-> "running"]]
    /\ host' = [host EXCEPT ![t] = "created"]
    /\ active' = t
    /\ UNCHANGED <<queueVars, kind, held, recovery, crashes, lost, discarded>>

\* ... then queues the plan carried over, if the runtime has one, and appends
\* the prompt without the queue.
Preamble(t) ==
    /\ host[t] = "created"
    /\ host' = [host EXCEPT ![t] = "open"]
    /\ UNCHANGED <<file, active, recovery, crashes, lost, discarded>>
    /\ \/ Direct(t, "user")
       \/ LET seed == issued + 1
              user == issued + 2
          IN  /\ user <= MaxOps
              /\ issued' = user
              /\ op' = [op EXCEPT ![seed] = [task |-> t, chain |-> seed,
                                             epoch |-> epoch[seed], phase |-> "queued"],
                                  ![user] = Unqueued(t)]
              /\ tasks' = [tasks EXCEPT ![t] = seed]
              /\ kind' = [kind EXCEPT ![seed] = "plan", ![user] = "user"]
              /\ held' = [held EXCEPT ![user] = file[t]]
              /\ UNCHANGED <<epoch, cancels, drains, revoked, dropped>>

\* persistTaskEvent(): the events of the run of the active task, the last of them
\* its completion or its cancellation.
Event(t, k) ==
    /\ t = active
    /\ host[t] = "open"
    /\ Run(t)
    /\ kind' = [kind EXCEPT ![issued + 1] = k]
    /\ host' = IF k = "append" THEN host ELSE [host EXCEPT ![t] = "ended"]
    /\ UNCHANGED <<file, held, active, recovery, crashes, lost, discarded>>

\* Around the queue: the note of a resume, the session id once startSession()
\* resolved, and the status when it throws for a resumed task.
Around(t) ==
    /\ \/ host[t] \in {"resumed", "open", "ended"} /\ Direct(t, "append") /\ UNCHANGED host
       \/ host[t] = "open" /\ Direct(t, "interrupted") /\ host' = [host EXCEPT ![t] = "ended"]
    /\ UNCHANGED <<file, active, recovery, crashes, lost, discarded>>

\* resumePersistedTask(): a task of an earlier session, or of this one.
Resume(t) ==
    /\ ~Declines("resume", file[t])
    /\ host[t] # "created"
    /\ Direct(t, "resume")
    /\ host' = [host EXCEPT ![t] = "resuming"]
    /\ UNCHANGED <<file, active, recovery, crashes, lost, discarded>>

\* beginResume() returned the record: the task becomes the active one.
Resumed(t) ==
    /\ host[t] = "resumed"
    /\ host' = [host EXCEPT ![t] = "open"]
    /\ active' = t
    /\ UNCHANGED <<queueVars, file, kind, held, recovery, crashes, lost, discarded>>

\* discard(): refused for the active task; delete() is synchronous.
Delete(t) ==
    /\ t # active
    /\ Exists(t)
    /\ file' = [file EXCEPT ![t] = Absent]
    /\ discarded' = discarded \cup {t}
    /\ UNCHANGED <<queueVars, kind, held, host, active, recovery, crashes, lost>>

\* The extension host dies and is activated again.
Crash ==
    /\ crashes < MaxCrashes
    /\ crashes' = crashes + 1
    /\ QueueDies
    /\ held' = [o \in OpIds |-> Absent]
    /\ kind' = [o \in OpIds |-> "append"]
    /\ lost' = {}
    /\ host' = [t \in Tasks |-> "none"]
    /\ active' = None
    /\ recovery' = [phase |-> "listing", unread |-> {t \in Tasks : Exists(t)},
                    phantom |-> {}, op |-> 0]
    /\ file' = [t \in Tasks |-> [file[t] EXCEPT !.by = 0]]
    /\ UNCHANGED discarded

\* list() reads one file after the other.
List(t) ==
    /\ recovery.phase = "listing"
    /\ t \in recovery.unread
    /\ recovery' = [recovery EXCEPT
                      !.unread = @ \ {t},
                      !.phantom = IF file[t].status = "running" THEN @ \cup {t} ELSE @,
                      !.phase = IF recovery.unread = {t} THEN "marking" ELSE @]
    /\ UNCHANGED <<queueVars, file, kind, held, host, active, crashes, lost, discarded>>

MarkedLast == recovery.op # 0 => op[recovery.op].phase = "accounted"

\* Then it updates the listed tasks that were running, one at a time.
Mark(t) ==
    /\ recovery.phase = "marking"
    /\ MarkedLast
    /\ t \in recovery.phantom
    /\ Direct(t, "interrupted")
    /\ recovery' = [recovery EXCEPT !.phantom = @ \ {t}, !.op = issued + 1]
    /\ UNCHANGED <<file, host, active, crashes, lost, discarded>>

\* Faulty: the updates are not awaited.
Recovered_Unawaited ==
    /\ recovery.phase \in {"listing", "marking"}
    /\ recovery.unread = {} /\ recovery.phantom = {}
    /\ recovery' = [recovery EXCEPT !.phase = "done"]
    /\ UNCHANGED <<queueVars, file, kind, held, host, active, crashes, lost, discarded>>

Recovered ==
    /\ recovery.phase \in {"listing", "marking"}
    /\ recovery.unread = {} /\ recovery.phantom = {}
    /\ MarkedLast
    /\ recovery' = [recovery EXCEPT !.phase = "done"]
    /\ UNCHANGED <<queueVars, file, kind, held, host, active, crashes, lost, discarded>>

QueueOnly == UNCHANGED storeVars

Skips(o) == Skip(o) /\ QueueOnly
Accounts(o) == Account(o) /\ QueueOnly
Drains(t) == DrainLap(t) /\ QueueOnly

Next ==
    \/ \E o \in OpIds : Start(o) \/ Skips(o) \/ Write(o) \/ WriteFails(o) \/ Accounts(o)
    \/ \E t \in Tasks :
          \/ Create(t) \/ Preamble(t) \/ Resume(t) \/ Resumed(t) \/ Delete(t)
          \/ \E k \in {"append", "interrupted", "completed"} : Event(t, k)
          \/ Around(t)
          \/ Cancel(t) /\ QueueOnly
          \/ Drain(t) /\ QueueOnly
          \/ Drains(t)
          \/ List(t) \/ Mark(t)
    \/ DisposeAll /\ QueueOnly
    \/ Crash
    \/ Recovered

Spec == Init /\ [][Next]_vars

\* Microtasks run: a file operation here neither blocks nor waits for anything.
Fairness ==
    /\ \A o \in OpIds : WF_vars(Start(o) \/ Skips(o) \/ Accounts(o)) /\ WF_vars(Write(o))
    /\ \A t \in Tasks : WF_vars(Drains(t))

FairSpec == Spec /\ Fairness

---------------------------------------------------------------------------
\* Two mutations of one chain never overlap: a mutation is lost only to one that
\* went around the queue, or beside a chain that disposeAll() dropped while its
\* operation was running (run, disposeAll in task-persistence-queue.ts; update in
\* m12-task-store.ts).
QueuedNeverLost ==
    \A pair \in lost : \E o \in {pair[1], pair[2]} :
        op[o].chain = 0 \/ op[o].chain \in dropped

\* What was cancelled before it started leaves no trace in any file, whatever
\* happened to the chain, the map and the epoch since (run, cancel, disposeAll).
RevokedLeavesNoTrace ==
    \A o \in revoked : /\ op[o].phase # "running"
                       /\ \A t \in Tasks : file[t].by # o

\* When drain() resolves no operation of the task is unsettled, those submitted
\* while it waited included, unless disposeAll() dropped the chain: deactivate()
\* relies on it for the terminal mutations of a run (drain, maybeCleanup).
DrainLeavesNothing ==
    [][\A t \in Tasks : drains[t].phase # "done" /\ drains'[t].phase = "done" =>
         \A o \in OpIds : op[o].task = t /\ op[o].chain # 0 /\ Unsettled(o)
                            => op[o].chain \in dropped]_vars

\* Once the recovery at startup has completed, a task on disk is running only if
\* this session created or resumed it, whatever it did meanwhile and however often
\* the host died before (markInterruptedOnStartup; extension.ts activate).
NoPhantomRunning ==
    recovery.phase = "done" =>
        \A t \in Tasks : file[t].status = "running" => host[t] # "none"

\* Every queued operation settles, also when those before it were cancelled or
\* failed; only the death of the host prevents it (run).
EveryOperationSettles ==
    \A o \in OpIds : op[o].phase = "queued" ~> op[o].phase \in {"accounted", "unborn"}
=============================================================================
