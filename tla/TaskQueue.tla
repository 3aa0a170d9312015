----------------------------- MODULE TaskQueue -----------------------------
(* TaskPersistenceQueue (agent-runtime/src/task-persistence-queue.ts): one     *)
(* promise chain per task, with cancellation by epoch.  What an operation does  *)
(* between Start and Settle is left to the module that extends this one.        *)
(*                                                                             *)
(* A TaskQueueState object is named by the operation whose run() created it, so *)
(* the operations of one chain are those that captured the same name, in the    *)
(* order of their own.                                                         *)
EXTENDS Integers

CONSTANTS Tasks,       \* task ids
          None,        \* no task
          MaxOps,      \* bound: operations in the life of a process
          MaxCancels   \* bound: cancel() and disposeAll() calls in one

ASSUME TaskQueueConstants ==
    None \notin Tasks /\ MaxOps \in Nat /\ MaxCancels \in Nat

OpIds == 1..MaxOps
Chains == 0..MaxOps    \* 0: no chain

\* "settled" is an outcome delivered but still counted in `pending`; "thrown" the
\* end of an operation outside the queue that rejects.
Phases == {"unborn", "queued", "running", "settled", "accounted", "thrown"}

VARIABLES
    tasks,     \* the map: the chain in use of each task, 0 for none
    epoch,     \* the epoch of each TaskQueueState
    op,        \* the operations
    issued,    \* how many were submitted
    cancels,   \* how often cancel() or disposeAll() was called
    drains,    \* the drain() call of each task
    revoked,   \* history: operations cancelled before they started
    dropped    \* history: chains disposeAll() dropped

queueVars == <<tasks, epoch, op, issued, cancels, drains, revoked, dropped>>

Op == [task : Tasks \cup {None}, chain : Chains, epoch : 0..MaxCancels,
       phase : Phases]

\* `upto` is what the chain promise awaited in this lap covers.
DrainCall == [phase : {"idle", "awaiting", "done"}, upto : SUBSET OpIds]

QueueTypeOK ==
    /\ tasks \in [Tasks -> Chains]
    /\ epoch \in [OpIds -> 0..MaxCancels]
    /\ op \in [OpIds -> Op]
    /\ issued \in 0..MaxOps
    /\ cancels \in 0..MaxCancels
    /\ drains \in [Tasks -> DrainCall]
    /\ revoked \in SUBSET OpIds
    /\ dropped \in SUBSET OpIds

Unborn == [task |-> None, chain |-> 0, epoch |-> 0, phase |-> "unborn"]
NoDrain == [phase |-> "idle", upto |-> {}]

QueueInit ==
    /\ tasks = [t \in Tasks |-> 0]
    /\ epoch = [c \in OpIds |-> 0]
    /\ op = [o \in OpIds |-> Unborn]
    /\ issued = 0
    /\ cancels = 0
    /\ drains = [t \in Tasks |-> NoDrain]
    /\ revoked = {}
    /\ dropped = {}

---------------------------------------------------------------------------
Unsettled(o) == op[o].phase \in {"queued", "running"}

\* The operations counted in the `pending` of a chain.
Pending(c) ==
    {o \in OpIds : op[o].chain = c /\ op[o].phase \in {"queued", "running", "settled"}}

\* run(): the operation joins the task's chain, or opens one.
Run(t) ==
    /\ issued < MaxOps
    /\ LET o == issued + 1
           c == IF tasks[t] = 0 THEN o ELSE tasks[t]
       IN  /\ issued' = o
           /\ tasks' = [tasks EXCEPT ![t] = c]
           /\ op' = [op EXCEPT ![o] = [task |-> t, chain |-> c,
                                       epoch |-> epoch[c], phase |-> "queued"]]
    /\ UNCHANGED <<epoch, cancels, drains, revoked, dropped>>

\* Faulty: the chain is not awaited; an operation waits for itself as well.
Reached_Unchained(o) == op[o].phase = "queued"
Reached_WaitsForItself(o) ==
    /\ op[o].phase = "queued"
    /\ \A p \in OpIds : p <= o /\ op[p].chain = op[o].chain => ~Unsettled(p)

\* The chain promise reaches the operation.
Reached(o) ==
    /\ op[o].phase = "queued"
    /\ \A p \in OpIds : p < o /\ op[p].chain = op[o].chain => ~Unsettled(p)

\* Faulty: the epoch is not looked at.
Current_MapOnly(o) == tasks[op[o].task] = op[o].chain

Current(o) ==
    /\ tasks[op[o].task] = op[o].chain
    /\ epoch[op[o].chain] = op[o].epoch

SetPhase(o, phase) == op' = [op EXCEPT ![o].phase = phase]

Begin(o) ==
    /\ Reached(o)
    /\ Current(o)
    /\ SetPhase(o, "running")
    /\ UNCHANGED <<tasks, epoch, issued, cancels, drains, revoked, dropped>>

Skip(o) ==
    /\ Reached(o)
    /\ ~Current(o)
    /\ SetPhase(o, "settled")
    /\ UNCHANGED <<tasks, epoch, issued, cancels, drains, revoked, dropped>>

\* The operation fulfils or rejects: both become an outcome.
Settle(o) ==
    /\ op[o].chain # 0
    /\ op[o].phase = "running"
    /\ SetPhase(o, "settled")
    /\ UNCHANGED <<tasks, epoch, issued, cancels, drains, revoked, dropped>>

\* Faulty: the state is dropped while operations are pending.
Account_AlwaysDrops(o) ==
    /\ op[o].phase = "settled"
    /\ SetPhase(o, "accounted")
    /\ tasks' = [t \in Tasks |->
                   IF t = op[o].task /\ tasks[t] = op[o].chain THEN 0 ELSE tasks[t]]
    /\ UNCHANGED <<epoch, issued, cancels, drains, revoked, dropped>>

\* pending -= 1 and maybeCleanup().
Account(o) ==
    /\ op[o].phase = "settled"
    /\ SetPhase(o, "accounted")
    /\ tasks' = [t \in Tasks |->
                   IF t = op[o].task /\ tasks[t] = op[o].chain
                      /\ Pending(op[o].chain) = {o}
                   THEN 0 ELSE tasks[t]]
    /\ UNCHANGED <<epoch, issued, cancels, drains, revoked, dropped>>

QueuedOf(S) == {o \in OpIds : op[o].task \in S /\ op[o].phase = "queued"}

\* cancel(): the running operation completes, those behind it are skipped.
Cancel(t) ==
    /\ cancels < MaxCancels
    /\ tasks[t] # 0
    /\ cancels' = cancels + 1
    /\ epoch' = [epoch EXCEPT ![tasks[t]] = @ + 1]
    /\ tasks' = [tasks EXCEPT ![t] = IF Pending(tasks[t]) = {} THEN 0 ELSE @]
    /\ revoked' = revoked \cup QueuedOf({t})
    /\ UNCHANGED <<op, issued, drains, dropped>>

\* disposeAll(): cancel() on every task, then the map is cleared.
DisposeAll ==
    /\ cancels < MaxCancels
    /\ cancels' = cancels + 1
    /\ epoch' = [c \in OpIds |->
                   IF \E t \in Tasks : tasks[t] = c THEN epoch[c] + 1 ELSE epoch[c]]
    /\ tasks' = [t \in Tasks |-> 0]
    /\ revoked' = revoked \cup QueuedOf(Tasks)
    /\ dropped' = dropped \cup {c \in OpIds : \E t \in Tasks : tasks[t] = c}
    /\ UNCHANGED <<op, issued, drains>>

\* drain(): awaits the chain as it stands, then looks again.  Bound: one call per
\* task in the life of a process.
Drain(t) ==
    /\ drains[t].phase = "idle"
    /\ drains' = [drains EXCEPT ![t] =
                    [phase |-> IF tasks[t] = 0 THEN "done" ELSE "awaiting",
                     upto |-> IF tasks[t] = 0 THEN {} ELSE Pending(tasks[t])]]
    /\ UNCHANGED <<tasks, epoch, op, issued, cancels, revoked, dropped>>

DrainLap(t) ==
    /\ drains[t].phase = "awaiting"
    /\ \A o \in drains[t].upto : op[o].phase = "accounted"
    /\ drains' = [drains EXCEPT ![t] =
                    IF tasks[t] = 0 \/ Pending(tasks[t]) = {}
                    THEN [phase |-> "done", upto |-> {}]
                    ELSE [phase |-> "awaiting", upto |-> Pending(tasks[t])]]
    /\ UNCHANGED <<tasks, epoch, op, issued, cancels, revoked, dropped>>

\* The process dies: the queue lives in memory only.
QueueDies ==
    /\ op' = [o \in OpIds |-> Unborn]
    /\ issued' = 0
    /\ tasks' = [t \in Tasks |-> 0]
    /\ epoch' = [c \in OpIds |-> 0]
    /\ cancels' = 0
    /\ drains' = [t \in Tasks |-> NoDrain]
    /\ revoked' = {}
    /\ dropped' = {}
=============================================================================
