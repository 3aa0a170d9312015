----------------------- MODULE TaskPersistenceProofs -----------------------
(* Proofs about TaskPersistence, for any tasks, operations, cancellations and  *)
(* crashes.  First what one chain of the queue guarantees, then what the files  *)
(* of a session may look like.                                                *)
EXTENDS TaskPersistence, TLAPS

Live(o) == op[o].phase \in {"queued", "running", "settled"}

\* Operations are numbered in the order they were submitted, and only what was
\* submitted is named anywhere.
Numbered ==
    /\ \A o \in OpIds : o > issued <=> op[o].phase = "unborn"
    /\ \A o \in OpIds : op[o].phase # "unborn" => op[o].task \in Tasks
    /\ \A t \in Tasks : tasks[t] <= issued /\ file[t].by <= issued
    /\ \A c \in dropped : c <= issued
    /\ \A o \in revoked : o <= issued
    /\ \A pair \in lost : pair[1] <= issued /\ pair[2] <= issued
    /\ \A c \in OpIds : epoch[c] <= cancels

\* Of the chains of a task only the one in the map is alive, besides those that
\* disposeAll() dropped.
OneChain ==
    /\ \A o \in OpIds : op[o].phase \in {"queued", "settled"} => op[o].chain # 0
    /\ \A o \in OpIds : Live(o) /\ op[o].chain # 0 =>
         tasks[op[o].task] = op[o].chain \/ op[o].chain \in dropped
    /\ \A t \in Tasks : tasks[t] \notin dropped

\* An operation runs once those before it in its chain are over.
InTurn ==
    \A o, p \in OpIds :
        /\ op[o].phase = "running" /\ op[o].chain # 0
        /\ p < o /\ op[p].chain = op[o].chain
        => ~Unsettled(p)

\* A cancelled operation can only be skipped: its chain was dropped or its epoch
\* has passed.
Spent ==
    /\ \A o \in OpIds : op[o].chain # 0 => op[o].epoch <= epoch[op[o].chain]
    /\ \A o \in OpIds : op[o].phase = "queued" =>
          \A t \in Tasks : file[t].by # o
    /\ \A o \in revoked :
          /\ op[o].phase \in {"queued", "settled", "accounted"}
          /\ op[o].phase = "queued" => op[o].chain \in dropped
                                       \/ op[o].epoch < epoch[op[o].chain]
          /\ \A t \in Tasks : file[t].by # o

\* A task this session has not worked on yet has no chain: the preamble that
\* seeds a plan opens its first.
NoChainYet ==
    \A t \in Tasks : host[t] \in {"none", "created"} => tasks[t] = 0

Chained == Numbered /\ OneChain /\ InTurn /\ Spent /\ NoChainYet
QInv == TypeOK /\ Chained

---------------------------------------------------------------------------
\* How a step changes the operations: one changes its phase, or one is new.

MovedTo(o, phase) ==
    /\ op' \in [OpIds -> Op]
    /\ op'[o].phase = phase
    /\ \A p \in OpIds : /\ op'[p].task = op[p].task
                        /\ op'[p].chain = op[p].chain
                        /\ op'[p].epoch = op[p].epoch
                        /\ p # o => op'[p] = op[p]

Submitted(o, x) ==
    /\ op' \in [OpIds -> Op]
    /\ op'[o] = x
    /\ \A p \in OpIds : p # o => op'[p] = op[p]

LEMMA Moves ==
  ASSUME TypeOK, NEW o \in OpIds, NEW phase \in Phases, SetPhase(o, phase)
  PROVE  MovedTo(o, phase)
<1>1. op \in [OpIds -> Op]
  BY DEF TypeOK, QueueTypeOK
<1>2. [op[o] EXCEPT !.phase = phase] \in Op
  BY <1>1 DEF Op
<1> QED BY <1>1, <1>2 DEF SetPhase, MovedTo, Op

LEMMA Submits ==
  ASSUME TypeOK, NEW o \in OpIds, NEW x \in Op, op' = [op EXCEPT ![o] = x]
  PROVE  Submitted(o, x)
BY DEF TypeOK, QueueTypeOK, Submitted

LEMMA UnqueuedTyped ==
  ASSUME NEW t \in Tasks PROVE Unqueued(t) \in Op
BY TaskQueueConstants DEF Unqueued, Op, Phases, Chains

LEMMA QueuedTyped ==
  ASSUME TypeOK, NEW t \in Tasks, NEW c \in OpIds
  PROVE  [task |-> t, chain |-> c, epoch |-> epoch[c], phase |-> "queued"] \in Op
<1>1. epoch[c] \in 0..MaxCancels
  BY DEF TypeOK, QueueTypeOK
<1>2. c \in Chains
  BY TaskQueueConstants DEF OpIds, Chains
<1> QED BY <1>1, <1>2 DEF Op, Phases

LEMMA SubmitsDirect ==
  ASSUME TypeOK, NEW t \in Tasks, NEW k \in Kinds, Direct(t, k)
  PROVE  /\ issued + 1 \in OpIds
         /\ Submitted(issued + 1, Unqueued(t))
         /\ issued' = issued + 1
         /\ kind' \in [OpIds -> Kinds] /\ held' \in [OpIds -> Contents]
         /\ kind'[issued + 1] = k /\ held'[issued + 1] = file[t]
         /\ \A p \in OpIds : p # issued + 1 => kind'[p] = kind[p] /\ held'[p] = held[p]
         /\ UNCHANGED <<tasks, epoch, cancels, drains, revoked, dropped>>
<1>1. issued + 1 \in OpIds
  BY TaskQueueConstants DEF TypeOK, QueueTypeOK, Direct, OpIds
<1>2. Submitted(issued + 1, Unqueued(t))
  BY <1>1, UnqueuedTyped, Submits DEF Direct
<1> QED BY <1>1, <1>2 DEF Direct, Issue, TypeOK

LEMMA SubmitsQueued ==
  ASSUME TypeOK, NEW t \in Tasks, Run(t)
  PROVE  \E c \in OpIds :
           /\ issued + 1 \in OpIds
           /\ c = IF tasks[t] = 0 THEN issued + 1 ELSE tasks[t]
           /\ Submitted(issued + 1, [task |-> t, chain |-> c, epoch |-> epoch[c],
                                     phase |-> "queued"])
           /\ issued' = issued + 1
           /\ tasks' = [tasks EXCEPT ![t] = c]
           /\ UNCHANGED <<epoch, cancels, drains, revoked, dropped>>
<1> DEFINE c == IF tasks[t] = 0 THEN issued + 1 ELSE tasks[t]
           x == [task |-> t, chain |-> c, epoch |-> epoch[c], phase |-> "queued"]
<1>1. issued + 1 \in OpIds /\ c \in OpIds
  BY TaskQueueConstants DEF TypeOK, QueueTypeOK, Run, OpIds, Chains
<1>2. x \in Op
  BY <1>1, QueuedTyped
<1>3. op' = [op EXCEPT ![issued + 1] = x] /\ issued' = issued + 1
      /\ tasks' = [tasks EXCEPT ![t] = c]
      /\ UNCHANGED <<epoch, cancels, drains, revoked, dropped>>
  BY DEF Run
<1>4. Submitted(issued + 1, x)
  BY <1>1, <1>2, <1>3, Submits
<1> QED BY <1>1, <1>3, <1>4

\* The preamble that seeds a plan submits two.
Both(t) ==
    LET seed == issued + 1
        user == issued + 2
    IN  /\ seed \in OpIds /\ user \in OpIds
        /\ op' \in [OpIds -> Op]
        /\ op'[seed] = [task |-> t, chain |-> seed, epoch |-> epoch[seed],
                        phase |-> "queued"]
        /\ op'[user] = Unqueued(t)
        /\ \A p \in OpIds : p # seed /\ p # user => op'[p] = op[p]
        /\ issued' = user
        /\ tasks' = [tasks EXCEPT ![t] = seed]
        /\ kind' \in [OpIds -> Kinds] /\ held' \in [OpIds -> Contents]
        /\ held'[user] = file[t]
        /\ \A p \in OpIds : p # seed /\ p # user => kind'[p] = kind[p]
        /\ \A p \in OpIds : p # user => held'[p] = held[p]
        /\ UNCHANGED <<epoch, cancels, drains, revoked, dropped>>

LEMMA SubmitsBoth ==
  ASSUME TypeOK, NEW t \in Tasks, Preamble(t), ~Direct(t, "user")
  PROVE  Both(t)
<1>1. issued + 1 \in OpIds /\ issued + 2 \in OpIds
  BY TaskQueueConstants DEF TypeOK, QueueTypeOK, Preamble, OpIds
<1>2. [task |-> t, chain |-> issued + 1, epoch |-> epoch[issued + 1],
       phase |-> "queued"] \in Op
  BY <1>1, QueuedTyped
<1>3. Unqueued(t) \in Op
  BY UnqueuedTyped
<1>4. op \in [OpIds -> Op] /\ kind \in [OpIds -> Kinds] /\ held \in [OpIds -> Contents]
      /\ file[t] \in Contents /\ issued \in Nat
  BY DEF TypeOK, QueueTypeOK
<1>5. /\ issued' = issued + 2
      /\ op' = [op EXCEPT ![issued + 1] = [task |-> t, chain |-> issued + 1,
                                           epoch |-> epoch[issued + 1], phase |-> "queued"],
                          ![issued + 2] = Unqueued(t)]
      /\ tasks' = [tasks EXCEPT ![t] = issued + 1]
      /\ kind' = [kind EXCEPT ![issued + 1] = "plan", ![issued + 2] = "user"]
      /\ held' = [held EXCEPT ![issued + 2] = file[t]]
      /\ UNCHANGED <<epoch, cancels, drains, revoked, dropped>>
  BY DEF Preamble
<1>6. /\ op' \in [OpIds -> Op]
      /\ op'[issued + 1] = [task |-> t, chain |-> issued + 1, epoch |-> epoch[issued + 1],
                            phase |-> "queued"]
      /\ op'[issued + 2] = Unqueued(t)
      /\ \A p \in OpIds : p # issued + 1 /\ p # issued + 2 => op'[p] = op[p]
  BY <1>1, <1>2, <1>3, <1>4, <1>5
<1>7. /\ kind' \in [OpIds -> Kinds] /\ held' \in [OpIds -> Contents]
      /\ held'[issued + 2] = file[t]
      /\ \A p \in OpIds : p # issued + 1 /\ p # issued + 2 => kind'[p] = kind[p]
      /\ \A p \in OpIds : p # issued + 2 => held'[p] = held[p]
  BY <1>1, <1>4, <1>5 DEF Kinds
<1> QED BY <1>1, <1>5, <1>6, <1>7 DEF Both

---------------------------------------------------------------------------
\* The initial state.

LEMMA InitQInv == Init => QInv
<1> SUFFICES ASSUME Init PROVE QInv
  OBVIOUS
<1> USE TaskQueueConstants, TaskPersistenceConstants DEF Init, QueueInit, Unborn, NoDrain, Absent
<1>1. TypeOK
  BY DEF TypeOK, QueueTypeOK, Op, DrainCall, Phases, Chains, OpIds, Contents, Record, Absent, Statuses, Kinds, Recovery
<1>2. Numbered
  BY DEF Numbered, OpIds
<1>3. OneChain /\ InTurn /\ Spent /\ NoChainYet
  BY DEF OneChain, InTurn, Spent, NoChainYet, Live, OpIds
<1> QED BY <1>1, <1>2, <1>3 DEF QInv, Chained

---------------------------------------------------------------------------
\* Types.

\* A step that leaves the queue alone.
LEMMA QueueSame ==
  ASSUME QueueTypeOK, UNCHANGED queueVars PROVE QueueTypeOK'
BY DEF QueueTypeOK, queueVars, Pending

\* One that moves an operation.
LEMMA MoveTyped ==
  ASSUME TypeOK, NEW o \in OpIds, NEW phase \in Phases, SetPhase(o, phase),
         UNCHANGED <<epoch, issued, cancels, drains, revoked, dropped>>,
         tasks' \in [Tasks -> Chains]
  PROVE  QueueTypeOK'
<1>1. op' \in [OpIds -> Op]
  BY Moves DEF MovedTo
<1> QED BY <1>1 DEF TypeOK, QueueTypeOK

LEMMA AccountTyped ==
  ASSUME TypeOK, NEW o \in OpIds, Account(o)
  PROVE  QueueTypeOK'
<1>1. 0 \in Chains
  BY TaskQueueConstants DEF Chains
<1>2. tasks' \in [Tasks -> Chains]
  BY <1>1 DEF Account, TypeOK, QueueTypeOK
<1> QED BY <1>2, MoveTyped DEF Account, Phases

LEMMA SubmitTyped ==
  ASSUME TypeOK, op' \in [OpIds -> Op], issued' \in 0..MaxOps,
         tasks' \in [Tasks -> Chains],
         UNCHANGED <<epoch, cancels, drains, revoked, dropped>>
  PROVE  QueueTypeOK'
BY DEF TypeOK, QueueTypeOK

LEMMA DirectTyped ==
  ASSUME TypeOK, NEW t \in Tasks, NEW k \in Kinds, Direct(t, k)
  PROVE  QueueTypeOK' /\ kind' \in [OpIds -> Kinds] /\ held' \in [OpIds -> Contents]
<1>1. issued' \in 0..MaxOps
  BY TaskQueueConstants DEF Direct, TypeOK, QueueTypeOK
<1>2. tasks' \in [Tasks -> Chains]
  BY DEF Direct, TypeOK, QueueTypeOK
<1> QED BY <1>1, <1>2, SubmitsDirect, SubmitTyped DEF Submitted

LEMMA RunTyped ==
  ASSUME TypeOK, NEW t \in Tasks, Run(t)
  PROVE  QueueTypeOK'
<1>1. PICK c \in OpIds :
           /\ Submitted(issued + 1, [task |-> t, chain |-> c, epoch |-> epoch[c],
                                     phase |-> "queued"])
           /\ tasks' = [tasks EXCEPT ![t] = c]
           /\ UNCHANGED <<epoch, cancels, drains, revoked, dropped>>
  BY SubmitsQueued
<1>2. tasks' \in [Tasks -> Chains]
  BY <1>1, TaskQueueConstants DEF TypeOK, QueueTypeOK, Chains, OpIds
<1>3. issued' \in 0..MaxOps
  BY TaskQueueConstants DEF Run, TypeOK, QueueTypeOK
<1> QED BY <1>1, <1>2, <1>3, SubmitTyped DEF Submitted

LEMMA BothTyped ==
  ASSUME TypeOK, NEW t \in Tasks, Both(t)
  PROVE  QueueTypeOK' /\ kind' \in [OpIds -> Kinds] /\ held' \in [OpIds -> Contents]
<1>1. tasks' \in [Tasks -> Chains]
  BY TaskQueueConstants DEF Both, TypeOK, QueueTypeOK, Chains, OpIds
<1>2. issued' \in 0..MaxOps
  BY TaskQueueConstants DEF Both, OpIds
<1> QED BY <1>1, <1>2, SubmitTyped DEF Both

LEMMA CancelTyped ==
  ASSUME TypeOK, Numbered, NEW t \in Tasks, Cancel(t)
  PROVE  QueueTypeOK'
<1>1. tasks[t] \in OpIds /\ cancels \in 0..MaxCancels /\ cancels < MaxCancels
      /\ epoch[tasks[t]] \in 0..MaxCancels /\ epoch[tasks[t]] <= cancels
  BY TaskQueueConstants DEF TypeOK, QueueTypeOK, Cancel, Chains, OpIds, Numbered
<1>2. epoch[tasks[t]] + 1 \in 0..MaxCancels /\ cancels + 1 \in 0..MaxCancels
  BY <1>1, TaskQueueConstants
<1>3. epoch' \in [OpIds -> 0..MaxCancels]
  BY <1>1, <1>2 DEF TypeOK, QueueTypeOK, Cancel
<1>4. tasks' \in [Tasks -> Chains]
  BY TaskQueueConstants DEF TypeOK, QueueTypeOK, Cancel, Chains
<1>5. revoked' \in SUBSET OpIds
  BY DEF TypeOK, QueueTypeOK, Cancel, QueuedOf
<1> QED BY <1>2, <1>3, <1>4, <1>5 DEF TypeOK, QueueTypeOK, Cancel

LEMMA DisposeTyped ==
  ASSUME TypeOK, Numbered, DisposeAll
  PROVE  QueueTypeOK'
<1>1. cancels \in 0..MaxCancels /\ cancels < MaxCancels
  BY TaskQueueConstants DEF TypeOK, QueueTypeOK, DisposeAll
<1>2. \A c \in OpIds : epoch[c] \in 0..MaxCancels /\ epoch[c] + 1 \in 0..MaxCancels
  BY <1>1, TaskQueueConstants DEF TypeOK, QueueTypeOK, Numbered
<1>3. epoch' \in [OpIds -> 0..MaxCancels]
  BY <1>2 DEF DisposeAll
<1>4. tasks' \in [Tasks -> Chains]
  BY TaskQueueConstants DEF DisposeAll, Chains
<1>5. revoked' \in SUBSET OpIds /\ dropped' \in SUBSET OpIds
  BY DEF TypeOK, QueueTypeOK, DisposeAll, QueuedOf
<1>6. cancels' \in 0..MaxCancels
  BY <1>1, TaskQueueConstants DEF DisposeAll
<1> QED BY <1>3, <1>4, <1>5, <1>6 DEF TypeOK, QueueTypeOK, DisposeAll

LEMMA DrainTyped ==
  ASSUME TypeOK, NEW t \in Tasks, Drain(t) \/ DrainLap(t)
  PROVE  QueueTypeOK'
<1>1. \A c : Pending(c) \in SUBSET OpIds
  BY DEF Pending
<1>2. drains' \in [Tasks -> DrainCall]
  BY <1>1 DEF TypeOK, QueueTypeOK, Drain, DrainLap, DrainCall
<1> QED BY <1>2 DEF TypeOK, QueueTypeOK, Drain, DrainLap

LEMMA DiesTyped ==
  ASSUME QueueDies PROVE QueueTypeOK'
BY TaskQueueConstants DEF QueueDies, QueueTypeOK, Unborn, NoDrain, Op, DrainCall, Phases, Chains, OpIds

\* The store's part is left alone.
LEMMA StoreSame ==
  ASSUME TypeOK, QueueTypeOK', QueueOnly PROVE TypeOK'
BY DEF TypeOK, QueueOnly, storeVars

LEMMA OverTyped ==
  ASSUME TypeOK, NEW o \in OpIds, NEW phase \in Phases, Over(o, phase)
  PROVE  QueueTypeOK'
<1>1. tasks' \in [Tasks -> Chains]
  BY DEF Over, Settle, TypeOK, QueueTypeOK
<1> QED BY <1>1, MoveTyped DEF Over, Settle, Phases

LEMMA WriteTyped ==
  ASSUME TypeOK, Numbered, NEW o \in OpIds, Write(o)
  PROVE  TypeOK'
<1> DEFINE t == op[o].task
           mine == held[o]
<1>1. QueueTypeOK'
  BY OverTyped DEF Write, Phases
<1>2. mine \in Contents /\ kind[o] \in Kinds /\ file \in [Tasks -> Contents]
      /\ o \in Chains
  BY TaskQueueConstants DEF TypeOK, OpIds, Chains
<1>3. ~Declines(kind[o], mine) => mine \in Record
  BY <1>2 DEF Declines, Contents
<1>4. ~Declines(kind[o], mine) => StatusAfter(kind[o], mine) \in Statuses
  BY <1>2, <1>3 DEF StatusAfter, Kinds, Statuses, Record
<1>5. file' \in [Tasks -> Contents]
  <2>1. CASE Declines(kind[o], mine)
    BY <1>2, <2>1 DEF Write
  <2>2. CASE ~Declines(kind[o], mine)
    <3>1. [by |-> o, status |-> StatusAfter(kind[o], mine)] \in Contents
      BY <1>2, <1>4, <2>2 DEF Contents, Record
    <3>2. file' = [file EXCEPT ![t] = [by |-> o, status |-> StatusAfter(kind[o], mine)]]
      BY <2>2 DEF Write
    <3> QED BY <1>2, <3>1, <3>2
  <2> QED BY <2>1, <2>2
<1>6. t \in Tasks
  BY DEF Write, Over, Settle, Numbered
<1>7. file[t].by \in Chains
  BY <1>2, <1>6, TaskQueueConstants DEF Contents, Record, Absent, Chains
<1>8. file[t].by \notin {0, mine.by} => <<file[t].by, o>> \in OpIds \X OpIds
  BY <1>7, TaskQueueConstants DEF Chains, OpIds
<1>9. lost' \in SUBSET (OpIds \X OpIds)
  BY <1>8 DEF Write, TypeOK
<1>10. host' \in [Tasks -> {"none", "created", "resuming", "resumed", "open", "ended"}]
  BY DEF Write, TypeOK
<1>11. held' \in [OpIds -> Contents]
  BY DEF Write, TypeOK, Contents
<1> QED BY <1>1, <1>5, <1>9, <1>10, <1>11 DEF Write, TypeOK

LEMMA RecordFacts ==
  ASSUME TypeOK
  PROVE  /\ Absent \in Contents /\ 0 \in Chains
         /\ \A s \in Statuses : [by |-> 0, status |-> s] \in Contents
         /\ \A t \in Tasks : file[t] \in Contents /\ [file[t] EXCEPT !.by = 0] \in Contents
         /\ \A o \in OpIds : o \in Chains
BY TaskQueueConstants DEF TypeOK, Contents, Record, Absent, Chains, Statuses, OpIds

LEMMA DirectKeepsTypes ==
  ASSUME TypeOK, NEW t \in Tasks, NEW k \in Kinds, Direct(t, k),
         UNCHANGED <<file, active, recovery, crashes, lost, discarded>>,
         host' \in [Tasks -> {"none", "created", "resuming", "resumed", "open", "ended"}]
  PROVE  TypeOK'
BY DirectTyped DEF TypeOK

LEMMA TypeStep ==
  ASSUME TypeOK, Numbered, [Next]_vars
  PROVE  TypeOK'
<1> DEFINE Stages == {"none", "created", "resuming", "resumed", "open", "ended"}
<1>0. /\ \A s \in Stages, t \in Tasks : [host EXCEPT ![t] = s] \in [Tasks -> Stages]
      /\ host \in [Tasks -> Stages]
  BY DEF TypeOK
<1>1. ASSUME NEW o \in OpIds, Start(o) PROVE TypeOK'
  <2>1. QueueTypeOK'
    BY <1>1, MoveTyped DEF Start, Begin, Phases, TypeOK, QueueTypeOK
  <2>2. op[o].task \in Tasks
    BY <1>1 DEF Start, Begin, Reached, Numbered
  <2>3. held' \in [OpIds -> Contents]
    BY <1>1, <2>2, RecordFacts DEF Start, TypeOK
  <2> QED BY <1>1, <2>1, <2>3 DEF Start, TypeOK
<1>2. ASSUME NEW o \in OpIds, Skips(o) PROVE TypeOK'
  BY <1>2, MoveTyped, StoreSame DEF Skips, Skip, Phases, TypeOK, QueueTypeOK
<1>3. ASSUME NEW o \in OpIds, Write(o) PROVE TypeOK'
  BY <1>3, WriteTyped
<1>4. ASSUME NEW o \in OpIds, WriteFails(o) PROVE TypeOK'
  <2>1. QueueTypeOK'
    BY <1>4, OverTyped DEF WriteFails, Phases
  <2>2. held' \in [OpIds -> Contents]
    BY <1>4, RecordFacts DEF WriteFails, TypeOK
  <2>3. recovery' \in Recovery
    BY <1>4 DEF WriteFails, TypeOK, Recovery
  <2> QED BY <1>4, <2>1, <2>2, <2>3 DEF WriteFails, TypeOK
<1>5. ASSUME NEW o \in OpIds, Accounts(o) PROVE TypeOK'
  BY <1>5, AccountTyped, StoreSame DEF Accounts
<1>6. ASSUME NEW t \in Tasks, Create(t) PROVE TypeOK'
  <2>1. file' \in [Tasks -> Contents]
    BY <1>6, RecordFacts DEF Create, TypeOK, Statuses
  <2> QED BY <1>0, <1>6, <2>1, QueueSame DEF Create, TypeOK
<1>7. ASSUME NEW t \in Tasks, Preamble(t) PROVE TypeOK'
  <2>1. CASE Direct(t, "user")
    BY <1>0, <1>7, <2>1, DirectKeepsTypes DEF Preamble, Kinds
  <2>2. CASE ~Direct(t, "user")
    BY <1>0, <1>7, <2>2, SubmitsBoth, BothTyped DEF Preamble, TypeOK
  <2> QED BY <2>1, <2>2
<1>8. ASSUME NEW t \in Tasks, Resume(t) PROVE TypeOK'
  BY <1>0, <1>8, DirectKeepsTypes DEF Resume, Kinds
<1>9. ASSUME NEW t \in Tasks, Resumed(t) PROVE TypeOK'
  BY <1>0, <1>9, QueueSame DEF Resumed, TypeOK
<1>10. ASSUME NEW t \in Tasks, Delete(t) PROVE TypeOK'
  <2>1. file' \in [Tasks -> Contents]
    BY <1>10, RecordFacts DEF Delete, TypeOK
  <2> QED BY <1>10, <2>1, QueueSame DEF Delete, TypeOK
<1>11. ASSUME NEW t \in Tasks, NEW k \in {"append", "interrupted", "completed"}, Event(t, k)
       PROVE  TypeOK'
  <2>1. QueueTypeOK'
    BY <1>11, RunTyped DEF Event
  <2>2. kind' \in [OpIds -> Kinds]
    BY <1>11 DEF Event, TypeOK, Kinds
  <2>3. host' \in [Tasks -> Stages]
    BY <1>0, <1>11 DEF Event
  <2> QED BY <1>11, <2>1, <2>2, <2>3 DEF Event, TypeOK
<1>12. ASSUME NEW t \in Tasks, Around(t) PROVE TypeOK'
  <2>1. host' \in [Tasks -> Stages]
    BY <1>0, <1>12 DEF Around
  <2> QED BY <1>12, <2>1, DirectKeepsTypes DEF Around, Kinds
<1>13. ASSUME NEW t \in Tasks, Cancel(t) /\ QueueOnly PROVE TypeOK'
  BY <1>13, CancelTyped, StoreSame
<1>14. ASSUME NEW t \in Tasks, (Drain(t) \/ DrainLap(t)) /\ QueueOnly PROVE TypeOK'
  BY <1>14, DrainTyped, StoreSame
<1>15. ASSUME NEW t \in Tasks, List(t) PROVE TypeOK'
  <2>1. recovery' \in Recovery
    BY <1>15 DEF List, TypeOK, Recovery
  <2> QED BY <1>15, <2>1, QueueSame DEF List, TypeOK
<1>16. ASSUME NEW t \in Tasks, Mark(t) PROVE TypeOK'
  <2>1. QueueTypeOK' /\ kind' \in [OpIds -> Kinds] /\ held' \in [OpIds -> Contents]
    BY <1>16, DirectTyped DEF Mark, Kinds
  <2>2. issued + 1 \in Chains
    BY <1>16, RecordFacts, SubmitsDirect DEF Mark, Kinds
  <2>3. recovery' \in Recovery
    BY <1>16, <2>2 DEF Mark, TypeOK, Recovery
  <2> QED BY <1>16, <2>1, <2>3 DEF Mark, TypeOK
<1>17. CASE DisposeAll /\ QueueOnly
  BY <1>17, DisposeTyped, StoreSame
<1>18. CASE Crash
  <2>1. QueueTypeOK'
    BY <1>18, DiesTyped DEF Crash
  <2>2. file' \in [Tasks -> Contents]
    BY <1>18, RecordFacts DEF Crash
  <2>3. held' \in [OpIds -> Contents] /\ kind' \in [OpIds -> Kinds]
    BY <1>18, RecordFacts DEF Crash, Kinds
  <2>4. recovery' \in Recovery /\ host' \in [Tasks -> Stages]
    BY <1>18, RecordFacts DEF Crash, Recovery
  <2>5. crashes' \in 0..MaxCrashes
    BY <1>18, TaskPersistenceConstants DEF Crash, TypeOK
  <2> QED BY <1>18, <2>1, <2>2, <2>3, <2>4, <2>5 DEF Crash, TypeOK
<1>19. CASE Recovered
  <2>1. recovery' \in Recovery
    BY <1>19 DEF Recovered, TypeOK, Recovery
  <2> QED BY <1>19, <2>1, QueueSame DEF Recovered, TypeOK
<1>20. CASE UNCHANGED vars
  BY <1>20, QueueSame DEF vars, storeVars, TypeOK
<1> QED BY <1>1, <1>2, <1>3, <1>4, <1>5, <1>6, <1>7, <1>8, <1>9, <1>10, <1>11, <1>12,
          <1>13, <1>14, <1>15, <1>16, <1>17, <1>18, <1>19, <1>20 DEF Next, Drains

---------------------------------------------------------------------------
\* The queue, step by step.  No file comes to be written by an operation that is
\* not at work.
FilesKeep == \A t \in Tasks : file'[t].by \in {0, file[t].by}

LEMMA Numbers ==
  ASSUME TypeOK
  PROVE  /\ issued \in Nat /\ 0 \notin OpIds
         /\ \A t \in Tasks : tasks[t] \in Nat /\ file[t].by \in Nat
         /\ \A o \in OpIds : op[o].chain \in Nat /\ op[o].epoch \in Nat /\ epoch[o] \in Nat
                             /\ op[o].phase \in Phases
         /\ \A o \in OpIds : op[o].chain # 0 => op[o].chain \in OpIds
         /\ \A t \in Tasks : tasks[t] # 0 => tasks[t] \in OpIds
         /\ \A t \in Tasks : file[t].by # 0 => file[t].by \in OpIds
<1>1. \A t \in Tasks : file[t].by \in Chains
  BY TaskQueueConstants DEF TypeOK, Contents, Record, Absent, Chains
<1> QED BY <1>1, TaskQueueConstants DEF TypeOK, QueueTypeOK, Op, Chains, OpIds

LEMMA QuietChained ==
  ASSUME QInv, FilesKeep, UNCHANGED <<op, tasks, epoch, issued, cancels, revoked, dropped>>,
         lost' = lost,
         \A t \in Tasks : host'[t] \in {"none", "created"} => host[t] \in {"none", "created"}
  PROVE  Chained'
<1> USE DEF QInv, Chained
<1>1. Numbered'
  BY Numbers DEF Numbered, FilesKeep
<1>2. OneChain' /\ InTurn'
  BY DEF OneChain, InTurn, Live, Unsettled
<1>3. Spent'
  BY Numbers DEF Spent, FilesKeep, TypeOK, QueueTypeOK
<1>4. NoChainYet'
  BY DEF NoChainYet
<1> QED BY <1>1, <1>2, <1>3, <1>4

\* An operation moves on.
Advances(o, phase) ==
    /\ MovedTo(o, phase)
    /\ UNCHANGED <<epoch, issued, cancels, revoked, dropped>>
    /\ op[o].phase # "unborn"
    /\ CASE phase = "running" -> Reached(o) /\ Current(o)
         [] phase = "settled" -> op[o].phase \in {"queued", "running"} /\ op[o].chain # 0
         [] phase = "accounted" -> \/ op[o].phase = "settled"
                                   \/ op[o].phase = "running" /\ op[o].chain = 0
         [] phase = "thrown" -> op[o].phase = "running" /\ op[o].chain = 0
    /\ \A t \in Tasks :
          \/ tasks'[t] = tasks[t]
          \/ tasks'[t] = 0 /\ \A p \in OpIds : op[p].chain = tasks[t] /\ Live(p)
                                               => p = o /\ phase = "accounted"
    /\ \A t \in Tasks :
          \/ file'[t].by = file[t].by
          \/ file'[t].by = o /\ op[o].phase = "running" /\ phase # "running"
    /\ \A pair \in lost' : \/ pair \in lost
                           \/ pair[2] = o /\ \E t \in Tasks : pair[1] = file[t].by
    /\ host' = host \/ \E t \in Tasks : host' = [host EXCEPT ![t] = "resumed"]

LEMMA AdvanceChained ==
  ASSUME QInv, NEW o \in OpIds,
         NEW phase \in {"running", "settled", "accounted", "thrown"}, Advances(o, phase)
  PROVE  Chained'
<1> USE DEF QInv, Chained
<1>1. Numbered'
  BY Numbers DEF Numbered, Advances, MovedTo, OpIds
<1>2. OneChain'
  <2>1. ASSUME NEW p \in OpIds, op'[p].phase \in {"queued", "settled"}
        PROVE  op'[p].chain # 0
    <3>1. CASE p = o
      BY <2>1, <3>1 DEF OneChain, Advances, MovedTo
    <3>2. CASE p # o
      BY <2>1, <3>2 DEF OneChain, Advances, MovedTo
    <3> QED BY <3>1, <3>2
  <2>2. ASSUME NEW p \in OpIds, Live(p)', op'[p].chain # 0
        PROVE  tasks'[op'[p].task] = op'[p].chain \/ op'[p].chain \in dropped'
    <3>1. Live(p) /\ ~(p = o /\ phase = "accounted")
      BY <2>2 DEF Live, Advances, MovedTo, Reached
    <3>2. op[p].task \in Tasks /\ op[p].chain # 0
      BY <2>2, <3>1 DEF Numbered, Live, Advances, MovedTo
    <3>3. tasks[op[p].task] = op[p].chain \/ op[p].chain \in dropped
      BY <3>1, <3>2 DEF OneChain
    <3> QED BY <3>1, <3>2, <3>3 DEF Advances, MovedTo
  <2>3. \A t \in Tasks : tasks'[t] \notin dropped'
    BY Numbers DEF OneChain, Advances, TypeOK, QueueTypeOK
  <2> QED BY <2>1, <2>2, <2>3 DEF OneChain
<1>3. InTurn'
  <2> SUFFICES ASSUME NEW p \in OpIds, NEW q \in OpIds,
                      op'[p].phase = "running", op'[p].chain # 0,
                      q < p, op'[q].chain = op'[p].chain
               PROVE  ~Unsettled(q)'
    BY DEF InTurn
  <2>1. op[q].chain = op[p].chain /\ op[p].chain # 0
    BY DEF Advances, MovedTo
  <2>2. ~Unsettled(q)
    BY <2>1 DEF InTurn, Advances, MovedTo, Reached
  <2>3. q # p
    BY DEF OpIds
  <2> QED BY <2>2, <2>3 DEF Unsettled, Advances, MovedTo, Reached
<1>4. Spent'
  <2>1. \A p \in OpIds : op'[p].chain # 0 => op'[p].epoch <= epoch'[op'[p].chain]
    BY DEF Spent, Advances, MovedTo
  <2>2. \A p \in OpIds : op'[p].phase = "queued" => p # o /\ op[p].phase = "queued"
    BY DEF Advances, MovedTo
  <2>3. \A p \in OpIds : op'[p].phase = "queued" => \A t \in Tasks : file'[t].by # p
    BY <2>2 DEF Spent, Advances
  <2>4. ASSUME NEW p \in revoked'
        PROVE  /\ op'[p].phase \in {"queued", "settled", "accounted"}
               /\ op'[p].phase = "queued" => op'[p].chain \in dropped'
                                             \/ op'[p].epoch < epoch'[op'[p].chain]
               /\ \A t \in Tasks : file'[t].by # p
    <3>1. p \in revoked /\ p \in OpIds
      BY DEF Advances, TypeOK, QueueTypeOK
    <3>2. CASE p # o
      BY <3>1, <3>2 DEF Spent, Advances, MovedTo
    <3>3. CASE p = o
      <4>1. op[o].phase \in {"queued", "settled", "accounted"}
        BY <3>1, <3>3 DEF Spent
      <4>2. phase # "running"
        <5> SUFFICES ASSUME phase = "running" PROVE FALSE
          OBVIOUS
        <5>1. op[o].phase = "queued" /\ tasks[op[o].task] = op[o].chain
              /\ epoch[op[o].chain] = op[o].epoch
          BY DEF Advances, Reached, Current
        <5>2. op[o].task \in Tasks /\ op[o].chain \notin dropped
          BY <5>1 DEF Numbered, OneChain
        <5>3. op[o].epoch < epoch[op[o].chain]
          BY <3>1, <3>3, <5>1, <5>2 DEF Spent
        <5>4. op[o].chain \in OpIds
          BY <5>1, Numbers DEF OneChain
        <5> QED BY <5>1, <5>3, <5>4, Numbers
      <4>3. phase \in {"settled", "accounted"}
        BY <4>1, <4>2 DEF Advances
      <4>4. \A t \in Tasks : file'[t].by # o
        BY <3>1, <3>3, <4>1 DEF Spent, Advances
      <4> QED BY <3>3, <4>3, <4>4 DEF Advances, MovedTo
    <3> QED BY <3>2, <3>3
  <2> QED BY <2>1, <2>3, <2>4 DEF Spent
<1>5. NoChainYet'
  BY DEF NoChainYet, Advances, TypeOK
<1> QED BY <1>1, <1>2, <1>3, <1>4, <1>5

\* An operation is new: outside the queue, or behind what its chain holds.
Joins(t, x) ==
    /\ Submitted(issued + 1, x)
    /\ issued + 1 \in OpIds
    /\ issued' = issued + 1
    /\ UNCHANGED <<file, lost, epoch, cancels, revoked, dropped>>
    /\ \/ /\ x = Unqueued(t) /\ tasks' = tasks
          /\ \A u \in Tasks : host'[u] \in {"none", "created"} => host[u] \in {"none", "created"}
       \/ \E c \in OpIds :
             /\ c = IF tasks[t] = 0 THEN issued + 1 ELSE tasks[t]
             /\ x = [task |-> t, chain |-> c, epoch |-> epoch[c], phase |-> "queued"]
             /\ tasks' = [tasks EXCEPT ![t] = c]
             /\ host'[t] \notin {"none", "created"}
             /\ \A u \in Tasks \ {t} : host'[u] = host[u]

LEMMA JoinNumbered ==
  ASSUME QInv, NEW t \in Tasks, NEW x, Joins(t, x)
  PROVE  Numbered' /\ OneChain'
<1> USE DEF QInv, Chained
<1> DEFINE new == issued + 1
<1>1. /\ op'[new].task = t /\ op'[new].phase \in {"queued", "running"}
      /\ op'[new].phase = "queued" => op'[new].chain # 0
      /\ op'[new].chain # 0 => tasks'[t] = op'[new].chain
  BY Numbers DEF Joins, Submitted, Unqueued, TypeOK, QueueTypeOK
<1>2. \A u \in Tasks : \/ tasks'[u] = tasks[u]
                       \/ u = t /\ tasks[t] = 0 /\ tasks'[t] = new
  <2>1. CASE tasks' = tasks
    BY <2>1
  <2>2. CASE tasks' = [tasks EXCEPT ![t] = IF tasks[t] = 0 THEN new ELSE tasks[t]]
    <3>1. tasks \in [Tasks -> Chains]
      BY DEF TypeOK, QueueTypeOK
    <3> QED BY <2>2, <3>1
  <2>3. \/ tasks' = tasks
        \/ tasks' = [tasks EXCEPT ![t] = IF tasks[t] = 0 THEN new ELSE tasks[t]]
    BY DEF Joins
  <2> QED BY <2>1, <2>2, <2>3
<1>3. \A p \in OpIds : p # new => op'[p] = op[p]
  BY DEF Joins, Submitted
<1>4. Numbered'
  <2>1. \A o \in OpIds : o > issued' <=> op'[o].phase = "unborn"
    BY <1>1, <1>3, Numbers DEF Numbered, Joins, OpIds
  <2>2. \A o \in OpIds : op'[o].phase # "unborn" => op'[o].task \in Tasks
    BY <1>1, <1>3 DEF Numbered
  <2>3. \A u \in Tasks : tasks'[u] <= issued' /\ file'[u].by <= issued'
    BY <1>2, Numbers DEF Numbered, Joins
  <2>4. /\ \A c \in dropped' : c <= issued'
        /\ \A o \in revoked' : o <= issued'
        /\ \A pair \in lost' : pair[1] <= issued' /\ pair[2] <= issued'
        /\ \A c \in OpIds : epoch'[c] <= cancels'
    <3>1. /\ \A c \in dropped : c \in Int
          /\ \A o \in revoked : o \in Int
          /\ \A pair \in lost : pair[1] \in Int /\ pair[2] \in Int
      BY DEF TypeOK, QueueTypeOK, OpIds
    <3> QED BY <3>1, Numbers DEF Numbered, Joins
  <2> QED BY <2>1, <2>2, <2>3, <2>4 DEF Numbered
<1>5. new \notin dropped
  BY Numbers DEF Numbered
<1>6. OneChain'
  <2>1. \A p \in OpIds : op'[p].phase \in {"queued", "settled"} => op'[p].chain # 0
    BY <1>1, <1>3 DEF OneChain
  <2>2. ASSUME NEW p \in OpIds, Live(p)', op'[p].chain # 0
        PROVE  tasks'[op'[p].task] = op'[p].chain \/ op'[p].chain \in dropped'
    <3>1. CASE p = new
      BY <1>1, <2>2, <3>1
    <3>2. CASE p # new
      <4>1. op'[p] = op[p] /\ Live(p)
        BY <1>3, <2>2, <3>2 DEF Live
      <4>2. op[p].task \in Tasks
        BY <4>1 DEF Numbered, Live
      <4> QED BY <1>2, <2>2, <4>1, <4>2 DEF OneChain, Joins
    <3> QED BY <3>1, <3>2
  <2>3. \A u \in Tasks : tasks'[u] \notin dropped'
    BY <1>2, <1>5 DEF OneChain, Joins
  <2> QED BY <2>1, <2>2, <2>3 DEF OneChain
<1> QED BY <1>4, <1>6

LEMMA JoinChained ==
  ASSUME QInv, NEW t \in Tasks, NEW x, Joins(t, x)
  PROVE  Chained'
<1> USE DEF QInv, Chained
<1> DEFINE new == issued + 1
<1>1. Numbered' /\ OneChain'
  BY JoinNumbered
<1>2. \A p \in OpIds : p # new => op'[p] = op[p]
  BY DEF Joins, Submitted
<1>3. new \in OpIds /\ (op'[new].phase = "queued" \/ op'[new].chain = 0)
  BY DEF Joins, Submitted, Unqueued
<1>4. \A p \in OpIds : p > new => op[p].phase = "unborn"
  BY Numbers DEF Numbered, OpIds
<1>5. InTurn'
  <2> SUFFICES ASSUME NEW p \in OpIds, NEW q \in OpIds,
                      op'[p].phase = "running", op'[p].chain # 0,
                      q < p, op'[q].chain = op'[p].chain
               PROVE  ~Unsettled(q)'
    BY DEF InTurn
  <2>1. p # new /\ op'[p] = op[p]
    BY <1>2, <1>3
  <2>2. q # new
    BY <1>4, <2>1
  <2> QED BY <1>2, <2>1, <2>2 DEF InTurn, Unsettled
<1>6. Spent'
  <2>1. op'[new].chain # 0 => op'[new].epoch = epoch'[op'[new].chain]
    BY DEF Joins, Submitted, Unqueued
  <2>2. \A p \in OpIds : op'[p].chain # 0 => op'[p].epoch <= epoch'[op'[p].chain]
    <3>1. op'[new].chain # 0 => op'[new].chain \in OpIds
      BY DEF Joins, Submitted, Unqueued
    <3> QED BY <1>2, <2>1, <3>1, Numbers DEF Spent, Joins
  <2>3. \A t1 \in Tasks : file'[t1].by # new
    BY Numbers DEF Numbered, Joins
  <2>4. \A p \in revoked' : p \in OpIds /\ p # new
    BY Numbers DEF Numbered, Joins, TypeOK, QueueTypeOK
  <2>5. \A p \in OpIds : op'[p].phase = "queued" => \A t1 \in Tasks : file'[t1].by # p
    BY <1>2, <2>3 DEF Spent, Joins
  <2>6. ASSUME NEW p \in revoked'
        PROVE  /\ op'[p].phase \in {"queued", "settled", "accounted"}
               /\ op'[p].phase = "queued" => op'[p].chain \in dropped'
                                             \/ op'[p].epoch < epoch'[op'[p].chain]
               /\ \A t1 \in Tasks : file'[t1].by # p
    BY <1>2, <2>4 DEF Spent, Joins
  <2> QED BY <2>2, <2>5, <2>6 DEF Spent
<1>7. NoChainYet'
  BY DEF NoChainYet, Joins, TypeOK, QueueTypeOK
<1> QED BY <1>1, <1>5, <1>6, <1>7

\* The preamble that seeds a plan: the chain is the task's first.
LEMMA BothChained ==
  ASSUME QInv, NEW t \in Tasks, Both(t), host[t] = "created",
         host' = [host EXCEPT ![t] = "open"], UNCHANGED <<file, lost>>
  PROVE  Chained'
<1> USE DEF QInv, Chained
<1> DEFINE seed == issued + 1
           user == issued + 2
<1>1. /\ op'[seed].task = t /\ op'[seed].phase = "queued"
      /\ op'[seed].chain = seed /\ op'[seed].epoch = epoch[seed]
      /\ op'[user].task = t /\ op'[user].phase = "running" /\ op'[user].chain = 0
      /\ seed \in OpIds /\ user \in OpIds /\ issued' = user
  BY DEF Both, Unqueued
<1>2. \A p \in OpIds : p # seed /\ p # user => op'[p] = op[p]
  BY DEF Both
<1>3. tasks[t] = 0 /\ tasks'[t] = seed /\ \A u \in Tasks : u # t => tasks'[u] = tasks[u]
  BY DEF NoChainYet, Both, TypeOK, QueueTypeOK
<1>4. UNCHANGED <<epoch, cancels, revoked, dropped, file, lost>>
  BY DEF Both
<1>5. /\ seed \notin dropped
      /\ \A p \in revoked : p \in OpIds /\ p # seed /\ p # user
      /\ \A p \in OpIds : p > user => op[p].phase = "unborn"
      /\ \A u \in Tasks : file[u].by # seed /\ file[u].by # user
      /\ seed # user
  <2>1. seed \notin dropped
    BY Numbers DEF Numbered
  <2>2. \A p \in revoked : p \in OpIds /\ p # seed /\ p # user
    BY Numbers DEF Numbered, TypeOK, QueueTypeOK
  <2>3. \A p \in OpIds : p > user => op[p].phase = "unborn"
    BY Numbers DEF Numbered, OpIds
  <2>4. \A u \in Tasks : file[u].by # seed /\ file[u].by # user
    BY Numbers DEF Numbered
  <2> QED BY <2>1, <2>2, <2>3, <2>4, Numbers
<1>6. Numbered'
  <2>1. \A o \in OpIds : o > issued' <=> op'[o].phase = "unborn"
    BY <1>1, <1>2, Numbers DEF Numbered, OpIds
  <2>2. \A o \in OpIds : op'[o].phase # "unborn" => op'[o].task \in Tasks
    BY <1>1, <1>2 DEF Numbered
  <2>3. \A u \in Tasks : tasks'[u] <= issued' /\ file'[u].by <= issued'
    BY <1>1, <1>3, <1>4, Numbers DEF Numbered
  <2>4. /\ \A c \in dropped' : c <= issued'
        /\ \A o \in revoked' : o <= issued'
        /\ \A pair \in lost' : pair[1] <= issued' /\ pair[2] <= issued'
        /\ \A c \in OpIds : epoch'[c] <= cancels'
    <3>1. /\ \A c \in dropped : c \in Int
          /\ \A o \in revoked : o \in Int
          /\ \A pair \in lost : pair[1] \in Int /\ pair[2] \in Int
      BY DEF TypeOK, QueueTypeOK, OpIds
    <3> QED BY <1>1, <1>4, <3>1, Numbers DEF Numbered
  <2> QED BY <2>1, <2>2, <2>3, <2>4 DEF Numbered
<1>7. OneChain'
  <2>1. \A p \in OpIds : op'[p].phase \in {"queued", "settled"} => op'[p].chain # 0
    BY <1>1, <1>2, Numbers DEF OneChain
  <2>2. ASSUME NEW p \in OpIds, Live(p)', op'[p].chain # 0
        PROVE  tasks'[op'[p].task] = op'[p].chain \/ op'[p].chain \in dropped'
    <3>1. CASE p = seed
      BY <1>1, <1>3, <3>1
    <3>2. CASE p = user
      BY <1>1, <2>2, <3>2
    <3>3. CASE p # seed /\ p # user
      <4>1. op'[p] = op[p] /\ Live(p)
        BY <1>2, <2>2, <3>3 DEF Live
      <4>2. op[p].task \in Tasks
        BY <4>1 DEF Numbered, Live
      <4> QED BY <1>3, <1>4, <2>2, <4>1, <4>2 DEF OneChain
    <3> QED BY <3>1, <3>2, <3>3
  <2>3. \A u \in Tasks : tasks'[u] \notin dropped'
    BY <1>3, <1>4, <1>5 DEF OneChain
  <2> QED BY <2>1, <2>2, <2>3 DEF OneChain
<1>8. InTurn'
  <2> SUFFICES ASSUME NEW p \in OpIds, NEW q \in OpIds,
                      op'[p].phase = "running", op'[p].chain # 0,
                      q < p, op'[q].chain = op'[p].chain
               PROVE  ~Unsettled(q)'
    BY DEF InTurn
  <2>1. p # seed /\ p # user /\ op'[p] = op[p]
    BY <1>1, <1>2
  <2>2. p <= issued
    BY <2>1, Numbers DEF Numbered, OpIds
  <2>3. q # seed /\ q # user
    BY <2>2, Numbers DEF OpIds
  <2> QED BY <1>2, <2>1, <2>3 DEF InTurn, Unsettled
<1>9. Spent'
  <2>1. \A p \in OpIds : op'[p].chain # 0 => op'[p].epoch <= epoch'[op'[p].chain]
    BY <1>1, <1>2, <1>4, Numbers DEF Spent
  <2>2. \A p \in OpIds : op'[p].phase = "queued" => \A t1 \in Tasks : file'[t1].by # p
    BY <1>1, <1>2, <1>4, <1>5 DEF Spent
  <2>3. ASSUME NEW p \in revoked'
        PROVE  /\ op'[p].phase \in {"queued", "settled", "accounted"}
               /\ op'[p].phase = "queued" => op'[p].chain \in dropped'
                                             \/ op'[p].epoch < epoch'[op'[p].chain]
               /\ \A t1 \in Tasks : file'[t1].by # p
    BY <1>2, <1>4, <1>5 DEF Spent
  <2> QED BY <2>1, <2>2, <2>3 DEF Spent
<1>10. NoChainYet'
  BY <1>3 DEF NoChainYet, TypeOK
<1> QED BY <1>6, <1>7, <1>8, <1>9, <1>10

LEMMA CancelChained ==
  ASSUME QInv, NEW t \in Tasks, Cancel(t), QueueOnly
  PROVE  Chained'
<1> USE DEF QInv, Chained
<1> DEFINE c == tasks[t]
<1>0. /\ c \in OpIds /\ epoch'[c] = epoch[c] + 1 /\ \A d \in OpIds : d # c => epoch'[d] = epoch[d]
      /\ cancels' = cancels + 1 /\ cancels \in Nat
      /\ UNCHANGED <<op, issued, dropped, file, lost, host>>
      /\ revoked' = revoked \cup QueuedOf({t})
  BY Numbers DEF Cancel, QueueOnly, storeVars, TypeOK, QueueTypeOK
<1>1. \A u \in Tasks : \/ tasks'[u] = tasks[u]
                       \/ u = t /\ tasks'[u] = 0 /\ Pending(c) = {}
  <2>1. tasks' = [tasks EXCEPT ![t] = IF Pending(c) = {} THEN 0 ELSE @]
    BY DEF Cancel
  <2> QED BY <2>1 DEF TypeOK, QueueTypeOK
<1>2. Numbered'
  BY <1>0, <1>1, Numbers DEF Numbered, QueuedOf, OpIds
<1>3. OneChain'
  <2>1. ASSUME NEW p \in OpIds, Live(p), op[p].chain # 0
        PROVE  tasks'[op[p].task] = op[p].chain \/ op[p].chain \in dropped
    <3>1. op[p].task \in Tasks /\ (tasks[op[p].task] = op[p].chain \/ op[p].chain \in dropped)
      BY <2>1 DEF OneChain, Numbered, Live
    <3>2. op[p].chain = c => Pending(c) # {}
      BY <2>1 DEF Live, Pending
    <3> QED BY <1>1, <3>1, <3>2
  <2>2. \A u \in Tasks : tasks'[u] \notin dropped
    BY <1>1, Numbers DEF OneChain, TypeOK, QueueTypeOK
  <2> QED BY <1>0, <2>1, <2>2 DEF OneChain, Live
<1>4. InTurn'
  BY <1>0 DEF InTurn, Unsettled
<1>5. Spent'
  <2>1. \A p \in OpIds : op'[p].chain # 0 => op'[p].epoch <= epoch'[op'[p].chain]
    BY <1>0, Numbers DEF Spent
  <2>2. ASSUME NEW p \in revoked'
        PROVE  /\ op'[p].phase \in {"queued", "settled", "accounted"}
               /\ op'[p].phase = "queued" => op'[p].chain \in dropped'
                                             \/ op'[p].epoch < epoch'[op'[p].chain]
               /\ \A t1 \in Tasks : file'[t1].by # p
    <3>1. CASE p \in revoked
      <4>1. p \in OpIds /\ (op[p].phase = "queued" => op[p].chain \in OpIds)
        BY <3>1, Numbers DEF OneChain, TypeOK, QueueTypeOK
      <4> QED BY <1>0, <3>1, <4>1, Numbers DEF Spent
    <3>2. CASE p \in QueuedOf({t})
      <4>1. p \in OpIds /\ op[p].task = t /\ op[p].phase = "queued"
        BY <3>2 DEF QueuedOf
      <4>2. op[p].chain # 0 /\ (op[p].chain = c \/ op[p].chain \in dropped)
        BY <4>1 DEF OneChain, Live
      <4>3. op[p].epoch < epoch[op[p].chain] + 1
        BY <4>1, <4>2, Numbers DEF Spent
      <4> QED BY <1>0, <4>1, <4>2, <4>3 DEF Spent
    <3> QED BY <1>0, <2>2, <3>1, <3>2
  <2>3. \A p \in OpIds : op'[p].phase = "queued" => \A t1 \in Tasks : file'[t1].by # p
    BY <1>0 DEF Spent
  <2> QED BY <2>1, <2>2, <2>3 DEF Spent
<1>6. NoChainYet'
  BY <1>0, <1>1 DEF NoChainYet
<1> QED BY <1>2, <1>3, <1>4, <1>5, <1>6

LEMMA DisposeChained ==
  ASSUME QInv, DisposeAll, QueueOnly
  PROVE  Chained'
<1> USE DEF QInv, Chained
<1>0. /\ UNCHANGED <<op, issued, file, lost, host>>
      /\ revoked' = revoked \cup QueuedOf(Tasks) /\ \A t \in Tasks : tasks'[t] = 0
      /\ dropped' = dropped \cup {c \in OpIds : \E t \in Tasks : tasks[t] = c}
      /\ \A c \in OpIds : epoch'[c] \in {epoch[c], epoch[c] + 1}
      /\ cancels' = cancels + 1 /\ cancels \in Nat
  BY DEF DisposeAll, QueueOnly, storeVars, TypeOK, QueueTypeOK
<1>1. ASSUME NEW p \in OpIds, Live(p), op[p].chain # 0
      PROVE  op[p].chain \in dropped'
  <2>1. op[p].task \in Tasks /\ (tasks[op[p].task] = op[p].chain \/ op[p].chain \in dropped)
    BY <1>1 DEF OneChain, Numbered, Live
  <2>2. op[p].chain \in OpIds
    BY <1>1, Numbers
  <2> QED BY <1>0, <2>1, <2>2
<1>2. Numbered'
  BY <1>0, Numbers DEF Numbered, QueuedOf, OpIds
<1>3. OneChain'
  <2>1. \A u \in Tasks : tasks'[u] \notin dropped'
    BY <1>0, Numbers DEF TypeOK, QueueTypeOK
  <2> QED BY <1>0, <1>1, <2>1 DEF OneChain, Live
<1>4. InTurn'
  BY <1>0 DEF InTurn, Unsettled
<1>5. Spent'
  <2>1. \A p \in OpIds : op'[p].chain # 0 => op'[p].epoch <= epoch'[op'[p].chain]
    BY <1>0, Numbers DEF Spent
  <2>2. ASSUME NEW p \in revoked'
        PROVE  /\ op'[p].phase \in {"queued", "settled", "accounted"}
               /\ op'[p].phase = "queued" => op'[p].chain \in dropped'
                                             \/ op'[p].epoch < epoch'[op'[p].chain]
               /\ \A t1 \in Tasks : file'[t1].by # p
    <3>1. p \in OpIds /\ op[p].phase \in {"queued", "settled", "accounted"}
          /\ \A t1 \in Tasks : file[t1].by # p
      BY <1>0 DEF Spent, QueuedOf, TypeOK, QueueTypeOK
    <3>2. op[p].phase = "queued" => op[p].chain \in dropped'
      BY <1>1, <3>1 DEF OneChain, Live
    <3> QED BY <1>0, <3>1, <3>2
  <2>3. \A p \in OpIds : op'[p].phase = "queued" => \A t1 \in Tasks : file'[t1].by # p
    BY <1>0 DEF Spent
  <2> QED BY <2>1, <2>2, <2>3 DEF Spent
<1>6. NoChainYet'
  BY <1>0 DEF NoChainYet
<1> QED BY <1>2, <1>3, <1>4, <1>5, <1>6

LEMMA CrashChained ==
  ASSUME QInv, Crash
  PROVE  Chained'
<1>1. \A t \in Tasks : file'[t].by = 0
  BY DEF Crash, QInv, TypeOK, Contents, Record, Absent
<1> QED BY <1>1 DEF Crash, QueueDies, Chained, Numbered, OneChain, InTurn, Spent, NoChainYet,
                    Unborn, Live, OpIds

\* A run() joins the chain of its task, a direct call none.
LEMMA DirectJoins ==
  ASSUME TypeOK, NEW t \in Tasks, NEW k \in Kinds, Direct(t, k), UNCHANGED <<file, lost>>,
         \A u \in Tasks : host'[u] \in {"none", "created"} => host[u] \in {"none", "created"}
  PROVE  Joins(t, Unqueued(t))
BY SubmitsDirect DEF Joins

LEMMA RunJoins ==
  ASSUME TypeOK, NEW t \in Tasks, Run(t), UNCHANGED <<file, lost>>,
         host'[t] \notin {"none", "created"}, \A u \in Tasks \ {t} : host'[u] = host[u]
  PROVE  \E x : Joins(t, x)
BY SubmitsQueued DEF Joins

LEMMA WriteAdvances ==
  ASSUME QInv, NEW o \in OpIds, Write(o)
  PROVE  \E phase \in {"settled", "accounted"} : Advances(o, phase)
<1> DEFINE t == op[o].task
<1>0. t \in Tasks /\ op[o].phase = "running"
  BY DEF QInv, Chained, Numbered, Write, Over, Settle
<1>1. \A u \in Tasks : file'[u].by = file[u].by \/ file'[u].by = o
  <2>1. CASE file' = file
    BY <2>1
  <2>2. CASE \E s : file' = [file EXCEPT ![t] = [by |-> o, status |-> s]]
    <3>1. file \in [Tasks -> Contents]
      BY DEF QInv, TypeOK
    <3>2. PICK s : file' = [file EXCEPT ![t] = [by |-> o, status |-> s]]
      BY <2>2
    <3>3. ASSUME NEW u \in Tasks
          PROVE  file'[u] = IF u = t THEN [by |-> o, status |-> s] ELSE file[u]
      BY <3>1, <3>2
    <3> QED BY <3>3
  <2> QED BY <2>1, <2>2 DEF Write
<1>2. \A pair \in lost' : \/ pair \in lost
                          \/ pair[2] = o /\ \E u \in Tasks : pair[1] = file[u].by
  BY <1>0 DEF Write
<1>3. host' = host \/ \E u \in Tasks : host' = [host EXCEPT ![u] = "resumed"]
  BY <1>0 DEF Write
<1>4. UNCHANGED <<tasks, epoch, issued, cancels, revoked, dropped>>
  BY DEF Write, Over, Settle
<1>5. CASE op[o].chain # 0
  <2>1. SetPhase(o, "settled")
    BY <1>5 DEF Write, Over, Settle
  <2>2. MovedTo(o, "settled")
    BY <2>1, Moves DEF QInv, Phases
  <2> QED BY <1>0, <1>1, <1>2, <1>3, <1>4, <1>5, <2>2 DEF Advances
<1>6. CASE op[o].chain = 0
  <2>1. SetPhase(o, "accounted")
    BY <1>6 DEF Write, Over, Settle
  <2>2. MovedTo(o, "accounted")
    BY <2>1, Moves DEF QInv, Phases
  <2> QED BY <1>0, <1>1, <1>2, <1>3, <1>4, <1>6, <2>2 DEF Advances
<1> QED BY <1>5, <1>6

LEMMA FailureAdvances ==
  ASSUME QInv, NEW o \in OpIds, WriteFails(o)
  PROVE  \E phase \in {"settled", "thrown"} : Advances(o, phase)
<1>1. UNCHANGED <<tasks, epoch, issued, cancels, revoked, dropped, file, host, lost>>
      /\ op[o].phase = "running"
  BY DEF WriteFails, Over, Settle
<1>2. CASE op[o].chain # 0
  <2>1. SetPhase(o, "settled")
    BY <1>2 DEF WriteFails, Over, Settle
  <2>2. MovedTo(o, "settled")
    BY <2>1, Moves DEF QInv, Phases
  <2> QED BY <1>1, <1>2, <2>2 DEF Advances
<1>3. CASE op[o].chain = 0
  <2>1. SetPhase(o, "thrown")
    BY <1>3 DEF WriteFails, Over, Settle
  <2>2. MovedTo(o, "thrown")
    BY <2>1, Moves DEF QInv, Phases
  <2> QED BY <1>1, <1>3, <2>2 DEF Advances
<1> QED BY <1>2, <1>3

LEMMA StartAdvances ==
  ASSUME QInv, NEW o \in OpIds, Start(o)
  PROVE  Advances(o, "running")
<1>1. MovedTo(o, "running")
  BY Moves DEF QInv, Phases, Start, Begin
<1> QED BY <1>1 DEF Start, Begin, Reached, Advances

LEMMA SkipAdvances ==
  ASSUME QInv, NEW o \in OpIds, Skips(o)
  PROVE  Advances(o, "settled")
<1>1. MovedTo(o, "settled")
  BY Moves DEF QInv, Phases, Skips, Skip
<1>2. op[o].phase = "queued" /\ op[o].chain # 0
  BY DEF Skips, Skip, Reached, QInv, Chained, OneChain
<1> QED BY <1>1, <1>2 DEF Skips, Skip, QueueOnly, storeVars, Advances

LEMMA AccountAdvances ==
  ASSUME QInv, NEW o \in OpIds, Accounts(o)
  PROVE  Advances(o, "accounted")
<1>1. MovedTo(o, "accounted")
  BY Moves DEF QInv, Phases, Accounts, Account
<1>2. ASSUME NEW t \in Tasks
      PROVE  \/ tasks'[t] = tasks[t]
             \/ tasks'[t] = 0 /\ \A p \in OpIds : op[p].chain = tasks[t] /\ Live(p) => p = o
  BY DEF Accounts, Account, Pending, Live
<1> QED BY <1>1, <1>2 DEF Accounts, Account, QueueOnly, storeVars, Advances

LEMMA StepChained ==
  ASSUME QInv, [Next]_vars
  PROVE  Chained'
<1>0. TypeOK /\ file \in [Tasks -> Contents] /\ host \in [Tasks -> {"none", "created", "resuming", "resumed", "open", "ended"}]
  BY DEF QInv, TypeOK
<1>1. ASSUME NEW o \in OpIds, Start(o) \/ Skips(o) \/ Write(o) \/ WriteFails(o) \/ Accounts(o)
      PROVE  Chained'
  BY <1>1, AdvanceChained, StartAdvances, SkipAdvances, WriteAdvances, FailureAdvances,
     AccountAdvances
<1>2. ASSUME NEW t \in Tasks, Create(t) PROVE Chained'
  <2>1. FilesKeep
    BY <1>0, <1>2 DEF Create, FilesKeep
  <2> QED BY <1>0, <1>2, <2>1, QuietChained DEF Create, queueVars
<1>3. ASSUME NEW t \in Tasks, Preamble(t) PROVE Chained'
  <2>1. CASE Direct(t, "user")
    BY <1>0, <1>3, <2>1, DirectJoins, JoinChained DEF Preamble, Kinds
  <2>2. CASE ~Direct(t, "user")
    BY <1>0, <1>3, <2>2, SubmitsBoth, BothChained DEF Preamble
  <2> QED BY <2>1, <2>2
<1>4. ASSUME NEW t \in Tasks, Resume(t) PROVE Chained'
  BY <1>0, <1>4, DirectJoins, JoinChained DEF Resume, Kinds
<1>5. ASSUME NEW t \in Tasks, Resumed(t) PROVE Chained'
  BY <1>0, <1>5, QuietChained DEF Resumed, queueVars, FilesKeep
<1>6. ASSUME NEW t \in Tasks, Delete(t) PROVE Chained'
  <2>1. FilesKeep
    BY <1>0, <1>6 DEF Delete, FilesKeep, Absent
  <2> QED BY <1>0, <1>6, <2>1, QuietChained DEF Delete, queueVars
<1>7. ASSUME NEW t \in Tasks, NEW k \in {"append", "interrupted", "completed"}, Event(t, k)
      PROVE  Chained'
  <2>1. host'[t] \notin {"none", "created"} /\ \A u \in Tasks \ {t} : host'[u] = host[u]
    BY <1>0, <1>7 DEF Event
  <2> QED BY <1>0, <1>7, <2>1, RunJoins, JoinChained DEF Event
<1>8. ASSUME NEW t \in Tasks, Around(t) PROVE Chained'
  BY <1>0, <1>8, DirectJoins, JoinChained DEF Around, Kinds
<1>9. ASSUME NEW t \in Tasks, Cancel(t) /\ QueueOnly PROVE Chained'
  BY <1>9, CancelChained
<1>10. ASSUME NEW t \in Tasks, (Drain(t) \/ DrainLap(t)) /\ QueueOnly PROVE Chained'
  BY <1>0, <1>10, QuietChained DEF Drain, DrainLap, QueueOnly, storeVars, FilesKeep
<1>11. ASSUME NEW t \in Tasks, List(t) PROVE Chained'
  BY <1>0, <1>11, QuietChained DEF List, queueVars, FilesKeep
<1>12. ASSUME NEW t \in Tasks, Mark(t) PROVE Chained'
  BY <1>0, <1>12, DirectJoins, JoinChained DEF Mark, Kinds
<1>13. CASE DisposeAll /\ QueueOnly
  BY <1>13, DisposeChained
<1>14. CASE Crash
  BY <1>14, CrashChained
<1>15. CASE Recovered
  BY <1>0, <1>15, QuietChained DEF Recovered, queueVars, FilesKeep
<1>16. CASE UNCHANGED vars
  BY <1>0, <1>16, QuietChained DEF vars, queueVars, storeVars, FilesKeep
<1> QED BY <1>1, <1>2, <1>3, <1>4, <1>5, <1>6, <1>7, <1>8, <1>9, <1>10, <1>11, <1>12,
          <1>13, <1>14, <1>15, <1>16 DEF Next, Drains

LEMMA QueueInvariant == Spec => []QInv
<1>1. ASSUME QInv, [Next]_vars PROVE QInv'
  BY <1>1, TypeStep, StepChained DEF QInv, Chained
<1> QED BY <1>1, InitQInv, PTL DEF Spec

\* The queue, the files and the recovery keep to their types.
THEOREM Types == Spec => []TypeOK
BY QueueInvariant, PTL DEF QInv

\* What was cancelled before it started never runs and is in no file.
THEOREM CancelledIsUndone == Spec => []RevokedLeavesNoTrace
<1>1. QInv => RevokedLeavesNoTrace
  BY DEF QInv, Chained, Spent, RevokedLeavesNoTrace
<1> QED BY <1>1, QueueInvariant, PTL

\* drain() leaves nothing of the task unsettled.
THEOREM DrainIsComplete == Spec => DrainLeavesNothing
<1> DEFINE Clean(t) == \A o \in OpIds : op[o].task = t /\ op[o].chain # 0 /\ Unsettled(o)
                                         => op[o].chain \in dropped
           A == \A t \in Tasks : drains[t].phase # "done" /\ drains'[t].phase = "done" => Clean(t)
<1>1. ASSUME QInv, NEW t \in Tasks, tasks[t] = 0 \/ Pending(tasks[t]) = {}
      PROVE  Clean(t)
  <2> SUFFICES ASSUME NEW o \in OpIds, op[o].task = t, op[o].chain # 0, Unsettled(o)
               PROVE  op[o].chain \in dropped
    OBVIOUS
  <2> HIDE DEF Clean
  <2>0. Live(o)
    BY DEF Live, Unsettled
  <2>1. Live(o) /\ (tasks[t] = op[o].chain \/ op[o].chain \in dropped)
    BY <1>1, <2>0 DEF QInv, Chained, OneChain
  <2>2. tasks[t] = op[o].chain => o \in Pending(tasks[t])
    BY <2>1 DEF Pending, Live
  <2> QED BY <1>1, <2>1, <2>2
<1>2. ASSUME QInv, [Next]_vars PROVE [A]_vars
  <2> SUFFICES ASSUME NEW t \in Tasks, drains[t].phase # "done", drains'[t].phase = "done"
               PROVE  Clean(t)
    OBVIOUS
  <2>1. drains' # drains
    OBVIOUS
  <2>2. \E u \in Tasks : Drain(u) \/ DrainLap(u)
    <3>1. \A u \in Tasks : QueueDies => drains'[u].phase = "idle"
      BY DEF QueueDies, NoDrain
    <3>2. ~Crash
      BY <3>1 DEF Crash
    <3>3. ASSUME NEW u \in Tasks, Preamble(u) PROVE FALSE
      BY <2>1, <3>3 DEF Preamble, Direct
    <3> HIDE DEF Clean
    <3>4. ASSUME NEW u \in Tasks, Create(u) \/ Resume(u) \/ Resumed(u) \/ Delete(u)
                                  \/ Around(u) \/ Cancel(u) \/ List(u) \/ Mark(u)
          PROVE  FALSE
      BY <2>1, <3>4 DEF Create, Resume, Resumed, Delete, Around, Cancel, List, Mark, Direct, queueVars
    <3>5. ASSUME NEW u \in Tasks, NEW k, Event(u, k) PROVE FALSE
      BY <2>1, <3>5 DEF Event, Run
    <3>6. ASSUME NEW o \in OpIds,
                 Start(o) \/ Skips(o) \/ Write(o) \/ WriteFails(o) \/ Accounts(o)
          PROVE  FALSE
      BY <2>1, <3>6 DEF Start, Begin, Skips, Skip, Write, WriteFails, Over, Settle, Accounts, Account
    <3>7. ~DisposeAll /\ ~Recovered /\ ~UNCHANGED vars
      BY <2>1 DEF DisposeAll, Recovered, queueVars, vars
    <3> QED BY <1>2, <3>2, <3>3, <3>4, <3>5, <3>6, <3>7 DEF Next, Drains
  <2>3. PICK u \in Tasks : Drain(u) \/ DrainLap(u)
    BY <2>2
  <2>4. drains \in [Tasks -> DrainCall]
    BY <1>2 DEF QInv, TypeOK, QueueTypeOK
  <2>5. u = t
    BY <2>3, <2>4 DEF Drain, DrainLap
  <2>6. tasks[t] = 0 \/ Pending(tasks[t]) = {}
    BY <2>3, <2>4, <2>5 DEF Drain, DrainLap
  <2> QED BY <1>1, <1>2, <2>6
<1>3. Spec => [][A]_vars
  BY <1>2, QueueInvariant, PTL DEF Spec
<1> QED BY <1>3 DEF DrainLeavesNothing

---------------------------------------------------------------------------
\* Nothing a chain wrote is overwritten unread.

Outsider(o) == op[o].chain = 0 \/ op[o].chain \in dropped

\* What was written behind the back of a running operation of a live chain was
\* written from outside the chains.
Straddled ==
    \A o \in OpIds : op[o].phase = "running" /\ ~Outsider(o) =>
        LET w == file[op[o].task].by
        IN  w \in {0, held[o].by} \/ Outsider(w)

OutsiderNext(o) == op'[o].chain = 0 \/ op'[o].chain \in dropped'

LInv == Straddled /\ QueuedNeverLost

\* Operations that were submitted stay as they are, those submitted now do not run
\* yet or are no part of a chain.
Keeps ==
    /\ \A p \in OpIds : op[p].phase # "unborn" => op'[p] = op[p] /\ held'[p] = held[p]
    /\ \A p \in OpIds : op[p].phase = "unborn" => op'[p].phase # "running" \/ op'[p].chain = 0
    /\ dropped \subseteq dropped'
    /\ lost' = lost
    /\ FilesKeep

LEMMA SubmittedOnly ==
  ASSUME QInv
  PROVE  /\ \A t \in Tasks : file[t].by # 0 => file[t].by \in OpIds /\ op[file[t].by].phase # "unborn"
         /\ \A pair \in lost : pair[1] \in OpIds /\ pair[2] \in OpIds
                               /\ op[pair[1]].phase # "unborn" /\ op[pair[2]].phase # "unborn"
         /\ \A o \in OpIds : op[o].phase # "unborn" => op[o].task \in Tasks
<1>1. \A o \in OpIds : o <= issued => op[o].phase # "unborn"
  BY Numbers DEF QInv, Chained, Numbered, OpIds
<1>2. \A pair \in lost : pair[1] \in OpIds /\ pair[2] \in OpIds
  BY DEF QInv, TypeOK
<1> QED BY <1>1, <1>2, Numbers DEF QInv, Chained, Numbered

LEMMA KeepLInv ==
  ASSUME QInv, LInv, Keeps
  PROVE  LInv'
<1>1. Straddled'
  <2> SUFFICES ASSUME NEW o \in OpIds, op'[o].phase = "running", ~OutsiderNext(o),
                      file'[op'[o].task].by \notin {0, held'[o].by}
               PROVE  OutsiderNext(file'[op'[o].task].by)
    BY DEF Straddled, Outsider, OutsiderNext
  <2> DEFINE t == op[o].task
             w == file[t].by
  <2>1. op[o].phase # "unborn"
    BY DEF Keeps, OutsiderNext
  <2>2. op'[o] = op[o] /\ held'[o] = held[o] /\ t \in Tasks /\ ~Outsider(o)
    BY <2>1, SubmittedOnly DEF Keeps, Outsider, OutsiderNext
  <2>3. file'[t].by = w /\ w # 0
    BY <2>2 DEF Keeps, FilesKeep
  <2>4. Outsider(w)
    BY <2>2, <2>3 DEF LInv, Straddled
  <2>5. op'[w] = op[w]
    BY <2>2, <2>3, SubmittedOnly DEF Keeps
  <2> QED BY <2>2, <2>3, <2>4, <2>5 DEF Outsider, OutsiderNext, Keeps
<1>2. QueuedNeverLost'
  <2> SUFFICES ASSUME NEW pair \in lost
               PROVE  \E o \in {pair[1], pair[2]} : op'[o].chain = 0 \/ op'[o].chain \in dropped'
    BY DEF QueuedNeverLost, Keeps
  <2>1. op'[pair[1]] = op[pair[1]] /\ op'[pair[2]] = op[pair[2]]
    BY SubmittedOnly DEF Keeps
  <2> QED BY <2>1 DEF LInv, QueuedNeverLost, Keeps
<1> QED BY <1>1, <1>2 DEF LInv

LEMMA DirectKeeps ==
  ASSUME QInv, NEW t \in Tasks, NEW k \in Kinds, Direct(t, k), UNCHANGED <<file, lost>>
  PROVE  Keeps
<1>1. op[issued + 1].phase = "unborn"
  BY SubmitsDirect, Numbers DEF QInv, Chained, Numbered
<1>2. /\ \A p \in OpIds : p # issued + 1 => op'[p] = op[p] /\ held'[p] = held[p]
      /\ op'[issued + 1].chain = 0
      /\ dropped' = dropped
  <2>1. /\ Submitted(issued + 1, Unqueued(t)) /\ dropped' = dropped
        /\ \A p \in OpIds : p # issued + 1 => held'[p] = held[p]
    BY SubmitsDirect DEF QInv
  <2> QED BY <2>1 DEF Submitted, Unqueued
<1> QED BY <1>1, <1>2 DEF Keeps, FilesKeep

LEMMA BothKeeps ==
  ASSUME QInv, NEW t \in Tasks, Both(t), UNCHANGED <<file, lost>>
  PROVE  Keeps
<1>1. op[issued + 1].phase = "unborn" /\ op[issued + 2].phase = "unborn"
  BY Numbers DEF QInv, Chained, Numbered, Both
<1> QED BY <1>1 DEF Keeps, FilesKeep, Both, Unqueued

LEMMA RunKeeps ==
  ASSUME QInv, NEW t \in Tasks, Run(t), UNCHANGED <<file, lost, held>>
  PROVE  Keeps
<1>1. issued + 1 \in OpIds => op[issued + 1].phase = "unborn"
  BY Numbers DEF QInv, Chained, Numbered
<1>2. PICK c \in OpIds : issued + 1 \in OpIds
                         /\ Submitted(issued + 1, [task |-> t, chain |-> c, epoch |-> epoch[c],
                                                   phase |-> "queued"])
  BY SubmitsQueued DEF QInv
<1>3. dropped' = dropped
  BY DEF Run
<1> QED BY <1>1, <1>2, <1>3 DEF Keeps, FilesKeep, Submitted

\* An operation that starts has read what is there.
LEMMA MoveLInv ==
  ASSUME QInv, LInv, NEW o \in OpIds, NEW phase, MovedTo(o, phase),
         UNCHANGED <<file, lost, dropped>>,
         phase = "running" => held'[o] = file[op[o].task],
         \A p \in OpIds : p # o => held'[p] = held[p]
  PROVE  LInv'
<1>1. \A p \in OpIds : OutsiderNext(p) <=> Outsider(p)
  BY DEF Outsider, OutsiderNext, MovedTo
<1>2. Straddled'
  <2> SUFFICES ASSUME NEW p \in OpIds, op'[p].phase = "running", ~OutsiderNext(p),
                      file[op'[p].task].by \notin {0, held'[p].by}
               PROVE  OutsiderNext(file[op'[p].task].by)
    BY DEF Straddled, Outsider, OutsiderNext
  <2>1. p # o
    BY DEF MovedTo
  <2>2. op'[p] = op[p] /\ held'[p] = held[p] /\ ~Outsider(p)
    BY <1>1, <2>1 DEF MovedTo
  <2>3. Outsider(file[op[p].task].by)
    BY <2>2 DEF LInv, Straddled
  <2>4. file[op[p].task].by \in OpIds
    BY <2>2, SubmittedOnly
  <2> QED BY <1>1, <2>2, <2>3, <2>4
<1>3. QueuedNeverLost'
  BY <1>1, SubmittedOnly DEF LInv, QueuedNeverLost, Outsider, OutsiderNext
<1> QED BY <1>2, <1>3 DEF LInv

LEMMA WriteLInv ==
  ASSUME QInv, LInv, NEW o \in OpIds, Write(o)
  PROVE  LInv'
<1> DEFINE t == op[o].task
           w == file[t].by
<1>1. PICK phase \in {"settled", "accounted"} : MovedTo(o, phase)
  BY WriteAdvances DEF Advances
<1>2. \A p \in OpIds : OutsiderNext(p) <=> Outsider(p)
  BY <1>1 DEF Outsider, OutsiderNext, MovedTo, Write, Over, Settle
<1>3. op[o].phase = "running" /\ t \in Tasks
  BY DEF Write, Over, Settle, QInv, Chained, Numbered
<1>4. \A u \in Tasks : \/ file'[u] = file[u]
                       \/ u = t /\ file'[u].by = o
  <2>0. file \in [Tasks -> Contents]
    BY DEF QInv, TypeOK
  <2>1. CASE file' = file
    BY <2>1
  <2>2. CASE \E s : file' = [file EXCEPT ![t] = [by |-> o, status |-> s]]
    BY <2>0, <2>2
  <2> QED BY <2>1, <2>2 DEF Write
<1>5. \A p \in OpIds : p # o => held'[p] = held[p]
  BY DEF Write, QInv, TypeOK
<1>6. Straddled'
  <2> SUFFICES ASSUME NEW p \in OpIds, op'[p].phase = "running", ~OutsiderNext(p),
                      file'[op'[p].task].by \notin {0, held'[p].by}
               PROVE  OutsiderNext(file'[op'[p].task].by)
    BY DEF Straddled, Outsider, OutsiderNext
  <2>1. p # o
    BY <1>1 DEF MovedTo
  <2>2. op'[p] = op[p] /\ held'[p] = held[p] /\ ~Outsider(p) /\ op[p].task \in Tasks
    BY <1>1, <1>2, <1>5, <2>1, SubmittedOnly DEF MovedTo
  <2>3. CASE file'[op[p].task] = file[op[p].task]
    BY <1>2, <2>2, <2>3, SubmittedOnly DEF LInv, Straddled
  <2>4. CASE op[p].task = t /\ file'[t].by = o
    <3>1. ~Outsider(o) => op[o].chain = op[p].chain
      BY <1>3, <2>2, <2>4 DEF QInv, Chained, OneChain, Outsider, Live
    <3>2. ~Outsider(o) => ~(p < o) /\ ~(o < p)
      BY <1>3, <2>2, <3>1 DEF QInv, Chained, InTurn, Outsider, Unsettled
    <3>3. Outsider(o)
      BY <2>1, <3>2 DEF OpIds
    <3> QED BY <1>2, <2>2, <2>4, <3>3
  <2> QED BY <1>4, <2>2, <2>3, <2>4
<1>7. QueuedNeverLost'
  <2> SUFFICES ASSUME NEW pair \in lost'
               PROVE  \E q \in {pair[1], pair[2]} : op'[q].chain = 0 \/ op'[q].chain \in dropped'
    BY DEF QueuedNeverLost
  <2>1. CASE pair \in lost
    BY <1>2, <2>1, SubmittedOnly DEF LInv, QueuedNeverLost, Outsider, OutsiderNext
  <2>2. CASE pair \notin lost
    <3>1. pair = <<w, o>> /\ w \notin {0, held[o].by}
      BY <2>2 DEF Write
    <3>2. Outsider(o) \/ Outsider(w)
      BY <1>3, <3>1 DEF LInv, Straddled
    <3>3. w \in OpIds
      BY <1>3, <3>1, SubmittedOnly
    <3>4. OutsiderNext(o) \/ OutsiderNext(w)
      BY <1>2, <3>2, <3>3
    <3> QED BY <3>1, <3>4 DEF OutsiderNext
  <2> QED BY <2>1, <2>2
<1> QED BY <1>6, <1>7 DEF LInv

LEMMA StepLInv ==
  ASSUME QInv, LInv, [Next]_vars
  PROVE  LInv'
<1>0. TypeOK /\ file \in [Tasks -> Contents] /\ held \in [OpIds -> Contents]
      /\ \A o \in OpIds : op[o].phase = "unborn" => op[o].phase # "running"
  BY DEF QInv, TypeOK
<1>1. ASSUME NEW o \in OpIds, Start(o) PROVE LInv'
  BY <1>0, <1>1, StartAdvances, MoveLInv DEF Start, Begin, Advances
<1>2. ASSUME NEW o \in OpIds, Skips(o) PROVE LInv'
  BY <1>2, SkipAdvances, MoveLInv DEF Skips, Skip, QueueOnly, storeVars, Advances
<1>3. ASSUME NEW o \in OpIds, Write(o) PROVE LInv'
  BY <1>3, WriteLInv
<1>4. ASSUME NEW o \in OpIds, WriteFails(o) PROVE LInv'
  <2>1. PICK phase \in {"settled", "thrown"} : MovedTo(o, phase)
    BY <1>4, FailureAdvances DEF Advances
  <2>2. UNCHANGED <<file, lost, dropped>> /\ \A p \in OpIds : p # o => held'[p] = held[p]
    BY <1>0, <1>4 DEF WriteFails, Over, Settle
  <2> QED BY <2>1, <2>2, MoveLInv
<1>5. ASSUME NEW o \in OpIds, Accounts(o) PROVE LInv'
  BY <1>5, AccountAdvances, MoveLInv DEF Accounts, Account, QueueOnly, storeVars, Advances
<1>6. ASSUME NEW t \in Tasks, Create(t) PROVE LInv'
  <2>1. Keeps
    BY <1>0, <1>6 DEF Create, queueVars, Keeps, FilesKeep
  <2> QED BY <2>1, KeepLInv
<1>7. ASSUME NEW t \in Tasks, Preamble(t) PROVE LInv'
  <2>1. CASE Direct(t, "user")
    BY <1>7, <2>1, DirectKeeps, KeepLInv DEF Preamble, Kinds
  <2>2. CASE ~Direct(t, "user")
    BY <1>0, <1>7, <2>2, SubmitsBoth, BothKeeps, KeepLInv DEF Preamble
  <2> QED BY <2>1, <2>2
<1>8. ASSUME NEW t \in Tasks, Resume(t) PROVE LInv'
  BY <1>8, DirectKeeps, KeepLInv DEF Resume, Kinds
<1>9. ASSUME NEW t \in Tasks, Resumed(t) PROVE LInv'
  BY <1>0, <1>9, KeepLInv DEF Resumed, queueVars, Keeps, FilesKeep
<1>10. ASSUME NEW t \in Tasks, Delete(t) PROVE LInv'
  <2>1. Keeps
    BY <1>0, <1>10 DEF Delete, queueVars, Keeps, FilesKeep, Absent
  <2> QED BY <2>1, KeepLInv
<1>11. ASSUME NEW t \in Tasks, NEW k \in {"append", "interrupted", "completed"}, Event(t, k)
       PROVE  LInv'
  BY <1>11, RunKeeps, KeepLInv DEF Event
<1>12. ASSUME NEW t \in Tasks, Around(t) PROVE LInv'
  BY <1>12, DirectKeeps, KeepLInv DEF Around, Kinds
<1>13. ASSUME NEW t \in Tasks, Cancel(t) /\ QueueOnly PROVE LInv'
  BY <1>0, <1>13, KeepLInv DEF Cancel, QueueOnly, storeVars, Keeps, FilesKeep
<1>14. ASSUME NEW t \in Tasks, (Drain(t) \/ DrainLap(t)) /\ QueueOnly PROVE LInv'
  BY <1>0, <1>14, KeepLInv DEF Drain, DrainLap, QueueOnly, storeVars, Keeps, FilesKeep
<1>15. ASSUME NEW t \in Tasks, List(t) PROVE LInv'
  BY <1>0, <1>15, KeepLInv DEF List, queueVars, Keeps, FilesKeep
<1>16. ASSUME NEW t \in Tasks, Mark(t) PROVE LInv'
  BY <1>16, DirectKeeps, KeepLInv DEF Mark, Kinds
<1>17. CASE DisposeAll /\ QueueOnly
  BY <1>0, <1>17, KeepLInv DEF DisposeAll, QueueOnly, storeVars, Keeps, FilesKeep
<1>18. CASE Crash
  BY <1>18 DEF Crash, QueueDies, Unborn, LInv, Straddled, QueuedNeverLost
<1>19. CASE Recovered
  BY <1>0, <1>19, KeepLInv DEF Recovered, queueVars, Keeps, FilesKeep
<1>20. CASE UNCHANGED vars
  BY <1>0, <1>20, KeepLInv DEF vars, queueVars, storeVars, Keeps, FilesKeep
<1> QED BY <1>1, <1>2, <1>3, <1>4, <1>5, <1>6, <1>7, <1>8, <1>9, <1>10, <1>11, <1>12,
          <1>13, <1>14, <1>15, <1>16, <1>17, <1>18, <1>19, <1>20 DEF Next, Drains

\* A mutation is lost only to one from outside the chains, or from a chain that
\* was dropped.
THEOREM NoChainLosesAWrite == Spec => []QueuedNeverLost
<1>1. Init => LInv
  BY DEF Init, QueueInit, Unborn, LInv, Straddled, QueuedNeverLost
<1>2. ASSUME QInv, LInv, [Next]_vars PROVE LInv'
  BY <1>2, StepLInv
<1>3. LInv => QueuedNeverLost
  BY DEF LInv
<1> QED BY <1>1, <1>2, <1>3, QueueInvariant, PTL DEF Spec

---------------------------------------------------------------------------
\* What the recovery at startup has still to do.

\* A task that this session has not touched and that is running on disk is still
\* ahead of the recovery, which owns the only operation on such a task.
Ahead(t) ==
    \/ t \in recovery.unread \cup recovery.phantom
    \/ recovery.op # 0 /\ op[recovery.op].task = t /\ op[recovery.op].phase = "running"

Phantoms ==
    LET r == recovery.op IN
    /\ r <= issued
    /\ r # 0 => /\ op[r].phase \in {"running", "accounted", "thrown"}
                /\ op[r].phase = "thrown" => recovery.phase = "failed"
    /\ r # 0 /\ op[r].phase = "running" =>
          /\ kind[r] = "interrupted" /\ op[r].chain = 0
          /\ host[op[r].task] = "none" /\ file[op[r].task].status = "running"
             => held[r] # Absent
    /\ \A o \in OpIds : Unsettled(o) /\ host[op[o].task] = "none" => o = r
    /\ recovery.phase = "listing" => r = 0
    /\ recovery.phase = "done" => /\ recovery.unread = {} /\ recovery.phantom = {}
                                  /\ r # 0 => op[r].phase # "running"
    /\ recovery.phase # "failed" =>
          \A t \in Tasks : host[t] = "none" /\ file[t].status = "running" => Ahead(t)

LEMMA Marking ==
  ASSUME QInv, Phantoms, recovery.op # 0
  PROVE  /\ recovery.op \in OpIds /\ op[recovery.op].phase # "unborn"
         /\ op[recovery.op].task \in Tasks
<1>1. recovery.op \in OpIds
  BY TaskQueueConstants DEF QInv, TypeOK, Recovery, Chains, OpIds
<1> QED BY <1>1, SubmittedOnly DEF Phantoms

\* A step that neither is one of the recovery nor undoes what it has done.
LEMMA KeepPhantoms ==
  ASSUME QInv, Phantoms, recovery' = recovery,
         issued' \in Nat, issued <= issued',
         LET r == recovery.op
         IN  r # 0 => op'[r] = op[r] /\ kind'[r] = kind[r] /\ held'[r] = held[r],
         \A o \in OpIds : op'[o].phase \in {"queued", "running"} =>
             \/ Unsettled(o) /\ op'[o].task = op[o].task
             \/ host'[op'[o].task] # "none",
         \A o \in OpIds : Unsettled(o) => op[o].task \in Tasks,
         \A t \in Tasks : host[t] # "none" => host'[t] # "none",
         \A t \in Tasks : host'[t] = "none" /\ file'[t].status = "running"
                          => file[t].status = "running"
  PROVE  Phantoms'
<1> DEFINE r == recovery.op
<1>1. r \in Nat /\ issued \in Nat
  BY Numbers, TaskQueueConstants DEF QInv, TypeOK, Recovery, Chains
<1>2. r # 0 => op[r].task \in Tasks
  BY Marking
<1>3. r <= issued'
  BY <1>1 DEF Phantoms
<1>4. \A o \in OpIds : Unsettled(o)' /\ host'[op'[o].task] = "none" => o = r
  BY DEF Phantoms, Unsettled
<1>5. r # 0 /\ op[r].phase = "running" =>
          /\ kind[r] = "interrupted" /\ op[r].chain = 0
          /\ host'[op[r].task] = "none" /\ file'[op[r].task].status = "running"
             => held[r] # Absent
  BY <1>2 DEF Phantoms
<1>6. recovery.phase # "failed" =>
          \A t \in Tasks : host'[t] = "none" /\ file'[t].status = "running" => Ahead(t)'
  BY DEF Phantoms, Ahead
<1> QED BY <1>3, <1>4, <1>5, <1>6 DEF Phantoms

\* The recovery's own mutation.
LEMMA MarkingOver ==
  ASSUME QInv, Phantoms, Write(recovery.op) \/ WriteFails(recovery.op), recovery.op # 0
  PROVE  Phantoms'
<1> DEFINE r == recovery.op
           t == op[r].task
<1>1. /\ r \in OpIds /\ op[r].phase = "running" /\ t \in Tasks
      /\ op[r].chain = 0 /\ kind[r] = "interrupted"
  BY Marking DEF Phantoms, Write, WriteFails, Over, Settle
<1>2. r \in Nat /\ issued \in Nat /\ issued' = issued /\ r <= issued
  BY <1>1, Numbers DEF Phantoms, OpIds, QInv, Write, WriteFails, Over, Settle
<1>3. CASE Write(r)
  <2>1. MovedTo(r, "accounted")
    BY <1>1, <1>3, Moves DEF Write, Over, Settle, QInv, Phases
  <2>2. recovery' = recovery /\ op'[r].task = t
    BY <1>1, <1>3, <2>1 DEF Write, MovedTo
  <2>3. ASSUME NEW u \in Tasks, host'[u] = "none"
        PROVE  host[u] = "none"
    BY <1>3, <2>3 DEF Write, QInv, TypeOK
  <2>4. ASSUME NEW u \in Tasks, host'[u] = "none", file'[u].status = "running",
               recovery.phase # "failed"
        PROVE  u \in recovery.unread \cup recovery.phantom
    <3>0. file \in [Tasks -> Contents]
      BY DEF QInv, TypeOK
    <3>1. CASE Declines("interrupted", held[r])
      <4>1. file' = file /\ held[r] = Absent
        BY <1>1, <1>3, <3>1 DEF Write, Declines
      <4>2. u # t
        BY <1>1, <2>3, <2>4, <4>1 DEF Phantoms
      <4> QED BY <2>3, <2>4, <4>1, <4>2 DEF Phantoms, Ahead
    <3>2. CASE ~Declines("interrupted", held[r])
      <4>1. file' = [file EXCEPT ![t] = [by |-> r, status |-> "interrupted"]]
        BY <1>1, <1>3, <3>2 DEF Write, StatusAfter
      <4>2. u # t /\ file'[u] = file[u]
        BY <2>4, <3>0, <4>1
      <4> QED BY <2>3, <2>4, <4>2 DEF Phantoms, Ahead
    <3> QED BY <3>1, <3>2
  <2>5. ASSUME NEW o \in OpIds, Unsettled(o)', host'[op'[o].task] = "none"
        PROVE  o = r
    <3>1. o # r
      BY <2>1, <2>5 DEF MovedTo, Unsettled
    <3>2. Unsettled(o) /\ op'[o] = op[o]
      BY <2>1, <2>5, <3>1 DEF MovedTo, Unsettled
    <3>3. op[o].task \in Tasks
      BY <3>2, SubmittedOnly DEF Unsettled
    <3> QED BY <2>3, <2>5, <3>2, <3>3 DEF Phantoms
  <2>6. op'[r].phase = "accounted"
    BY <2>1 DEF MovedTo
  <2>7. recovery.phase # "failed" =>
          \A u \in Tasks : host'[u] = "none" /\ file'[u].status = "running" => Ahead(u)'
    BY <2>2, <2>4 DEF Ahead
  <2> QED BY <1>2, <2>2, <2>5, <2>6, <2>7 DEF Phantoms
<1>4. CASE WriteFails(r)
  <2>1. MovedTo(r, "thrown")
    BY <1>1, <1>4, Moves DEF WriteFails, Over, Settle, QInv, Phases
  <2>2. recovery'.op = r /\ recovery'.phase = "failed" /\ host' = host
    BY <1>4 DEF WriteFails, QInv, TypeOK, Recovery
  <2>3. ASSUME NEW o \in OpIds, Unsettled(o)', host'[op'[o].task] = "none"
        PROVE  o = r
    BY <2>1, <2>2, <2>3 DEF MovedTo, Unsettled, Phantoms
  <2>4. op'[r].phase = "thrown"
    BY <2>1 DEF MovedTo
  <2> QED BY <1>2, <2>2, <2>3, <2>4 DEF Phantoms
<1> QED BY <1>3, <1>4

LEMMA RecoverySteps ==
  ASSUME QInv, Phantoms,
         (\E t \in Tasks : List(t) \/ Mark(t)) \/ Recovered
  PROVE  Phantoms'
<1> DEFINE r == recovery.op
<1>0. recovery \in Recovery /\ r \in Nat /\ issued \in Nat
  BY Numbers, TaskQueueConstants DEF QInv, TypeOK, Recovery, Chains
<1>1. ASSUME NEW t \in Tasks, List(t) PROVE Phantoms'
  <2>1. /\ recovery'.op = 0 /\ r = 0 /\ recovery'.phase \in {"listing", "marking"}
        /\ recovery'.unread = recovery.unread \ {t}
        /\ recovery'.phantom = IF file[t].status = "running" THEN recovery.phantom \cup {t}
                               ELSE recovery.phantom
        /\ recovery.phase = "listing"
        /\ UNCHANGED <<op, host, file, issued, kind, held>>
    BY <1>0, <1>1 DEF List, Phantoms, Recovery, queueVars
  <2>2. \A u \in Tasks : host[u] = "none" /\ file[u].status = "running" => Ahead(u)'
    BY <2>1 DEF Phantoms, Ahead
  <2> QED BY <1>0, <2>1, <2>2 DEF Phantoms, Unsettled
<1>2. ASSUME NEW t \in Tasks, Mark(t) PROVE Phantoms'
  <2> DEFINE new == issued + 1
  <2>1. /\ recovery'.op = new /\ recovery'.phase = "marking"
        /\ recovery'.unread = recovery.unread
        /\ recovery'.phantom = recovery.phantom \ {t}
        /\ recovery.phase = "marking"
        /\ r # 0 => op[r].phase = "accounted"
        /\ UNCHANGED <<host, file>>
    BY <1>0, <1>2 DEF Mark, MarkedLast, Recovery
  <2>2. /\ new \in OpIds /\ Submitted(new, Unqueued(t)) /\ issued' = new
        /\ kind'[new] = "interrupted" /\ held'[new] = file[t]
    BY <1>2, SubmitsDirect DEF Mark, QInv, Kinds
  <2>3. /\ op'[new].task = t /\ op'[new].phase = "running" /\ op'[new].chain = 0
        /\ \A p \in OpIds : p # new => op'[p] = op[p]
    BY <2>2 DEF Submitted, Unqueued
  <2>4. \A o \in OpIds : Unsettled(o)' /\ host'[op'[o].task] = "none" => o = new
    BY <2>1, <2>3, Marking DEF Phantoms, Unsettled, OpIds
  <2>5. \A u \in Tasks : host'[u] = "none" /\ file'[u].status = "running" => Ahead(u)'
    BY <2>1, <2>3, <1>0 DEF Phantoms, Ahead
  <2>6. file[t].status = "running" => held'[new] # Absent
    BY <2>2 DEF Absent
  <2> QED BY <1>0, <2>1, <2>2, <2>3, <2>4, <2>5, <2>6 DEF Phantoms
<1>3. CASE Recovered
  <2>1. /\ recovery'.op = r /\ recovery'.phase = "done"
        /\ recovery'.unread = {} /\ recovery'.phantom = {}
        /\ recovery.unread = {} /\ recovery.phantom = {}
        /\ recovery.phase # "failed"
        /\ r # 0 => op[r].phase = "accounted"
        /\ UNCHANGED <<op, host, file, issued, kind, held>>
    BY <1>0, <1>3 DEF Recovered, MarkedLast, Recovery, queueVars
  <2>2. \A u \in Tasks : host[u] = "none" /\ file[u].status = "running" => Ahead(u)'
    BY <2>1 DEF Phantoms, Ahead
  <2> QED BY <2>1, <2>2 DEF Phantoms, Unsettled
<1> QED BY <1>1, <1>2, <1>3

LEMMA CrashPhantoms ==
  ASSUME QInv, Crash PROVE Phantoms'
<1>1. /\ recovery'.op = 0 /\ recovery'.phase = "listing" /\ issued' = 0
      /\ recovery'.unread = {t \in Tasks : Exists(t)}
      /\ \A o \in OpIds : op'[o].phase = "unborn"
      /\ \A t \in Tasks : file'[t] = [file[t] EXCEPT !.by = 0]
  BY DEF Crash, QueueDies, Unborn
<1>0. \A t \in Tasks : file'[t].status = file[t].status
  <2>1. \A c \in Contents : [c EXCEPT !.by = 0].status = c.status
    BY DEF Contents, Record, Absent
  <2>2. \A t \in Tasks : file[t] \in Contents
    BY DEF QInv, TypeOK
  <2> QED BY <1>1, <2>1, <2>2
<1>2. \A t \in Tasks : file[t].status = "running" => Exists(t)
  BY DEF Exists, Absent
<1> QED BY <1>0, <1>1, <1>2 DEF Phantoms, Ahead, Unsettled

LEMMA StepPhantoms ==
  ASSUME QInv, Phantoms, [Next]_vars
  PROVE  Phantoms'
<1> DEFINE r == recovery.op
<1>0. /\ TypeOK /\ file \in [Tasks -> Contents] /\ held \in [OpIds -> Contents]
      /\ host \in [Tasks -> {"none", "created", "resuming", "resumed", "open", "ended"}]
      /\ issued \in Nat
      /\ \A o \in OpIds : Unsettled(o) => op[o].task \in Tasks
      /\ r # 0 => r \in OpIds /\ op[r].phase \in {"running", "accounted", "thrown"}
      /\ r <= issued
  BY Numbers, SubmittedOnly, Marking DEF QInv, TypeOK, Unsettled, Phantoms
<1>1. ASSUME NEW o \in OpIds, Start(o) PROVE Phantoms'
  <2>1. MovedTo(o, "running") /\ op[o].phase = "queued"
    BY <1>1, StartAdvances DEF Advances, Reached
  <2>2. UNCHANGED <<recovery, issued, kind, host, file>> /\ held' = [held EXCEPT ![o] = file[op[o].task]]
    BY <1>1 DEF Start, Begin
  <2>3. o # r
    BY <1>0, <2>1, Numbers
  <2> QED BY <1>0, <2>1, <2>2, <2>3, KeepPhantoms DEF MovedTo, Unsettled
<1>2. ASSUME NEW o \in OpIds, Skips(o) \/ Accounts(o) PROVE Phantoms'
  <2>1. PICK phase \in {"settled", "accounted"} : MovedTo(o, phase)
    BY <1>2, SkipAdvances, AccountAdvances DEF Advances
  <2>2. UNCHANGED <<recovery, issued, kind, host, file, held>> /\ op[o].phase \in {"queued", "settled"}
    BY <1>2 DEF Skips, Skip, Accounts, Account, QueueOnly, storeVars, Reached
  <2>3. o # r
    BY <1>0, <2>2, Numbers
  <2> QED BY <1>0, <2>1, <2>2, <2>3, KeepPhantoms DEF MovedTo, Unsettled
<1>3. ASSUME NEW o \in OpIds, Write(o) PROVE Phantoms'
  <2>1. CASE o = r
    BY <1>0, <1>3, <2>1, Numbers, MarkingOver
  <2>2. CASE o # r
    <3>1. PICK phase \in {"settled", "accounted"} : MovedTo(o, phase)
      BY <1>3, WriteAdvances DEF Advances
    <3>2. /\ op[o].phase = "running" /\ UNCHANGED <<recovery, issued, kind>>
          /\ held' = [held EXCEPT ![o] = Absent]
      BY <1>3 DEF Write, Over, Settle
    <3>3. op[o].task \in Tasks /\ host[op[o].task] # "none"
      BY <1>0, <2>2, <3>2 DEF Phantoms, Unsettled
    <3>4. \A u \in Tasks : host[u] # "none" => host'[u] # "none"
      BY <1>0, <1>3 DEF Write
    <3>5. \A u \in Tasks : u # op[o].task => file'[u] = file[u]
      BY <1>0, <1>3 DEF Write
    <3> QED BY <1>0, <2>2, <3>1, <3>2, <3>3, <3>4, <3>5, KeepPhantoms DEF MovedTo, Unsettled
  <2> QED BY <2>1, <2>2
<1>4. ASSUME NEW o \in OpIds, WriteFails(o) PROVE Phantoms'
  <2>1. CASE o = r
    BY <1>0, <1>4, <2>1, Numbers, MarkingOver
  <2>2. CASE o # r
    <3>1. PICK phase \in {"settled", "thrown"} : MovedTo(o, phase)
      BY <1>4, FailureAdvances DEF Advances
    <3>2. UNCHANGED <<recovery, issued, kind, host, file>> /\ held' = [held EXCEPT ![o] = Absent]
      BY <1>4, <2>2 DEF WriteFails, Over, Settle
    <3> QED BY <1>0, <2>2, <3>1, <3>2, KeepPhantoms DEF MovedTo, Unsettled
  <2> QED BY <2>1, <2>2
<1>5. ASSUME NEW t \in Tasks, Create(t) PROVE Phantoms'
  <2>1. UNCHANGED <<op, issued, kind, held, recovery>>
    BY <1>5 DEF Create, queueVars
  <2>2. host' = [host EXCEPT ![t] = "created"] /\ \A u \in Tasks : u # t => file'[u] = file[u]
    BY <1>0, <1>5 DEF Create
  <2> QED BY <1>0, <2>1, <2>2, KeepPhantoms DEF Unsettled
<1>6. ASSUME NEW t \in Tasks, NEW k \in Kinds, Direct(t, k), UNCHANGED <<file, recovery>>,
             host'[t] # "none", \A u \in Tasks : u # t => host'[u] = host[u]
      PROVE  Phantoms'
  <2> DEFINE new == issued + 1
  <2>1. /\ Submitted(new, Unqueued(t)) /\ issued' = new
        /\ \A p \in OpIds : p # new => kind'[p] = kind[p] /\ held'[p] = held[p]
    BY <1>0, <1>6, SubmitsDirect
  <2>2. /\ op'[new].task = t /\ \A p \in OpIds : p # new => op'[p] = op[p]
    BY <2>1 DEF Submitted, Unqueued
  <2>3. r # new
    BY <1>0
  <2> QED BY <1>0, <1>6, <2>1, <2>2, <2>3, KeepPhantoms DEF Unsettled
<1>7. ASSUME NEW t \in Tasks, Preamble(t) PROVE Phantoms'
  <2>0. UNCHANGED <<file, recovery>> /\ host' = [host EXCEPT ![t] = "open"]
    BY <1>7 DEF Preamble
  <2>1. CASE Direct(t, "user")
    BY <1>0, <1>6, <2>0, <2>1 DEF Kinds
  <2>2. CASE ~Direct(t, "user")
    <3> DEFINE seed == issued + 1
               user == issued + 2
    <3>1. Both(t)
      BY <1>0, <1>7, <2>2, SubmitsBoth
    <3>2. /\ op'[seed].task = t /\ op'[user].task = t /\ issued' = user
          /\ \A p \in OpIds : p # seed /\ p # user =>
                op'[p] = op[p] /\ kind'[p] = kind[p] /\ held'[p] = held[p]
      BY <3>1 DEF Both, Unqueued
    <3>3. r # seed /\ r # user
      BY <1>0
    <3> QED BY <1>0, <2>0, <3>2, <3>3, KeepPhantoms DEF Unsettled
  <2> QED BY <2>1, <2>2
<1>8. ASSUME NEW t \in Tasks, Resume(t) PROVE Phantoms'
  BY <1>0, <1>6, <1>8 DEF Resume, Kinds
<1>9. ASSUME NEW t \in Tasks, Resumed(t) PROVE Phantoms'
  <2>1. UNCHANGED <<op, issued, kind, held, recovery, file>> /\ host' = [host EXCEPT ![t] = "open"]
    BY <1>9 DEF Resumed, queueVars
  <2> QED BY <1>0, <2>1, KeepPhantoms DEF Unsettled
<1>10. ASSUME NEW t \in Tasks, Delete(t) PROVE Phantoms'
  <2>1. UNCHANGED <<op, issued, kind, held, recovery, host>> /\ file' = [file EXCEPT ![t] = Absent]
    BY <1>10 DEF Delete, queueVars
  <2> QED BY <1>0, <2>1, KeepPhantoms DEF Unsettled, Absent
<1>11. ASSUME NEW t \in Tasks, NEW k \in {"append", "interrupted", "completed"}, Event(t, k)
       PROVE  Phantoms'
  <2> DEFINE new == issued + 1
  <2>1. PICK c \in OpIds :
          /\ Submitted(new, [task |-> t, chain |-> c, epoch |-> epoch[c], phase |-> "queued"])
          /\ issued' = new
    BY <1>0, <1>11, SubmitsQueued DEF Event
  <2>2. op'[new].task = t /\ \A p \in OpIds : p # new => op'[p] = op[p]
    BY <2>1 DEF Submitted
  <2>3. /\ UNCHANGED <<file, held, recovery>> /\ host'[t] # "none"
        /\ \A u \in Tasks : u # t => host'[u] = host[u]
    BY <1>0, <1>11 DEF Event
  <2>4. \A p \in OpIds : p # new => kind'[p] = kind[p]
    BY <1>0, <1>11 DEF Event, TypeOK
  <2>5. r # new
    BY <1>0
  <2> QED BY <1>0, <2>1, <2>2, <2>3, <2>4, <2>5, KeepPhantoms DEF Unsettled
<1>12. ASSUME NEW t \in Tasks, Around(t) PROVE Phantoms'
  <2>1. /\ \E k \in Kinds : Direct(t, k)
        /\ UNCHANGED <<file, recovery>> /\ host'[t] # "none"
        /\ \A u \in Tasks : u # t => host'[u] = host[u]
    BY <1>0, <1>12 DEF Around, Kinds
  <2> QED BY <1>6, <2>1
<1>13. CASE \/ \E t \in Tasks : (Cancel(t) \/ Drain(t) \/ DrainLap(t)) /\ QueueOnly
            \/ DisposeAll /\ QueueOnly
            \/ UNCHANGED vars
  <2>1. UNCHANGED <<op, issued, kind, held, recovery, host, file>>
    BY <1>13 DEF Cancel, Drain, DrainLap, DisposeAll, QueueOnly, storeVars, vars, queueVars
  <2> QED BY <1>0, <2>1, KeepPhantoms DEF Unsettled
<1>14. CASE (\E t \in Tasks : List(t) \/ Mark(t)) \/ Recovered
  BY <1>14, RecoverySteps
<1>15. CASE Crash
  BY <1>15, CrashPhantoms
<1> QED BY <1>1, <1>2, <1>3, <1>4, <1>5, <1>7, <1>8, <1>9, <1>10, <1>11, <1>12,
          <1>13, <1>14, <1>15 DEF Next, Drains

\* Once the recovery at startup has completed, what is running on disk was created
\* or resumed by this session.
THEOREM RecoveryIsComplete == Spec => []NoPhantomRunning
<1>1. Init => Phantoms
  <2> SUFFICES ASSUME Init PROVE Phantoms
    OBVIOUS
  <2>1. /\ \A t \in Tasks : file[t].status # "running"
        /\ \A o \in OpIds : op[o].phase = "unborn"
        /\ recovery = [phase |-> "done", unread |-> {}, phantom |-> {}, op |-> 0]
        /\ issued = 0
    BY DEF Init, QueueInit, Unborn, Absent
  <2> QED BY <2>1 DEF Phantoms, Unsettled
<1>2. ASSUME QInv, Phantoms, [Next]_vars PROVE Phantoms'
  BY <1>2, StepPhantoms
<1>3. QInv /\ Phantoms => NoPhantomRunning
  <2> SUFFICES ASSUME QInv, Phantoms, recovery.phase = "done", NEW t \in Tasks,
                      file[t].status = "running", host[t] = "none"
               PROVE  FALSE
    BY DEF NoPhantomRunning
  <2>1. Ahead(t)
    BY DEF Phantoms
  <2> QED BY <2>1 DEF Ahead, Phantoms
<1> QED BY <1>1, <1>2, <1>3, QueueInvariant, PTL DEF Spec
=============================================================================
