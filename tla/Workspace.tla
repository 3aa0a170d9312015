------------------------------ MODULE Workspace ------------------------------
(* The edits of an assistant and their undoing: ChangeSetManager                *)
(* (changeset-engine/src/index.ts), CheckpointManager (m5/checkpoint-manager.ts) *)
(* and the M5 tools over one FileMutationService, with the extension's handlers *)
(* around them.                                                                *)
(*                                                                             *)
(* JavaScript runs one operation at a time, but restoring and reverting touch   *)
(* several files, and other programs edit the workspace in between: each of     *)
(* their file operations is a step of "job".                                   *)
EXTENDS FileMutation, FiniteSets

CONSTANTS MaxStaged,       \* bound on staged changes
          MaxCheckpoints,  \* the option of that name
          MaxEdits,        \* bound on the edits of other programs
          MaxOps           \* bound on the operations asked for, restarts included

ASSUME WorkspaceConstants ==
    /\ IsFiniteSet(Files)
    /\ MaxCheckpoints \in Nat \ {0, 1}
    /\ MaxStaged \in Nat /\ MaxEdits \in Nat /\ MaxOps \in Nat

VARIABLES
    staged,        \* the proposed changes of all change sets
    checkpoints,   \* oldest first
    job,           \* the restore or revert at work
    used           \* how much of the bounds is used

vars == <<disk, ledger, known, foreign, staged, checkpoints, job, used>>

Proposal == [task : Tasks, file : Files, original : Contents, proposed : State,
             status : {"pending", "applied", "rejected", "failed", "conflict",
                       "rolled_back"}]

\* The files a checkpoint captured, with their contents.
Capture == UNION {[S -> State] : S \in SUBSET Files}

Checkpoint == [task : Tasks, files : Capture, status : {"active", "restored"}]

NoJob == [kind |-> "none"]

Restoring == [kind : {"restore"}, at : Nat, task : Tasks, todo : Seq(Op),
              conflict : BOOLEAN, failed : BOOLEAN, edited : SUBSET Files]
Reverting == [kind : {"revert"}, task : Tasks, todo : Seq(Int), ok : BOOLEAN,
              base : Capture, edited : SUBSET Files]

Bounds == [edits : 0..MaxEdits, ops : 0..MaxOps]

TypeOK ==
    /\ FileMutationTypeOK
    /\ staged \in Seq(Proposal)
    /\ checkpoints \in Seq(Checkpoint)
    /\ Len(checkpoints) <= MaxCheckpoints
    /\ job \in {NoJob} \cup Restoring \cup Reverting
    /\ job.kind = "restore" => job.at \in DOMAIN checkpoints
    /\ used \in Bounds

Init ==
    /\ FileMutationInit
    /\ staged = <<>>
    /\ checkpoints = <<>>
    /\ job = NoJob
    /\ used = [edits |-> 0, ops |-> 0]

Idle == job = NoJob

\* One more operation is asked for.
Asked == used.ops < MaxOps /\ used' = [used EXCEPT !.ops = @ + 1]

Applied(task) ==
    {i \in DOMAIN ledger : ledger[i].task = task /\ ledger[i].status = "applied"}

---------------------------------------------------------------------------
\* apply_file_changes: a write, or a modify of what the model has read.
Apply(task, f, content, expected) ==
    /\ Idle /\ Asked
    /\ ExecuteOp([kind |-> IF expected = Unchecked THEN "write" ELSE "modify",
                  file |-> f, content |-> content, expected |-> expected], task)
    /\ UNCHANGED <<staged, checkpoints, job>>

\* A save in the editor, a build, a command of the agent.
Edit(f, content) ==
    /\ used.edits < MaxEdits
    /\ ExternalEdit(f, content)
    /\ used' = [used EXCEPT !.edits = @ + 1]
    /\ job' = IF Idle THEN job ELSE [job EXCEPT !.edited = @ \cup {f}]
    /\ UNCHANGED <<staged, checkpoints>>

---------------------------------------------------------------------------
\* CheckpointManager.createCheckpoint(): the files named and those the task's
\* applied changes touched.
Captured(named, task, changes, files) ==
    LET touched == {changes[i].file : i \in {j \in DOMAIN changes :
                      changes[j].task = task /\ changes[j].status = "applied"}}
    IN  [f \in named \cup touched |-> files[f]]

\* trimCheckpoints(): beyond the limit the older half goes.
Kept(s) == IF Len(s) <= MaxCheckpoints THEN s
           ELSE SubSeq(s, Len(s) - (MaxCheckpoints \div 2) + 1, Len(s))

WithCheckpoint(task, capture) ==
    Kept(Append(checkpoints, [task |-> task, files |-> capture, status |-> "active"]))

CreateCheckpoint(task, named) ==
    /\ Idle /\ Asked
    /\ checkpoints' = WithCheckpoint(task, Captured(named, task, ledger, disk))
    /\ UNCHANGED <<disk, ledger, known, foreign, staged, job>>

\* deleteCheckpoint(): never an active one.
DeleteCheckpoint(i) ==
    /\ Idle
    /\ checkpoints[i].status # "active"
    /\ checkpoints' = SubSeq(checkpoints, 1, i - 1)
                        \o SubSeq(checkpoints, i + 1, Len(checkpoints))
    /\ UNCHANGED <<disk, ledger, known, foreign, staged, job, used>>

---------------------------------------------------------------------------
\* ChangeSetManager: a proposal shows the file as readFileSafe() reads it.

Text(content) == IF content = Absent THEN Empty ELSE content

\* createChangeSet(); a proposal of Absent is a staged deletion.
Stage(task, f, proposed) ==
    /\ Idle /\ Asked /\ Len(staged) < MaxStaged
    /\ staged' = Append(staged, [task |-> task, file |-> f, original |-> Text(disk[f]),
                                 proposed |-> proposed, status |-> "pending"])
    /\ known' = [known EXCEPT ![f] = @ \cup {Text(disk[f])}]
    /\ UNCHANGED <<disk, ledger, foreign, checkpoints, job>>

Marked(i, status) == staged' = [staged EXCEPT ![i].status = status]

\* checkConflict(): a file that is gone is taken for new.
Conflicts(c) == disk[c.file] # Absent /\ disk[c.file] # c.original

AcceptOp(c) ==
    IF c.proposed = Absent
    THEN [kind |-> "delete", file |-> c.file, content |-> Absent, expected |-> c.original]
    ELSE IF disk[c.file] = Absent
    THEN [kind |-> "create", file |-> c.file, content |-> c.proposed, expected |-> Unchecked]
    ELSE [kind |-> "modify", file |-> c.file, content |-> c.proposed, expected |-> c.original]

\* diff/accept: acceptChange(), and a checkpoint once it has succeeded; acceptAll()
\* takes none.
Accept(i, checkpointed) ==
    LET c == staged[i] IN
    /\ Idle /\ c.status = "pending"
    /\ \/ /\ Conflicts(c)
          /\ Marked(i, "conflict")
          /\ UNCHANGED <<disk, ledger, known, foreign, checkpoints>>
       \/ /\ ~Conflicts(c)
          /\ ExecuteOp(AcceptOp(c), c.task)
          /\ Marked(i, IF Succeeds(AcceptOp(c)) THEN "applied" ELSE "failed")
          /\ checkpoints' = IF checkpointed /\ Succeeds(AcceptOp(c))
                            THEN WithCheckpoint(c.task, Captured({}, c.task, ledger', disk'))
                            ELSE checkpoints
    /\ UNCHANGED <<job, used>>

\* rejectChange(), whatever the status of the change.
Reject(i) ==
    /\ Idle
    /\ Marked(i, "rejected")
    /\ UNCHANGED <<disk, ledger, known, foreign, checkpoints, job, used>>

\* rollbackChange(): the content of a file that was empty or missing is "", and
\* its rollback is a deletion.
RollbackOp(c) ==
    IF c.proposed = Absent
    THEN [kind |-> "create", file |-> c.file, content |-> c.original, expected |-> Unchecked]
    ELSE IF c.original # Empty
    THEN [kind |-> "modify", file |-> c.file, content |-> c.original, expected |-> c.proposed]
    ELSE [kind |-> "delete", file |-> c.file, content |-> Absent, expected |-> Unchecked]

Rollback(i) ==
    LET c == staged[i] IN
    /\ Idle /\ c.status = "applied"
    /\ c.proposed # Absent => disk[c.file] = c.proposed
    /\ ExecuteOp(RollbackOp(c), c.task)
    /\ Marked(i, IF Succeeds(RollbackOp(c)) THEN "rolled_back" ELSE c.status)
    /\ UNCHANGED <<checkpoints, job, used>>

---------------------------------------------------------------------------
\* CheckpointManager.restoreCheckpoint().

\* The content the task's last applied change left in f, or "none".
LastOf(task, f) ==
    LET own == {i \in Applied(task) : ledger[i].file = f}
    IN  IF own = {} THEN [kind |-> "none", new |-> Absent]
        ELSE LET last == CHOOSE i \in own : \A j \in own : j <= i
             IN  [kind |-> ledger[last].kind, new |-> ledger[last].new]

\* planRestoreOp(): f differs from the checkpoint, and it was the task that made
\* it so; the rest of what differs is a conflict.
Planned(cp, f) ==
    LET then == cp.files[f] IN
    CASE disk[f] = then -> FALSE
      [] disk[f] # then /\ disk[f] = Absent -> LastOf(cp.task, f).kind = "delete"
      [] disk[f] # then /\ disk[f] # Absent -> LastOf(cp.task, f).new = disk[f]

\* Faulty: a file that has disappeared is not looked at.
InConflict_PresentOnly(cp, f) ==
    disk[f] \notin {cp.files[f], Absent} /\ ~Planned(cp, f)

InConflict(cp, f) == disk[f] # cp.files[f] /\ ~Planned(cp, f)

RestoreOp(cp, f) ==
    CASE cp.files[f] = Absent ->
           [kind |-> "delete", file |-> f, content |-> Absent, expected |-> disk[f]]
      [] cp.files[f] # Absent /\ disk[f] # Absent ->
           [kind |-> "write", file |-> f, content |-> cp.files[f], expected |-> disk[f]]
      [] cp.files[f] # Absent /\ disk[f] = Absent ->
           [kind |-> "create", file |-> f, content |-> cp.files[f], expected |-> Unchecked]

\* All files are looked at before any is written.
RestoreStarts(i, task) ==
    LET cp == checkpoints[i]
        planned == {f \in DOMAIN cp.files : Planned(cp, f)}
    IN  /\ Idle /\ Asked
        /\ \E order \in [1..Cardinality(planned) -> planned] :
              /\ \A m, n \in DOMAIN order : m # n => order[m] # order[n]
              /\ job' = [kind |-> "restore", at |-> i, task |-> task,
                         todo |-> [n \in DOMAIN order |-> RestoreOp(cp, order[n])],
                         conflict |-> \E f \in DOMAIN cp.files : InConflict(cp, f),
                         failed |-> FALSE, edited |-> {}]
        /\ UNCHANGED <<disk, ledger, known, foreign, staged, checkpoints>>

\* One op of the batch; after a failure the others are skipped.
RestoreStep ==
    LET op == Head(job.todo) IN
    /\ job.kind = "restore" /\ job.todo # <<>>
    /\ ExecuteOp(op, job.task)
    /\ job' = IF Succeeds(op) THEN [job EXCEPT !.todo = Tail(@)]
              ELSE [job EXCEPT !.todo = <<>>,
                               !.conflict = @ \/ ~Misplaced(op),
                               !.failed = Misplaced(op) \/ Len(job.todo) > 1]
    /\ UNCHANGED <<staged, checkpoints, used>>

RestoreEnds ==
    /\ job.kind = "restore" /\ job.todo = <<>>
    /\ checkpoints' = IF job.failed THEN checkpoints
                      ELSE [checkpoints EXCEPT ![job.at].status = "restored"]
    /\ job' = NoJob
    /\ UNCHANGED <<disk, ledger, known, foreign, staged, used>>

---------------------------------------------------------------------------
\* CheckpointManager.revertChange() and revertTaskChanges().

\* Faulty: the file is not compared with what the change left.
InverseOp_Unchecked(change) ==
    CASE change.kind = "create" ->
           [kind |-> "delete", file |-> change.file, content |-> Absent,
            expected |-> Unchecked]
      [] change.kind = "write" ->
           [kind |-> "write", file |-> change.file, content |-> change.old,
            expected |-> Unchecked]
      [] change.kind = "delete" ->
           [kind |-> "create", file |-> change.file, content |-> change.old,
            expected |-> Unchecked]

\* inverseOpFor().
InverseOp(change) ==
    CASE change.kind = "create" ->
           [kind |-> "delete", file |-> change.file, content |-> Absent,
            expected |-> change.new]
      [] change.kind = "write" ->
           [kind |-> "write", file |-> change.file, content |-> change.old,
            expected |-> change.new]
      [] change.kind = "delete" ->
           [kind |-> "create", file |-> change.file, content |-> change.old,
            expected |-> Unchecked]

\* History: the files on which the changes follow one another up to the disk, with
\* what was there before the first of them.
Base(indices) ==
    LET On(f)      == {i \in indices : ledger[i].file = f}
        Next(i, f) == {j \in On(f) : j > i}
        Chained(f) == \A i \in On(f) :
                        IF Next(i, f) = {} THEN ledger[i].new = disk[f]
                        ELSE \E j \in Next(i, f) :
                               /\ \A k \in Next(i, f) : j <= k
                               /\ ledger[i].new = ledger[j].old
    IN  [f \in {g \in Files : On(g) # {} /\ Chained(g)} |->
           ledger[CHOOSE i \in On(f) : \A j \in On(f) : i <= j].old]

RevertStarts(todo, task) ==
    /\ Idle /\ Asked
    /\ job' = [kind |-> "revert", task |-> task, todo |-> todo, ok |-> TRUE,
               base |-> Base({todo[n] : n \in DOMAIN todo}), edited |-> {}]
    /\ UNCHANGED <<disk, ledger, known, foreign, staged, checkpoints>>

RevertChange(i, task) == i \in Applied(ledger[i].task) /\ RevertStarts(<<i>>, task)

\* Oldest first.
RevertTask(task) ==
    LET own == Applied(task)
    IN  /\ own # {}
        /\ \E todo \in [1..Cardinality(own) -> own] :
              /\ \A m, n \in DOMAIN todo : m < n => todo[m] < todo[n]
              /\ RevertStarts(todo, task)

\* One inverse op.  Its own record may push out of the ledger changes that are
\* still to be reverted: looking one up throws.
RevertStep ==
    LET i     == Head(job.todo)
        op    == InverseOp(ledger[i])
        gone  == Len(ledger) + 1 - Len(Logged(op, job.task))
        later == [n \in 1..(Len(job.todo) - 1) |-> job.todo[n + 1] - gone]
    IN  /\ job.kind = "revert" /\ job.todo # <<>>
        /\ \/ /\ i <= 0
              /\ job' = [job EXCEPT !.todo = <<>>, !.ok = FALSE]
              /\ UNCHANGED <<disk, ledger, known, foreign>>
           \/ /\ i > 0
              /\ Writes(op)
              /\ ledger' = [n \in DOMAIN Logged(op, job.task) |->
                              IF n = i - gone /\ Succeeds(op)
                              THEN [ledger[i] EXCEPT !.status = "reverted"]
                              ELSE Logged(op, job.task)[n]]
              /\ job' = [job EXCEPT !.todo = later, !.ok = @ /\ Succeeds(op)]
        /\ UNCHANGED <<staged, checkpoints, used>>

RevertEnds ==
    /\ job.kind = "revert" /\ job.todo = <<>>
    /\ job' = NoJob
    /\ UNCHANGED <<disk, ledger, known, foreign, staged, checkpoints, used>>

---------------------------------------------------------------------------
\* The host restarts: the ledger and the change sets are gone, the checkpoints are
\* read back (loadFromDisk()).
Restart ==
    /\ Asked
    /\ ledger' = <<>> /\ staged' = <<>> /\ job' = NoJob
    /\ known' = [f \in Files |-> {}]
    /\ UNCHANGED <<disk, foreign, checkpoints>>

Next ==
    \/ \E t \in Tasks, f \in Files, c \in Contents, e \in Contents \cup {Unchecked} :
          Apply(t, f, c, e)
    \/ \E f \in Files, c \in State : Edit(f, c)
    \/ \E t \in Tasks, named \in {{}, Files} : CreateCheckpoint(t, named)
    \/ \E i \in DOMAIN checkpoints : DeleteCheckpoint(i)
    \/ \E t \in Tasks, f \in Files, c \in State : Stage(t, f, c)
    \/ \E i \in DOMAIN staged : Accept(i, TRUE) \/ Accept(i, FALSE) \/ Reject(i) \/ Rollback(i)
    \/ \E i \in DOMAIN checkpoints, t \in Tasks : RestoreStarts(i, t)
    \/ RestoreStep \/ RestoreEnds
    \/ \E i \in DOMAIN ledger, t \in Tasks : RevertChange(i, t)
    \/ \E t \in Tasks : RevertTask(t)
    \/ RevertStep \/ RevertEnds
    \/ Restart

Spec == Init /\ [][Next]_vars

---------------------------------------------------------------------------
\* Restoring, reverting, accepting and rolling back never take away a content that
\* the assistant has neither written nor shown, whoever edits the files in between
\* (expectedHash, planRestoreOp, inverseOpFor: "never silently overwrites user work").
NothingUnseenIsLost ==
    [][used' = used =>
         \A f \in Files : disk'[f] # disk[f] => disk[f] \in known[f] \cup {Absent}]_vars

\* A restore without conflict or failure has put every file of the checkpoint back,
\* except those edited meanwhile (restoreCheckpoint).
RestoreIsExact ==
    job.kind = "restore" /\ job.todo = <<>> /\ ~job.failed /\ ~job.conflict
      => LET files == checkpoints[job.at].files
         IN  \A f \in DOMAIN files \ job.edited : disk[f] = files[f]

\* A revert that reports success has undone all the changes it set out to undo,
\* although it goes through them oldest first (revertTaskChanges).
RevertIsExact ==
    job.kind = "revert" /\ job.todo = <<>> /\ job.ok
      => \A f \in DOMAIN job.base \ job.edited : disk[f] = job.base[f]

\* Where nobody else has edited a file, the ledger's last word on it is what is on
\* disk, through undoing, failing and forgetting old changes (record, revertChange).
LedgerTellsDisk ==
    \A i \in DOMAIN ledger :
        LET f == ledger[i].file IN
        /\ ledger[i].status # "failed"
        /\ f \notin foreign
        /\ \A j \in DOMAIN ledger : j > i /\ ledger[j].file = f => ledger[j].status = "failed"
        => disk[f] = ledger[i].new
=============================================================================
