---------------------------- MODULE FileMutation ----------------------------
(* FileMutationService (changeset-engine/src/m5/file-mutation.ts): the one path *)
(* by which the assistant changes files, and its ledger of tracked changes.     *)
(*                                                                             *)
(* A file is a content or Absent; hashContent() is taken to tell contents       *)
(* apart.  The kinds kept are those its callers in src/ ask for: rename, move   *)
(* and the directory kinds have no caller.                                     *)
EXTENDS Integers, Sequences

CONSTANTS Files, Tasks,
          Contents, Empty,   \* of a file; Empty is the empty string
          MaxTracked         \* maxTrackedChanges

Absent == "absent"
Unchecked == "unchecked"     \* an op without expectedHash

ASSUME FileMutationConstants ==
    /\ Empty \in Contents
    /\ Absent \notin Contents /\ Unchecked \notin Contents
    /\ MaxTracked \in Nat \ {0, 1}   \* the half of 1 rounds down to nothing

VARIABLES
    disk,     \* the workspace
    ledger,   \* tracked changes, oldest first
    known,    \* history: the contents of each file that the service wrote or showed
    foreign   \* history: files edited by someone else since the service wrote them

State == Contents \cup {Absent}

Op == [kind : {"create", "write", "modify"}, file : Files, content : Contents,
       expected : Contents \cup {Unchecked}]
   \cup [kind : {"delete"}, file : Files, content : {Absent},
         expected : Contents \cup {Unchecked}]

Change == [task : Tasks, kind : {"none", "create", "write", "delete"},
           file : Files, old : State, new : State,
           status : {"applied", "failed", "reverted"}]

FileMutationTypeOK ==
    /\ disk \in [Files -> State]
    /\ ledger \in Seq(Change)
    /\ Len(ledger) <= MaxTracked
    /\ known \in [Files -> SUBSET Contents]
    /\ foreign \subseteq Files

FileMutationInit ==
    /\ disk \in [Files -> State]
    /\ ledger = <<>>
    /\ known = [f \in Files |-> {}]
    /\ foreign = {}

\* Faulty: the oldest changes are kept.
Recorded_KeepsOldest(s, change) ==
    LET t == Append(s, change)
    IN  IF Len(t) <= MaxTracked THEN t ELSE SubSeq(t, 1, MaxTracked \div 2)

\* record(): at the limit the older half of the ledger goes.
Recorded(s, change) ==
    LET t == Append(s, change)
    IN  IF Len(t) <= MaxTracked THEN t
        ELSE SubSeq(t, Len(t) - (MaxTracked \div 2) + 1, Len(t))

\* Faulty: expectedHash is not compared again when the op is executed.
Concurrent_Trusted(op) == FALSE

\* CONCURRENT_MODIFICATION: the file is not what the caller expects.
Concurrent(op) ==
    /\ op.expected # Unchecked
    /\ disk[op.file] # op.expected
    /\ op.kind = "write" \/ disk[op.file] # Absent

\* FILE_ALREADY_EXISTS and FILE_NOT_FOUND.
Misplaced(op) ==
    \/ op.kind = "create" /\ disk[op.file] # Absent
    \/ op.kind \in {"modify", "delete"} /\ disk[op.file] = Absent

Succeeds(op) == ~Misplaced(op) /\ ~Concurrent(op)

\* The record of an op: a write onto a missing file is a creation, and nothing
\* tells a modify from a write afterwards.  A failed op leaves no contents.
Tracked(op, task) ==
    IF Succeeds(op)
    THEN [task |-> task, file |-> op.file, old |-> disk[op.file], new |-> op.content,
          kind |-> CASE op.kind = "delete" -> "delete"
                     [] op.kind # "delete" /\ disk[op.file] = Absent -> "create"
                     [] op.kind # "delete" /\ disk[op.file] # Absent -> "write",
          status |-> "applied"]
    ELSE [task |-> task, file |-> op.file, old |-> Absent, new |-> Absent,
          kind |-> "none", status |-> "failed"]

Logged(op, task) == Recorded(ledger, Tracked(op, task))

Writes(op) ==
    IF Succeeds(op)
    THEN /\ disk' = [disk EXCEPT ![op.file] = op.content]
         /\ known' = [known EXCEPT ![op.file] = @ \cup ({op.content} \cap Contents)]
         /\ foreign' = foreign \ {op.file}
    ELSE UNCHANGED <<disk, known, foreign>>

\* executeOp(): the check and the write of one file are one step.
ExecuteOp(op, task) == ledger' = Logged(op, task) /\ Writes(op)

\* Another program edits a file.
ExternalEdit(f, content) ==
    /\ content # disk[f]
    /\ disk' = [disk EXCEPT ![f] = content]
    /\ foreign' = foreign \cup {f}
    /\ UNCHANGED <<ledger, known>>
=============================================================================
