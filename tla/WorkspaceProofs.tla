-------------------------- MODULE WorkspaceProofs --------------------------
(* Proofs about Workspace, for any files, contents, ledger, number of changes and *)
(* checkpoints: types, what the ledger tells, that nothing unseen is lost, and     *)
(* that restoring and reverting are exact.                                        *)
EXTENDS Workspace, TLAPS, WellFoundedInduction, FiniteSetTheorems

---------------------------------------------------------------------------
\* The inductive invariant.

\* What the kind of a change says of its contents.
Consistent(c, shown) ==
    /\ c.kind = "create" => c.old = Absent /\ c.new \in Contents
    /\ c.kind = "write" => c.old \in Contents /\ c.new \in Contents
    /\ c.kind = "delete" => c.old \in Contents /\ c.new = Absent
    /\ c.kind = "none" => c.status = "failed"
    /\ c.new \in shown[c.file] \cup {Absent}

Ledgered == \A i \in DOMAIN ledger : Consistent(ledger[i], known)

\* A proposal was made of what was shown, and what was applied has been written.
Shown(c, shown) ==
    /\ c.original \in shown[c.file]
    /\ c.status = "applied" /\ c.proposed # Absent => c.proposed \in shown[c.file]

Staged == \A i \in DOMAIN staged : Shown(staged[i], known)

\* The ops of a restore expect what the assistant has written.
Expects(op, shown) == op.kind = "create" \/ op.expected \in shown[op.file]

Expected == job.kind = "restore" => \A n \in DOMAIN job.todo : Expects(job.todo[n], known)

\* As long as nothing has gone wrong, what is not yet as it was is still to be done.
Restored(files) ==
    /\ \A n \in DOMAIN job.todo :
          /\ job.todo[n].file \in DOMAIN files
          /\ job.todo[n].content = files[job.todo[n].file]
    /\ \A f \in DOMAIN files \ job.edited :
          disk[f] = files[f] \/ \E n \in DOMAIN job.todo : job.todo[n].file = f

Restores ==
    job.kind = "restore" /\ ~job.failed /\ ~job.conflict
      => Restored(checkpoints[job.at].files)

\* A revert goes through changes that were applied, oldest first.
Ordered(todo, L) ==
    /\ \A n \in DOMAIN todo :
          todo[n] <= Len(L) /\ (todo[n] > 0 => L[todo[n]].kind # "none")
    /\ \A m, n \in DOMAIN todo : m < n => todo[m] < todo[n]

Reverts == job.kind = "revert" => Ordered(job.todo, ledger)

On(todo, L, f) == {n \in DOMAIN todo : L[todo[n]].file = f}

First(S, n) == n \in S /\ \A m \in S : n <= m
Last(S, n) == n \in S /\ \A m \in S : m <= n
Follows(S, m, n) == m \in S /\ n \in S /\ m < n /\ \A k \in S : m < k => n <= k

\* Reverting changes that follow one another oldest first succeeds only if they go
\* back and forth between two contents, b and x: the file has one of them, the
\* oldest change left replaced the other, and the last one wrote x.
Alternates(todo, L, f, now, b, x) ==
    LET S == On(todo, L, f)
        c(n) == L[todo[n]]
    IN  /\ S = {} => now = b
        /\ \A n \in S : First(S, n) => <<now, c(n).old>> \in {<<x, b>>, <<b, x>>}
        /\ \A n \in S : Last(S, n) => c(n).new = x
        /\ \A m, n \in S : Follows(S, m, n) => c(n).old = c(m).new

Undoes ==
    job.kind = "revert" /\ job.ok /\ (\A n \in DOMAIN job.todo : job.todo[n] > 0)
      => \A f \in DOMAIN job.base \ job.edited :
            \E x \in State : Alternates(job.todo, ledger, f, disk[f], job.base[f], x)

FilesOK == FileMutationTypeOK /\ Ledgered /\ LedgerTellsDisk

StagedOK == staged \in Seq(Proposal) /\ Staged

CheckpointsOK == checkpoints \in Seq(Checkpoint) /\ Len(checkpoints) <= MaxCheckpoints

JobOK ==
    /\ job \in {NoJob} \cup Restoring \cup Reverting
    /\ job.kind = "restore" => job.at \in DOMAIN checkpoints
    /\ Expected /\ Restores /\ Reverts /\ Undoes

WInv == FilesOK /\ StagedOK /\ CheckpointsOK /\ JobOK /\ used \in Bounds

---------------------------------------------------------------------------
\* One op and its record.

LEMMA SubSeqFacts ==
  ASSUME NEW S, NEW t \in Seq(S), NEW a \in 1..(Len(t) + 1), NEW b \in 0..Len(t), a <= b + 1
  PROVE  /\ SubSeq(t, a, b) \in Seq(S)
         /\ Len(SubSeq(t, a, b)) = b - a + 1
         /\ \A n \in 1..(b - a + 1) : SubSeq(t, a, b)[n] = t[a + n - 1]
OBVIOUS

LEMMA OpFacts ==
  ASSUME NEW op \in Op
  PROVE  /\ op.kind \in {"create", "write", "modify", "delete"}
         /\ op.file \in Files /\ op.content \in State
         /\ op.kind = "delete" => op.content = Absent
         /\ op.kind # "delete" => op.content \in Contents
         /\ op.expected \in Contents \cup {Unchecked}
BY DEF Op, State

LEMMA Literals ==
  /\ Empty \in Contents /\ Absent \notin Contents /\ Unchecked \notin Contents
  /\ Absent # Unchecked /\ State = Contents \cup {Absent}
BY FileMutationConstants DEF Absent, Unchecked, State

LEMMA ChangeFacts ==
  ASSUME NEW c \in Change
  PROVE  /\ c.task \in Tasks /\ c.file \in Files /\ c.old \in State /\ c.new \in State
         /\ c.kind \in {"none", "create", "write", "delete"}
         /\ c.status \in {"applied", "failed", "reverted"}
BY DEF Change

LEMMA ConcatFacts ==
  ASSUME NEW S, NEW s \in Seq(S), NEW t \in Seq(S)
  PROVE  s \o t \in Seq(S) /\ Len(s \o t) = Len(s) + Len(t)
OBVIOUS

\* What an op that succeeds finds.
LEMMA SucceedsFinds ==
  ASSUME FileMutationTypeOK, NEW op \in Op, Succeeds(op)
  PROVE  /\ disk[op.file] \in State
         /\ op.kind = "create" => disk[op.file] = Absent
         /\ op.kind \in {"modify", "delete"} => disk[op.file] \in Contents
         /\ op.expected # Unchecked =>
               disk[op.file] = op.expected \/ op.kind = "create"
BY OpFacts, Literals DEF FileMutationTypeOK, Succeeds, Misplaced, Concurrent

LEMMA TrackedFacts ==
  ASSUME FileMutationTypeOK, NEW op \in Op, NEW task \in Tasks
  PROVE  /\ Tracked(op, task) \in Change
         /\ Tracked(op, task).file = op.file
         /\ Succeeds(op) => /\ Tracked(op, task).status = "applied"
                            /\ Tracked(op, task).new = op.content
                            /\ Tracked(op, task).kind # "none"
         /\ ~Succeeds(op) => /\ Tracked(op, task).status = "failed"
                             /\ Tracked(op, task).new = Absent
                             /\ Tracked(op, task).kind = "none"
         /\ Tracked(op, task).kind = "create"
               => Tracked(op, task).old = Absent /\ Tracked(op, task).new \in Contents
         /\ Tracked(op, task).kind = "write"
               => Tracked(op, task).old \in Contents /\ Tracked(op, task).new \in Contents
         /\ Tracked(op, task).kind = "delete"
               => Tracked(op, task).old \in Contents /\ Tracked(op, task).new = Absent
<1> DEFINE c == Tracked(op, task)
<1>1. CASE Succeeds(op)
  <2>1. /\ disk[op.file] \in State
        /\ op.kind = "create" => disk[op.file] = Absent
        /\ op.kind \in {"modify", "delete"} => disk[op.file] \in Contents
    BY <1>1, SucceedsFinds
  <2>2. c = [task |-> task, file |-> op.file, old |-> disk[op.file], new |-> op.content,
             kind |-> CASE op.kind = "delete" -> "delete"
                        [] op.kind # "delete" /\ disk[op.file] = Absent -> "create"
                        [] op.kind # "delete" /\ disk[op.file] # Absent -> "write",
             status |-> "applied"]
    BY <1>1 DEF Tracked
  <2>3. c.kind = CASE op.kind = "delete" -> "delete"
                   [] op.kind # "delete" /\ disk[op.file] = Absent -> "create"
                   [] op.kind # "delete" /\ disk[op.file] # Absent -> "write"
    BY <2>2
  <2>4. /\ op.kind = "delete" => c.kind = "delete"
        /\ op.kind # "delete" /\ disk[op.file] = Absent => c.kind = "create"
        /\ op.kind # "delete" /\ disk[op.file] # Absent => c.kind = "write"
    BY <2>3
  <2>5. c.kind \in {"create", "write", "delete"}
    BY <2>4
  <2>6. c.task = task /\ c.file = op.file /\ c.old = disk[op.file] /\ c.new = op.content
        /\ c.status = "applied"
    BY <2>2
  <2>7. c \in Change
    <3>1. c = [task |-> task, file |-> op.file, old |-> disk[op.file], new |-> op.content,
               kind |-> c.kind, status |-> "applied"]
      BY <2>2
    <3> HIDE DEF c
    <3> QED BY <3>1, <2>5, <2>1, OpFacts DEF Change
  <2> QED
    <3> HIDE DEF c
    <3>1. c \in Change /\ c.file = op.file /\ c.status = "applied" /\ c.new = op.content
          /\ c.kind # "none"
      BY <2>5, <2>6, <2>7
    <3>2. c.kind = "create" => c.old = Absent /\ c.new \in Contents
      BY <2>4, <2>6, OpFacts
    <3>3. c.kind = "write" => c.old \in Contents /\ c.new \in Contents
      BY <2>1, <2>4, <2>6, OpFacts, Literals
    <3>4. c.kind = "delete" => c.old \in Contents /\ c.new = Absent
      BY <2>1, <2>4, <2>6, OpFacts
    <3> QED BY <1>1, <3>1, <3>2, <3>3, <3>4 DEF c
<1>2. CASE ~Succeeds(op)
  <2>1. c = [task |-> task, file |-> op.file, old |-> Absent, new |-> Absent,
             kind |-> "none", status |-> "failed"]
    BY <1>2 DEF Tracked
  <2>2. c \in Change
    BY <2>1, OpFacts, Literals DEF Change
  <2> QED BY <1>2, <2>1, <2>2
<1> QED BY <1>1, <1>2

LEMMA RecordedFacts ==
  ASSUME NEW s \in Seq(Change), Len(s) <= MaxTracked, NEW c \in Change
  PROVE  /\ Recorded(s, c) \in Seq(Change)
         /\ Len(Recorded(s, c)) \in 1..MaxTracked
         /\ Len(Recorded(s, c)) <= Len(s) + 1
         /\ Recorded(s, c)[Len(Recorded(s, c))] = c
         /\ \A n \in 1..(Len(Recorded(s, c)) - 1) :
               Recorded(s, c)[n] = s[n + (Len(s) + 1 - Len(Recorded(s, c)))]
<1> DEFINE t == Append(s, c)
           h == MaxTracked \div 2
<1>1. MaxTracked \in Nat /\ h \in Nat /\ h >= 1 /\ h <= MaxTracked
  BY FileMutationConstants
<1>2. t \in Seq(Change) /\ Len(t) = Len(s) + 1 /\ t[Len(t)] = c /\ Len(s) \in Nat
      /\ \A n \in 1..Len(s) : t[n] = s[n]
  OBVIOUS
<1>3. CASE Len(t) <= MaxTracked
  <2>1. Recorded(s, c) = t
    BY <1>3 DEF Recorded
  <2> HIDE DEF t
  <2> QED BY <1>1, <1>2, <1>3, <2>1
<1>4. CASE ~(Len(t) <= MaxTracked)
  <2> DEFINE r == SubSeq(t, Len(t) - h + 1, Len(t))
  <2>1. Recorded(s, c) = r
    BY <1>4 DEF Recorded
  <2>2. r \in Seq(Change) /\ Len(r) = h
        /\ \A n \in 1..h : r[n] = t[n + (Len(t) - h)]
    <3> HIDE DEF t, h
    <3> DEFINE a == Len(t) - h + 1
    <3>1. a \in 1..Len(t) /\ Len(t) \in Nat /\ Len(t) - a + 1 = h
          /\ \A n \in 1..h : a + n - 1 = n + (Len(t) - h)
      BY <1>1, <1>2, <1>4
    <3> HIDE DEF a
    <3>2. /\ SubSeq(t, a, Len(t)) \in Seq(Change)
          /\ Len(SubSeq(t, a, Len(t))) = Len(t) - a + 1
          /\ \A n \in 1..(Len(t) - a + 1) : SubSeq(t, a, Len(t))[n] = t[a + n - 1]
      BY <1>2, <3>1, SubSeqFacts
    <3> QED BY <3>1, <3>2 DEF a
  <2> HIDE DEF t, h, r
  <2>3. r[h] = c
    BY <1>1, <1>2, <2>2
  <2>4. \A n \in 1..(h - 1) : r[n] = s[n + (Len(s) + 1 - h)]
    <3>1. TAKE n \in 1..(h - 1)
    <3>2. r[n] = t[n + (Len(t) - h)]
      BY <1>1, <2>2
    <3>3. n + (Len(t) - h) \in 1..Len(s) /\ n + (Len(t) - h) = n + (Len(s) + 1 - h)
      BY <1>1, <1>2, <1>4
    <3> QED BY <1>2, <3>2, <3>3
  <2> QED BY <1>1, <1>2, <1>4, <2>1, <2>2, <2>3, <2>4
<1> QED BY <1>3, <1>4

---------------------------------------------------------------------------
\* The ledger after an op of any kind: older changes may be gone, one change of the
\* same file may have been marked as reverted, and the op's own record is last.

Gone == Len(ledger) + 1 - Len(ledger')

Undone(c) == [c EXCEPT !.status = "reverted"]

Grows(op, task) ==
    /\ ledger' \in Seq(Change)
    /\ Len(ledger') \in 1..MaxTracked
    /\ Len(ledger') <= Len(ledger) + 1
    /\ ledger'[Len(ledger')] = Tracked(op, task)
    /\ \A n \in 1..(Len(ledger') - 1) :
          \/ ledger'[n] = ledger[n + Gone]
          \/ /\ Succeeds(op)
             /\ ledger[n + Gone].kind # "none" /\ ledger[n + Gone].file = op.file
             /\ ledger'[n] = Undone(ledger[n + Gone])

LEMMA ExecuteGrows ==
  ASSUME FileMutationTypeOK, NEW op \in Op, NEW task \in Tasks, ExecuteOp(op, task)
  PROVE  Grows(op, task) /\ Writes(op)
<1>1. Tracked(op, task) \in Change
  BY TrackedFacts
<1>2. ledger' = Recorded(ledger, Tracked(op, task)) /\ Writes(op)
  BY DEF ExecuteOp, Logged
<1>3. ledger \in Seq(Change) /\ Len(ledger) <= MaxTracked
  BY DEF FileMutationTypeOK
<1> QED BY <1>1, <1>2, <1>3, RecordedFacts DEF Grows, Gone

LEMMA UndoneFacts ==
  ASSUME NEW c \in Change
  PROVE  /\ Undone(c) \in Change
         /\ Undone(c).status = "reverted" /\ Undone(c).task = c.task
         /\ Undone(c).file = c.file /\ Undone(c).kind = c.kind
         /\ Undone(c).old = c.old /\ Undone(c).new = c.new
BY DEF Undone, Change

\* What stays in the ledger says of its file what it said.
LEMMA GrowsFacts ==
  ASSUME FileMutationTypeOK, NEW op \in Op, NEW task \in Tasks, Grows(op, task)
  PROVE  /\ Gone \in 0..Len(ledger)
         /\ \A n \in 1..(Len(ledger') - 1) :
               /\ n + Gone \in DOMAIN ledger
               /\ ledger[n + Gone] \in Change
               /\ ledger'[n].file = ledger[n + Gone].file
               /\ ledger'[n].kind = ledger[n + Gone].kind
               /\ ledger'[n].old = ledger[n + Gone].old
               /\ ledger'[n].new = ledger[n + Gone].new
               /\ ~Succeeds(op) \/ ledger'[n].file # op.file
                     => ledger'[n] = ledger[n + Gone]
               /\ ledger[n + Gone].kind = "none" => ledger'[n] = ledger[n + Gone]
<1>1. Len(ledger) \in Nat /\ Len(ledger') \in Nat /\ Len(ledger') >= 1
      /\ Len(ledger') <= Len(ledger) + 1 /\ DOMAIN ledger = 1..Len(ledger)
      /\ \A i \in DOMAIN ledger : ledger[i] \in Change
  BY FileMutationConstants DEF FileMutationTypeOK, Grows
<1>2. Gone \in 0..Len(ledger)
  BY <1>1 DEF Gone
<1>3. ASSUME NEW n \in 1..(Len(ledger') - 1)
      PROVE  n + Gone \in DOMAIN ledger
  BY <1>1 DEF Gone
<1>4. ASSUME NEW n \in 1..(Len(ledger') - 1)
      PROVE  /\ ledger[n + Gone] \in Change
             /\ ledger'[n].file = ledger[n + Gone].file
             /\ ledger'[n].kind = ledger[n + Gone].kind
             /\ ledger'[n].old = ledger[n + Gone].old
             /\ ledger'[n].new = ledger[n + Gone].new
             /\ ~Succeeds(op) \/ ledger'[n].file # op.file
                   => ledger'[n] = ledger[n + Gone]
             /\ ledger[n + Gone].kind = "none" => ledger'[n] = ledger[n + Gone]
  <2>1. ledger[n + Gone] \in Change
    BY <1>1, <1>3
  <2>2. CASE ledger'[n] = ledger[n + Gone]
    BY <2>1, <2>2
  <2>3. CASE /\ Succeeds(op)
             /\ ledger[n + Gone].kind # "none" /\ ledger[n + Gone].file = op.file
             /\ ledger'[n] = Undone(ledger[n + Gone])
    BY <2>1, <2>3, UndoneFacts
  <2> QED BY <2>2, <2>3 DEF Grows
<1> QED BY <1>2, <1>3, <1>4

\* What an op does to the disk and to what is known.
LEMMA WritesFacts ==
  ASSUME FileMutationTypeOK, NEW op \in Op, Writes(op)
  PROVE  /\ disk' \in [Files -> State] /\ known' \in [Files -> SUBSET Contents]
         /\ foreign' \subseteq Files
         /\ \A f \in Files : known[f] \subseteq known'[f]
         /\ \A f \in Files \ {op.file} : disk'[f] = disk[f] /\ (f \in foreign' <=> f \in foreign)
         /\ Succeeds(op) => disk'[op.file] = op.content
         /\ Succeeds(op) /\ op.content # Absent => op.content \in known'[op.file]
         /\ ~Succeeds(op) => UNCHANGED <<disk, known, foreign>>
<1> USE OpFacts DEF FileMutationTypeOK
<1>1. CASE ~Succeeds(op)
  BY <1>1 DEF Writes
<1>2. CASE Succeeds(op)
  <2>1. /\ disk' = [disk EXCEPT ![op.file] = op.content]
        /\ known' = [known EXCEPT ![op.file] = @ \cup ({op.content} \cap Contents)]
        /\ foreign' = foreign \ {op.file}
    BY <1>2 DEF Writes
  <2>2. disk' \in [Files -> State] /\ disk'[op.file] = op.content
        /\ \A f \in Files \ {op.file} : disk'[f] = disk[f]
    BY <2>1
  <2>3. known' \in [Files -> SUBSET Contents]
        /\ known'[op.file] = known[op.file] \cup ({op.content} \cap Contents)
        /\ \A f \in Files \ {op.file} : known'[f] = known[f]
    BY <2>1
  <2> QED BY <1>2, <2>1, <2>2, <2>3, Literals
<1> QED BY <1>1, <1>2

\* What is consistent stays so as more becomes known.
LEMMA ConsistentGrows ==
  ASSUME NEW c \in Change, NEW shown \in [Files -> SUBSET Contents],
         NEW more \in [Files -> SUBSET Contents],
         \A f \in Files : shown[f] \subseteq more[f], Consistent(c, shown)
  PROVE  Consistent(c, more)
<1>1. c.file \in Files
  BY ChangeFacts
<1> QED BY <1>1 DEF Consistent

LEMMA OpKeepsLedgered ==
  ASSUME FilesOK, NEW op \in Op, NEW task \in Tasks, Grows(op, task), Writes(op)
  PROVE  Ledgered'
<1>1. FileMutationTypeOK /\ Ledgered
  BY DEF FilesOK
<1>2. SUFFICES ASSUME NEW n \in DOMAIN ledger' PROVE Consistent(ledger'[n], known')
  BY DEF Ledgered, Consistent
<1>3. known \in [Files -> SUBSET Contents] /\ known' \in [Files -> SUBSET Contents]
      /\ \A f \in Files : known[f] \subseteq known'[f]
  BY <1>1, WritesFacts DEF FileMutationTypeOK
<1>4. ledger' \in Seq(Change) /\ DOMAIN ledger' = 1..Len(ledger') /\ Len(ledger') \in Nat
  BY DEF Grows
<1>5. CASE n = Len(ledger')
  <2>1. ledger'[n] = Tracked(op, task)
    BY <1>5 DEF Grows
  <2>2. Tracked(op, task).new \in known'[op.file] \cup {Absent}
    BY <1>1, TrackedFacts, WritesFacts, OpFacts
  <2>3. Tracked(op, task).kind = "none" => Tracked(op, task).status = "failed"
    BY <1>1, TrackedFacts
  <2> QED BY <1>1, <2>1, <2>2, <2>3, TrackedFacts DEF Consistent
<1>6. CASE n # Len(ledger')
  <2>1. n \in 1..(Len(ledger') - 1)
    BY <1>4, <1>6
  <2> DEFINE c == ledger[n + Gone]
  <2>2. /\ n + Gone \in DOMAIN ledger /\ c \in Change
        /\ ledger'[n].file = c.file /\ ledger'[n].kind = c.kind
        /\ ledger'[n].old = c.old /\ ledger'[n].new = c.new
        /\ c.kind = "none" => ledger'[n] = c
    BY <1>1, <2>1, GrowsFacts
  <2>3. Consistent(c, known)
    BY <1>1, <2>2 DEF Ledgered
  <2>4. Consistent(c, known')
    <3> HIDE DEF c
    <3> QED BY <1>3, <2>2, <2>3, ConsistentGrows
  <2> HIDE DEF c
  <2> QED BY <2>2, <2>4 DEF Consistent
<1> QED BY <1>5, <1>6

LEMMA OpKeepsLedger ==
  ASSUME FilesOK, NEW op \in Op, NEW task \in Tasks, Grows(op, task), Writes(op)
  PROVE  LedgerTellsDisk'
<1>1. FileMutationTypeOK /\ Ledgered /\ LedgerTellsDisk
  BY DEF FilesOK
<1> DEFINE Silent(L, i, f) == \A j \in DOMAIN L : j > i /\ L[j].file = f => L[j].status = "failed"
<1>2. SUFFICES ASSUME NEW i \in DOMAIN ledger', NEW f, f = ledger'[i].file,
                      ledger'[i].status # "failed", f \notin foreign', Silent(ledger', i, f)
               PROVE  disk'[f] = ledger'[i].new
  BY DEF LedgerTellsDisk
<1> DEFINE last == Len(ledger')
<1>3. ledger' \in Seq(Change) /\ DOMAIN ledger' = 1..last /\ last \in Nat /\ last >= 1
      /\ ledger'[last] = Tracked(op, task) /\ i \in 1..last /\ f \in Files
  BY <1>2, ChangeFacts, FileMutationConstants DEF Grows
<1>4. CASE i = last
  <2>1. Succeeds(op) /\ f = op.file /\ ledger'[i].new = op.content
    BY <1>1, <1>2, <1>3, <1>4, TrackedFacts
  <2> QED BY <1>1, <2>1, WritesFacts
<1>5. CASE i # last
  <2>1. i \in 1..(last - 1)
    BY <1>3, <1>5
  <2>2. i + Gone \in DOMAIN ledger /\ ledger[i + Gone].file = f
        /\ ledger[i + Gone].new = ledger'[i].new /\ Gone \in 0..Len(ledger)
        /\ (~Succeeds(op) \/ f # op.file => ledger'[i] = ledger[i + Gone])
    BY <1>1, <1>2, <2>1, GrowsFacts
  <2>3. ~Succeeds(op) \/ f # op.file
    <3>1. last \in DOMAIN ledger' /\ last > i
      BY <1>3, <2>1
    <3>2. f = op.file => Tracked(op, task).status = "failed"
      BY <1>1, <1>2, <1>3, <3>1, TrackedFacts
    <3> QED BY <1>1, <3>2, TrackedFacts
  <2>4. disk'[f] = disk[f] /\ f \notin foreign
    <3>1. CASE ~Succeeds(op)
      BY <1>1, <1>2, <3>1, WritesFacts
    <3>2. CASE f # op.file
      BY <1>1, <1>2, <1>3, <3>2, WritesFacts
    <3> QED BY <2>3, <3>1, <3>2
  <2>5. ASSUME NEW j \in DOMAIN ledger, j > i + Gone, ledger[j].file = f
        PROVE  ledger[j].status = "failed"
    <3>1. Len(ledger) \in Nat /\ DOMAIN ledger = 1..Len(ledger)
      BY <1>1 DEF FileMutationTypeOK
    <3>2. j - Gone \in 1..(last - 1) /\ j - Gone > i /\ (j - Gone) + Gone = j
      BY <1>3, <2>1, <2>2, <2>5, <3>1 DEF Gone
    <3>3. ledger'[j - Gone].file = f
      BY <1>1, <2>5, <3>2, GrowsFacts
    <3>4. ledger'[j - Gone] = ledger[j]
      BY <1>1, <2>3, <3>2, <3>3, GrowsFacts
    <3>5. j - Gone \in DOMAIN ledger'
      BY <1>3, <3>2
    <3> QED BY <1>2, <3>2, <3>3, <3>4, <3>5
  <2>6. ledger[i + Gone].status # "failed"
    BY <1>2, <2>2, <2>3
  <2>7. disk[f] = ledger[i + Gone].new
    BY <1>1, <2>2, <2>4, <2>5, <2>6 DEF LedgerTellsDisk
  <2> QED BY <2>2, <2>4, <2>7
<1> QED BY <1>4, <1>5

LEMMA OpKeepsFiles ==
  ASSUME FilesOK, NEW op \in Op, NEW task \in Tasks, Grows(op, task), Writes(op)
  PROVE  FilesOK'
<1>1. FileMutationTypeOK
  BY DEF FilesOK
<1>2. FileMutationTypeOK'
  <2>1. ledger' \in Seq(Change) /\ Len(ledger') <= MaxTracked
    BY FileMutationConstants DEF Grows
  <2>2. disk' \in [Files -> State] /\ known' \in [Files -> SUBSET Contents]
        /\ foreign' \subseteq Files
    BY <1>1, WritesFacts
  <2> QED BY <2>1, <2>2 DEF FileMutationTypeOK
<1> QED BY <1>2, OpKeepsLedgered, OpKeepsLedger DEF FilesOK

\* An op that expects what is known, or is known to find it, takes nothing unseen.
Takes == \A f \in Files : disk'[f] # disk[f] => disk[f] \in known[f] \cup {Absent}

LEMMA TakesKnown ==
  ASSUME FileMutationTypeOK, NEW op \in Op, Writes(op),
         Expects(op, known) \/ disk[op.file] \in known[op.file]
  PROVE  Takes
<1>1. SUFFICES ASSUME NEW f \in Files, disk'[f] # disk[f]
               PROVE  disk[f] \in known[f] \cup {Absent}
  BY DEF Takes
<1>2. f = op.file /\ Succeeds(op)
  BY <1>1, WritesFacts
<1>3. known[op.file] \subseteq Contents
  BY <1>2 DEF FileMutationTypeOK
<1> QED BY <1>2, <1>3, SucceedsFinds, OpFacts, Literals DEF Expects

---------------------------------------------------------------------------
\* Staged changes, checkpoints and jobs.

LEMMA JobKinds ==
  ASSUME JobOK
  PROVE  /\ job.kind = "restore" => job \in Restoring
         /\ job.kind = "revert" => job \in Reverting
         /\ job.kind \in {"none", "restore", "revert"}
         /\ Idle <=> job.kind = "none"
BY DEF JobOK, NoJob, Restoring, Reverting, Idle

LEMMA NoJobOK ==
  ASSUME job' = NoJob PROVE JobOK'
BY DEF JobOK, NoJob, Expected, Restores, Reverts, Undoes

Grown == \A f \in Files : known[f] \subseteq known'[f]

LEMMA ShownGrows ==
  ASSUME NEW c \in Proposal, Shown(c, known), Grown
  PROVE  Shown(c, known')
BY DEF Shown, Grown, Proposal

\* staged[i] gets the status s.
LEMMA MarkedOK ==
  ASSUME StagedOK, Grown, NEW i \in DOMAIN staged,
         NEW s \in {"pending", "applied", "rejected", "failed", "conflict", "rolled_back"},
         Marked(i, s),
         s = "applied" /\ staged[i].proposed # Absent
            => staged[i].proposed \in known'[staged[i].file]
  PROVE  StagedOK'
<1>1. staged \in Seq(Proposal) /\ staged' = [staged EXCEPT ![i].status = s]
  BY DEF StagedOK, Marked
<1>2. staged[i] \in Proposal
  BY <1>1
<1> DEFINE c == [staged[i] EXCEPT !.status = s]
<1>3. c \in Proposal /\ c.original = staged[i].original /\ c.file = staged[i].file
      /\ c.proposed = staged[i].proposed /\ c.status = s
  BY <1>2 DEF Proposal
<1>4. staged' = [staged EXCEPT ![i] = c]
  BY <1>1
<1> HIDE DEF c
<1>5. staged' \in Seq(Proposal) /\ DOMAIN staged' = DOMAIN staged /\ staged'[i] = c
      /\ \A j \in DOMAIN staged \ {i} : staged'[j] = staged[j]
  BY <1>1, <1>3, <1>4
<1>6. Shown(c, known')
  <2>1. Shown(staged[i], known')
    BY <1>2, ShownGrows DEF StagedOK, Staged
  <2> QED BY <1>3, <2>1 DEF Shown
<1>7. \A j \in DOMAIN staged : Shown(staged'[j], known')
  <2>1. TAKE j \in DOMAIN staged
  <2>2. staged[j] \in Proposal
    BY <1>1
  <2>3. Shown(staged[j], known')
    BY <2>2, ShownGrows DEF StagedOK, Staged
  <2> QED BY <1>5, <1>6, <2>3
<1> QED BY <1>5, <1>7 DEF StagedOK, Staged, Shown

LEMMA StagedGrows ==
  ASSUME StagedOK, Grown, staged' = staged PROVE StagedOK'
<1>1. staged \in Seq(Proposal)
  BY DEF StagedOK
<1>2. \A j \in DOMAIN staged : Shown(staged[j], known')
  <2>1. TAKE j \in DOMAIN staged
  <2>2. staged[j] \in Proposal
    BY <1>1
  <2> QED BY <2>2, ShownGrows DEF StagedOK, Staged
<1> QED BY <1>1, <1>2 DEF StagedOK, Staged, Shown

LEMMA CaptureFacts ==
  ASSUME NEW g
  PROVE  g \in Capture <=> \E S \in SUBSET Files : g \in [S -> State]
BY DEF Capture

LEMMA CapturedTyped ==
  ASSUME NEW named \in SUBSET Files, NEW task \in Tasks, NEW changes \in Seq(Change),
         NEW files \in [Files -> State]
  PROVE  Captured(named, task, changes, files) \in Capture
<1> DEFINE S == named \cup {changes[i].file : i \in {j \in DOMAIN changes :
                              changes[j].task = task /\ changes[j].status = "applied"}}
<1>1. S \in SUBSET Files
  BY ChangeFacts
<1>2. Captured(named, task, changes, files) = [f \in S |-> files[f]]
  BY DEF Captured
<1> HIDE DEF S
<1>3. [f \in S |-> files[f]] \in [S -> State]
  BY <1>1
<1> QED BY <1>1, <1>2, <1>3, CaptureFacts

LEMMA WithCheckpointOK ==
  ASSUME CheckpointsOK, NEW task \in Tasks, NEW g \in Capture,
         checkpoints' = WithCheckpoint(task, g)
  PROVE  CheckpointsOK'
<1> DEFINE t == Append(checkpoints, [task |-> task, files |-> g, status |-> "active"])
           h == MaxCheckpoints \div 2
<1>1. checkpoints \in Seq(Checkpoint) /\ checkpoints' = Kept(t)
  BY DEF CheckpointsOK, WithCheckpoint
<1>2. [task |-> task, files |-> g, status |-> "active"] \in Checkpoint
  BY DEF Checkpoint
<1>3. t \in Seq(Checkpoint) /\ Len(t) \in Nat
  BY <1>1, <1>2
<1>4. h \in Nat /\ h >= 1 /\ h <= MaxCheckpoints /\ MaxCheckpoints \in Nat
  BY WorkspaceConstants
<1> HIDE DEF t
<1>5. CASE Len(t) <= MaxCheckpoints
  BY <1>1, <1>3, <1>5 DEF Kept, CheckpointsOK
<1>6. CASE ~(Len(t) <= MaxCheckpoints)
  <2>1. checkpoints' = SubSeq(t, Len(t) - h + 1, Len(t))
    BY <1>1, <1>6 DEF Kept
  <2> HIDE DEF h
  <2>2. Len(t) - h + 1 \in 1..(Len(t) + 1) /\ Len(t) \in 0..Len(t)
        /\ Len(t) - (Len(t) - h + 1) + 1 = h /\ Len(t) - h + 1 <= Len(t) + 1
    BY <1>3, <1>4, <1>6
  <2>3. checkpoints' \in Seq(Checkpoint) /\ Len(checkpoints') = h
    BY <1>3, <2>1, <2>2, SubSeqFacts
  <2> QED BY <1>4, <2>3 DEF CheckpointsOK
<1> QED BY <1>5, <1>6

---------------------------------------------------------------------------
\* The operations that are one step.

Keeps == WInv' /\ (used' = used => Takes)

Quiet == UNCHANGED <<disk, ledger, known, foreign>>

LEMMA QuietKeeps ==
  ASSUME FilesOK, Quiet PROVE FilesOK' /\ Grown /\ Takes
BY DEF FilesOK, Quiet, FileMutationTypeOK, Ledgered, LedgerTellsDisk, Consistent, Grown, Takes

LEMMA AskedTyped ==
  ASSUME used \in Bounds, Asked PROVE used' \in Bounds /\ used' # used
<1>1. used.ops \in Nat /\ used.ops < MaxOps /\ MaxOps \in Nat /\ used.edits \in 0..MaxEdits
  BY WorkspaceConstants DEF Bounds, Asked
<1>2. used' = [used EXCEPT !.ops = @ + 1]
  BY DEF Asked
<1>3. used' = [edits |-> used.edits, ops |-> used.ops + 1] /\ used'.ops = used.ops + 1
  BY <1>2 DEF Bounds
<1> QED BY <1>1, <1>3 DEF Bounds

LEMMA ApplyKeeps ==
  ASSUME WInv, NEW t \in Tasks, NEW f \in Files, NEW c \in Contents,
         NEW e \in Contents \cup {Unchecked}, Apply(t, f, c, e)
  PROVE  Keeps
<1> DEFINE op == [kind |-> IF e = Unchecked THEN "write" ELSE "modify",
                  file |-> f, content |-> c, expected |-> e]
<1>1. op \in Op
  <2>1. (IF e = Unchecked THEN "write" ELSE "modify") \in {"create", "write", "modify"}
    OBVIOUS
  <2> QED BY <2>1 DEF Op
<1>2. Idle /\ Asked /\ ExecuteOp(op, t) /\ UNCHANGED <<staged, checkpoints, job>>
  BY DEF Apply
<1> HIDE DEF op
<1>3. FilesOK /\ FileMutationTypeOK /\ StagedOK /\ CheckpointsOK /\ used \in Bounds
  BY DEF WInv, FilesOK
<1>4. Grows(op, t) /\ Writes(op)
  BY <1>1, <1>2, <1>3, ExecuteGrows
<1>5. FilesOK' /\ Grown
  BY <1>1, <1>3, <1>4, OpKeepsFiles, WritesFacts DEF Grown
<1>6. StagedOK' /\ CheckpointsOK' /\ JobOK'
  BY <1>2, <1>3, <1>5, StagedGrows, NoJobOK DEF CheckpointsOK, Idle
<1>7. used' \in Bounds /\ used' # used
  BY <1>2, <1>3, AskedTyped
<1> QED BY <1>5, <1>6, <1>7 DEF Keeps, WInv

LEMMA EditFiles ==
  ASSUME FilesOK, NEW f \in Files, NEW c \in State, ExternalEdit(f, c)
  PROVE  /\ FilesOK' /\ Grown /\ UNCHANGED <<ledger, known>>
         /\ \A g \in Files \ {f} : disk'[g] = disk[g]
<1>1. /\ disk' = [disk EXCEPT ![f] = c] /\ foreign' = foreign \cup {f}
      /\ UNCHANGED <<ledger, known>>
  BY DEF ExternalEdit
<1>2. FileMutationTypeOK /\ Ledgered /\ LedgerTellsDisk
  BY DEF FilesOK
<1>3. disk' \in [Files -> State] /\ \A g \in Files \ {f} : disk'[g] = disk[g]
  BY <1>1, <1>2 DEF FileMutationTypeOK
<1>4. FileMutationTypeOK' /\ Ledgered'
  BY <1>1, <1>2, <1>3 DEF FileMutationTypeOK, Ledgered, Consistent
<1>5. LedgerTellsDisk'
  <2>1. \A i \in DOMAIN ledger : ledger[i].file \in Files
    BY <1>2, ChangeFacts DEF FileMutationTypeOK
  <2> QED BY <1>1, <1>2, <1>3, <2>1 DEF LedgerTellsDisk
<1> QED BY <1>1, <1>3, <1>4, <1>5 DEF FilesOK, Grown

LEMMA EditKeeps ==
  ASSUME WInv, NEW f \in Files, NEW c \in State, Edit(f, c)
  PROVE  Keeps
<1>1. /\ used.edits < MaxEdits /\ ExternalEdit(f, c)
      /\ used' = [used EXCEPT !.edits = @ + 1]
      /\ job' = IF Idle THEN job ELSE [job EXCEPT !.edited = @ \cup {f}]
      /\ UNCHANGED <<staged, checkpoints>>
  BY DEF Edit
<1>2. FilesOK /\ StagedOK /\ CheckpointsOK /\ JobOK /\ used \in Bounds
  BY DEF WInv
<1>3. FilesOK' /\ Grown /\ UNCHANGED <<ledger, known>>
      /\ \A g \in Files \ {f} : disk'[g] = disk[g]
  BY <1>1, <1>2, EditFiles
<1>4. StagedOK' /\ CheckpointsOK'
  BY <1>1, <1>2, <1>3, StagedGrows DEF CheckpointsOK
<1>5. used' \in Bounds /\ used' # used
  <2>1. used.edits \in Nat /\ MaxEdits \in Nat /\ used.ops \in 0..MaxOps
    BY <1>2, WorkspaceConstants DEF Bounds
  <2>2. used' = [edits |-> used.edits + 1, ops |-> used.ops]
        /\ used'.edits = used.edits + 1
    BY <1>1, <1>2 DEF Bounds
  <2>3. used.edits + 1 \in 0..MaxEdits /\ used.edits + 1 # used.edits
    BY <1>1, <2>1
  <2>4. used' \in Bounds
    BY <2>1, <2>2, <2>3 DEF Bounds
  <2>5. used' # used
    BY <2>2, <2>3
  <2> QED BY <2>4, <2>5
<1>6. JobOK'
  <2>1. CASE Idle
    BY <1>1, <2>1, NoJobOK DEF Idle
  <2>2. CASE job.kind = "restore"
    <3>1. job \in Restoring /\ ~Idle
      BY <1>2, <2>2, JobKinds
    <3>2. job' = [job EXCEPT !.edited = @ \cup {f}]
      BY <1>1, <3>1
    <3>3. /\ job' \in Restoring /\ job'.edited = job.edited \cup {f}
          /\ job'.kind = "restore" /\ job'.at = job.at /\ job'.todo = job.todo
          /\ job'.conflict = job.conflict /\ job'.failed = job.failed
      BY <2>2, <3>1, <3>2 DEF Restoring
    <3>4. Expected' /\ job'.at \in DOMAIN checkpoints'
      BY <1>1, <1>2, <1>3, <2>2, <3>3 DEF JobOK, Expected, Expects
    <3>5. Restores'
      <4>1. SUFFICES ASSUME ~job.failed, ~job.conflict
                     PROVE  Restored(checkpoints[job.at].files)'
        BY <1>1, <3>3 DEF Restores
      <4>2. Restored(checkpoints[job.at].files)
        BY <1>2, <2>2, <4>1 DEF JobOK, Restores
      <4>3. checkpoints[job.at] \in Checkpoint
        BY <1>2, <2>2 DEF JobOK, CheckpointsOK
      <4>4. DOMAIN checkpoints[job.at].files \subseteq Files
        BY <4>3 DEF Checkpoint, Capture
      <4> QED BY <1>1, <1>3, <3>3, <4>2, <4>4 DEF Restored
    <3> QED BY <3>3, <3>4, <3>5 DEF JobOK, Reverts, Undoes
  <2>3. CASE job.kind = "revert"
    <3>1. job \in Reverting /\ ~Idle
      BY <1>2, <2>3, JobKinds
    <3>2. job' = [job EXCEPT !.edited = @ \cup {f}]
      BY <1>1, <3>1
    <3>3. /\ job' \in Reverting /\ job'.edited = job.edited \cup {f}
          /\ job'.kind = "revert" /\ job'.todo = job.todo
          /\ job'.ok = job.ok /\ job'.base = job.base
      BY <2>3, <3>1, <3>2 DEF Reverting
    <3>4. Reverts'
      BY <1>2, <1>3, <2>3, <3>3 DEF JobOK, Reverts, Ordered
    <3>5. Undoes'
      <4>1. DOMAIN job.base \subseteq Files
        BY <3>1 DEF Reverting, Capture
      <4>2. SUFFICES ASSUME job.ok, \A n \in DOMAIN job.todo : job.todo[n] > 0,
                            NEW g \in DOMAIN job.base \ (job.edited \cup {f})
                     PROVE  \E x \in State :
                               Alternates(job.todo, ledger, g, disk'[g], job.base[g], x)
        BY <1>3, <3>3 DEF Undoes
      <4>3. disk'[g] = disk[g]
        BY <1>3, <4>1, <4>2
      <4> QED BY <1>2, <2>3, <4>2, <4>3 DEF JobOK, Undoes
    <3> QED BY <3>3, <3>4, <3>5 DEF JobOK, Expected, Restores
  <2> QED BY <1>2, <2>1, <2>2, <2>3, JobKinds
<1> QED BY <1>3, <1>4, <1>5, <1>6 DEF Keeps, WInv

\* What a quiet operation of an idle host leaves.
LEMMA IdleKeeps ==
  ASSUME WInv, Quiet, job' = NoJob, StagedOK', CheckpointsOK', used' \in Bounds
  PROVE  Keeps
BY QuietKeeps, NoJobOK DEF Keeps, WInv

LEMMA QuietStaged ==
  ASSUME WInv, Quiet, staged' = staged PROVE StagedOK'
BY QuietKeeps, StagedGrows DEF WInv

LEMMA CreateCheckpointKeeps ==
  ASSUME WInv, NEW t \in Tasks, NEW named \in SUBSET Files, CreateCheckpoint(t, named)
  PROVE  Keeps
<1>1. /\ Idle /\ Asked
      /\ checkpoints' = WithCheckpoint(t, Captured(named, t, ledger, disk))
      /\ Quiet /\ staged' = staged /\ job' = job
  BY DEF CreateCheckpoint, Quiet
<1>2. CheckpointsOK /\ used \in Bounds /\ ledger \in Seq(Change) /\ disk \in [Files -> State]
  BY DEF WInv, FilesOK, FileMutationTypeOK
<1>3. Captured(named, t, ledger, disk) \in Capture
  BY <1>2, CapturedTyped
<1>4. CheckpointsOK'
  BY <1>1, <1>2, <1>3, WithCheckpointOK
<1> QED BY <1>1, <1>2, <1>4, AskedTyped, QuietStaged, IdleKeeps DEF Idle

LEMMA DeleteCheckpointKeeps ==
  ASSUME WInv, NEW i \in DOMAIN checkpoints, DeleteCheckpoint(i)
  PROVE  Keeps
<1>1. /\ Idle
      /\ checkpoints' = SubSeq(checkpoints, 1, i - 1)
                          \o SubSeq(checkpoints, i + 1, Len(checkpoints))
      /\ Quiet /\ staged' = staged /\ job' = job /\ used' = used
  BY DEF DeleteCheckpoint, Quiet
<1>2. checkpoints \in Seq(Checkpoint) /\ Len(checkpoints) <= MaxCheckpoints
      /\ used \in Bounds /\ Len(checkpoints) \in Nat /\ i \in 1..Len(checkpoints)
      /\ MaxCheckpoints \in Nat
  BY WorkspaceConstants DEF WInv, CheckpointsOK
<1> DEFINE s == SubSeq(checkpoints, 1, i - 1)
           t == SubSeq(checkpoints, i + 1, Len(checkpoints))
<1>3. s \in Seq(Checkpoint) /\ Len(s) = i - 1
  <2>1. 1 \in 1..(Len(checkpoints) + 1) /\ i - 1 \in 0..Len(checkpoints) /\ 1 <= (i - 1) + 1
        /\ (i - 1) - 1 + 1 = i - 1
    BY <1>2
  <2> QED BY <1>2, <2>1, SubSeqFacts
<1>4. t \in Seq(Checkpoint) /\ Len(t) = Len(checkpoints) - i
  <2>1. i + 1 \in 1..(Len(checkpoints) + 1) /\ Len(checkpoints) \in 0..Len(checkpoints)
        /\ i + 1 <= Len(checkpoints) + 1 /\ Len(checkpoints) - (i + 1) + 1 = Len(checkpoints) - i
    BY <1>2
  <2> QED BY <1>2, <2>1, SubSeqFacts
<1>5. CheckpointsOK'
  <2>1. checkpoints' = s \o t
    BY <1>1
  <2> HIDE DEF s, t
  <2>2. checkpoints' \in Seq(Checkpoint) /\ Len(checkpoints') = Len(s) + Len(t)
    BY <1>3, <1>4, <2>1, ConcatFacts
  <2> QED BY <1>2, <1>3, <1>4, <2>2 DEF CheckpointsOK
<1> QED BY <1>1, <1>2, <1>5, QuietStaged, IdleKeeps DEF Idle

LEMMA StageKeeps ==
  ASSUME WInv, NEW t \in Tasks, NEW f \in Files, NEW c \in State, Stage(t, f, c)
  PROVE  Keeps
<1> DEFINE p == [task |-> t, file |-> f, original |-> Text(disk[f]), proposed |-> c,
                 status |-> "pending"]
<1>1. /\ Idle /\ Asked
      /\ staged' = Append(staged, p)
      /\ known' = [known EXCEPT ![f] = @ \cup {Text(disk[f])}]
      /\ UNCHANGED <<disk, ledger, foreign, checkpoints, job>>
  BY DEF Stage
<1>2. /\ disk \in [Files -> State] /\ known \in [Files -> SUBSET Contents]
      /\ staged \in Seq(Proposal) /\ used \in Bounds
      /\ FilesOK /\ StagedOK /\ CheckpointsOK
  BY DEF WInv, FilesOK, FileMutationTypeOK, StagedOK
<1>3. Text(disk[f]) \in Contents
  BY <1>2, Literals DEF Text
<1>4. known' \in [Files -> SUBSET Contents] /\ Grown /\ Text(disk[f]) \in known'[f]
  BY <1>1, <1>2, <1>3 DEF Grown
<1>5. FilesOK'
  <2>1. FileMutationTypeOK'
    BY <1>1, <1>2, <1>4 DEF FilesOK, FileMutationTypeOK
  <2>2. Ledgered'
    <3>1. \A i \in DOMAIN ledger : ledger[i] \in Change /\ Consistent(ledger[i], known)
      BY <1>2 DEF FilesOK, FileMutationTypeOK, Ledgered
    <3>2. \A i \in DOMAIN ledger : Consistent(ledger[i], known')
      BY <1>2, <1>4, <3>1, ConsistentGrows DEF Grown
    <3> QED BY <1>1, <3>2 DEF Ledgered, Consistent
  <2>3. LedgerTellsDisk'
    BY <1>1, <1>2 DEF FilesOK, LedgerTellsDisk
  <2> QED BY <2>1, <2>2, <2>3 DEF FilesOK
<1>6. StagedOK'
  <2>1. p \in Proposal /\ Shown(p, known')
    BY <1>3, <1>4 DEF Proposal, Shown
  <2> HIDE DEF p
  <2>2. staged' \in Seq(Proposal) /\ DOMAIN staged' = 1..(Len(staged) + 1)
        /\ staged'[Len(staged) + 1] = p /\ Len(staged) \in Nat
        /\ \A i \in 1..Len(staged) : staged'[i] = staged[i]
    BY <1>1, <1>2, <2>1
  <2>3. \A i \in 1..Len(staged) : Shown(staged[i], known')
    <3>1. TAKE i \in 1..Len(staged)
    <3>2. staged[i] \in Proposal /\ Shown(staged[i], known)
      BY <1>2 DEF StagedOK, Staged
    <3> QED BY <1>4, <3>2, ShownGrows
  <2>4. \A i \in DOMAIN staged' : Shown(staged'[i], known')
    <3>1. TAKE i \in DOMAIN staged'
    <3>2. CASE i = Len(staged) + 1
      BY <2>1, <2>2, <3>2
    <3>3. CASE i # Len(staged) + 1
      <4>1. i \in 1..Len(staged)
        BY <2>2, <3>3
      <4> QED BY <2>2, <2>3, <4>1
    <3> QED BY <3>2, <3>3
  <2> QED BY <2>2, <2>4 DEF StagedOK, Staged, Shown
<1>7. CheckpointsOK' /\ JobOK' /\ used' \in Bounds /\ used' # used
  BY <1>1, <1>2, AskedTyped, NoJobOK DEF CheckpointsOK, Idle
<1> QED BY <1>5, <1>6, <1>7 DEF Keeps, WInv

LEMMA RejectKeeps ==
  ASSUME WInv, NEW i \in DOMAIN staged, Reject(i)
  PROVE  Keeps
<1>1. Idle /\ Marked(i, "rejected") /\ Quiet /\ UNCHANGED <<checkpoints, job, used>>
  BY DEF Reject, Quiet
<1>2. StagedOK /\ CheckpointsOK /\ used \in Bounds /\ FilesOK
  BY DEF WInv
<1>3. StagedOK'
  BY <1>1, <1>2, QuietKeeps, MarkedOK
<1> QED BY <1>1, <1>2, <1>3, IdleKeeps DEF Idle, CheckpointsOK

\* An op of a caller that waits for it.
LEMMA OpStepKeeps ==
  ASSUME FilesOK, NEW op \in Op, NEW task \in Tasks, ExecuteOp(op, task),
         Expects(op, known) \/ disk[op.file] \in known[op.file]
  PROVE  /\ FilesOK' /\ Grown /\ Takes
         /\ Succeeds(op) /\ op.content # Absent => op.content \in known'[op.file]
<1>1. FileMutationTypeOK
  BY DEF FilesOK
<1>2. Grows(op, task) /\ Writes(op)
  BY <1>1, ExecuteGrows
<1> QED BY <1>1, <1>2, OpKeepsFiles, TakesKnown, WritesFacts DEF Grown

LEMMA ProposalFacts ==
  ASSUME NEW c \in Proposal
  PROVE  /\ c.task \in Tasks /\ c.file \in Files /\ c.original \in Contents
         /\ c.proposed \in State /\ (c.proposed # Absent => c.proposed \in Contents)
         /\ c.status \in {"pending", "applied", "rejected", "failed", "conflict", "rolled_back"}
BY DEF Proposal, State

LEMMA AcceptOpTyped ==
  ASSUME NEW c \in Proposal, Shown(c, known)
  PROVE  /\ AcceptOp(c) \in Op /\ Expects(AcceptOp(c), known)
         /\ AcceptOp(c).file = c.file /\ AcceptOp(c).content = c.proposed
<1>1. CASE c.proposed = Absent
  <2>1. AcceptOp(c) = [kind |-> "delete", file |-> c.file, content |-> Absent,
                       expected |-> c.original]
    BY <1>1 DEF AcceptOp
  <2> QED BY <1>1, <2>1, ProposalFacts DEF Op, Expects, Shown
<1>2. CASE c.proposed # Absent /\ disk[c.file] = Absent
  <2>1. AcceptOp(c) = [kind |-> "create", file |-> c.file, content |-> c.proposed,
                       expected |-> Unchecked]
    BY <1>2 DEF AcceptOp
  <2> QED BY <1>2, <2>1, ProposalFacts DEF Op, Expects
<1>3. CASE c.proposed # Absent /\ disk[c.file] # Absent
  <2>1. AcceptOp(c) = [kind |-> "modify", file |-> c.file, content |-> c.proposed,
                       expected |-> c.original]
    BY <1>3 DEF AcceptOp
  <2> QED BY <1>3, <2>1, ProposalFacts DEF Op, Expects, Shown
<1> QED BY <1>1, <1>2, <1>3

LEMMA AcceptKeeps ==
  ASSUME WInv, NEW i \in DOMAIN staged, NEW checkpointed \in BOOLEAN, Accept(i, checkpointed)
  PROVE  Keeps
<1> DEFINE c == staged[i]
           op == AcceptOp(c)
<1>1. FilesOK /\ StagedOK /\ CheckpointsOK /\ used \in Bounds
      /\ c \in Proposal /\ Shown(c, known)
  BY DEF WInv, StagedOK, Staged
<1>2. Idle /\ UNCHANGED <<job, used>>
  BY DEF Accept
<1>3. CASE Marked(i, "conflict") /\ UNCHANGED <<disk, ledger, known, foreign, checkpoints>>
  <2>1. StagedOK'
    BY <1>1, <1>3, QuietKeeps, MarkedOK DEF Quiet
  <2> QED BY <1>1, <1>2, <1>3, <2>1, IdleKeeps DEF Idle, CheckpointsOK, Quiet
<1>4. CASE /\ ExecuteOp(op, c.task)
           /\ Marked(i, IF Succeeds(op) THEN "applied" ELSE "failed")
           /\ checkpoints' = IF checkpointed /\ Succeeds(op)
                             THEN WithCheckpoint(c.task, Captured({}, c.task, ledger', disk'))
                             ELSE checkpoints
  <2>1. op \in Op /\ Expects(op, known) /\ op.file = c.file /\ op.content = c.proposed
        /\ c.task \in Tasks
    BY <1>1, AcceptOpTyped, ProposalFacts
  <2> HIDE DEF op
  <2>2. /\ FilesOK' /\ Grown /\ Takes
        /\ Succeeds(op) /\ op.content # Absent => op.content \in known'[op.file]
    BY <1>1, <1>4, <2>1, OpStepKeeps
  <2>3. StagedOK'
    BY <1>1, <1>4, <2>1, <2>2, MarkedOK
  <2>4. CheckpointsOK'
    <3>1. ledger' \in Seq(Change) /\ disk' \in [Files -> State]
      BY <2>2 DEF FilesOK, FileMutationTypeOK
    <3>2. Captured({}, c.task, ledger', disk') \in Capture
      BY <2>1, <3>1, CapturedTyped
    <3>3. CASE checkpoints' = checkpoints
      BY <1>1, <3>3 DEF CheckpointsOK
    <3>4. CASE checkpoints' = WithCheckpoint(c.task, Captured({}, c.task, ledger', disk'))
      BY <1>1, <2>1, <3>2, <3>4, WithCheckpointOK
    <3> QED BY <1>4, <3>3, <3>4
  <2> QED BY <1>1, <1>2, <2>2, <2>3, <2>4, NoJobOK DEF Keeps, WInv, Idle
<1> QED BY <1>3, <1>4 DEF Accept

LEMMA RollbackOpTyped ==
  ASSUME NEW c \in Proposal, Shown(c, known), c.status = "applied"
  PROVE  /\ RollbackOp(c) \in Op /\ RollbackOp(c).file = c.file
         /\ c.proposed = Absent => Expects(RollbackOp(c), known)
<1>1. CASE c.proposed = Absent
  <2>1. RollbackOp(c) = [kind |-> "create", file |-> c.file, content |-> c.original,
                         expected |-> Unchecked]
    BY <1>1 DEF RollbackOp
  <2> QED BY <1>1, <2>1, ProposalFacts DEF Op, Expects
<1>2. CASE c.proposed # Absent /\ c.original # Empty
  <2>1. RollbackOp(c) = [kind |-> "modify", file |-> c.file, content |-> c.original,
                         expected |-> c.proposed]
    BY <1>2 DEF RollbackOp
  <2> QED BY <1>2, <2>1, ProposalFacts DEF Op
<1>3. CASE c.proposed # Absent /\ c.original = Empty
  <2>1. RollbackOp(c) = [kind |-> "delete", file |-> c.file, content |-> Absent,
                         expected |-> Unchecked]
    BY <1>3 DEF RollbackOp
  <2> QED BY <1>3, <2>1, ProposalFacts DEF Op
<1> QED BY <1>1, <1>2, <1>3

LEMMA RollbackKeeps ==
  ASSUME WInv, NEW i \in DOMAIN staged, Rollback(i)
  PROVE  Keeps
<1> DEFINE c == staged[i]
           op == RollbackOp(c)
<1>1. FilesOK /\ StagedOK /\ CheckpointsOK /\ used \in Bounds
      /\ c \in Proposal /\ Shown(c, known)
  BY DEF WInv, StagedOK, Staged
<1>2. /\ Idle /\ c.status = "applied" /\ (c.proposed # Absent => disk[c.file] = c.proposed)
      /\ ExecuteOp(op, c.task) /\ Marked(i, IF Succeeds(op) THEN "rolled_back" ELSE c.status)
      /\ UNCHANGED <<checkpoints, job, used>>
  BY DEF Rollback
<1>3. /\ op \in Op /\ op.file = c.file /\ c.task \in Tasks
      /\ Expects(op, known) \/ disk[op.file] \in known[op.file]
  <2>1. c.proposed # Absent => c.proposed \in known[c.file]
    BY <1>1, <1>2 DEF Shown
  <2> QED BY <1>1, <1>2, <2>1, RollbackOpTyped, ProposalFacts
<1> HIDE DEF op
<1>4. FilesOK' /\ Grown /\ Takes
  BY <1>1, <1>2, <1>3, OpStepKeeps
<1>5. StagedOK'
  <2>1. c.proposed # Absent => c.proposed \in known'[c.file]
    BY <1>1, <1>2, <1>4, ProposalFacts DEF Shown, Grown
  <2> DEFINE s == IF Succeeds(op) THEN "rolled_back" ELSE c.status
  <2>2. s \in {"pending", "applied", "rejected", "failed", "conflict", "rolled_back"}
    BY <1>2
  <2>3. Marked(i, s)
    BY <1>2
  <2> HIDE DEF s
  <2> QED BY <1>1, <1>4, <2>1, <2>2, <2>3, MarkedOK
<1> QED BY <1>1, <1>2, <1>4, <1>5, NoJobOK DEF Keeps, WInv, Idle, CheckpointsOK

LEMMA RestartKeeps ==
  ASSUME WInv, Restart
  PROVE  Keeps
<1>1. /\ Asked /\ ledger' = <<>> /\ staged' = <<>> /\ job' = NoJob
      /\ known' = [f \in Files |-> {}] /\ UNCHANGED <<disk, foreign, checkpoints>>
  BY DEF Restart
<1>2. FilesOK /\ CheckpointsOK /\ used \in Bounds
  BY DEF WInv
<1>3. FilesOK'
  BY <1>1, <1>2, FileMutationConstants
     DEF FilesOK, FileMutationTypeOK, Ledgered, LedgerTellsDisk
<1>4. StagedOK'
  BY <1>1 DEF StagedOK, Staged
<1> QED BY <1>1, <1>2, <1>3, <1>4, AskedTyped, NoJobOK DEF Keeps, WInv, CheckpointsOK

---------------------------------------------------------------------------
\* Restoring.

LEMMA Smallest ==
  ASSUME NEW S, S \subseteq Nat, S # {}
  PROVE  \E m \in S : \A x \in S : m <= x
<1> DEFINE Less == OpToRel(<, Nat)
<1>1. \E m \in S : \A y \in S : ~(<<y, m>> \in Less)
  <2>1. IsWellFoundedOn(Less, Nat)
    BY NatLessThanWellFounded
  <2> HIDE DEF Less
  <2> QED BY <2>1, WFMin
<1>2. \A a, b \in Nat : a < b => <<a, b>> \in Less
  BY DEF OpToRel
<1>3. \A a, b \in Nat : ~(a < b) => b <= a
  OBVIOUS
<1> HIDE DEF Less
<1> QED BY <1>1, <1>2, <1>3

LEMMA Largest ==
  ASSUME NEW n \in Nat, NEW S, S \subseteq 1..n, S # {}
  PROVE  \E m \in S : \A x \in S : x <= m
<1> DEFINE T == {n - x : x \in S}
<1>1. T \subseteq Nat /\ T # {}
  <2>1. \A x \in S : n - x \in Nat
    OBVIOUS
  <2> QED BY <2>1
<1>2. PICK k \in T : \A y \in T : k <= y
  <2> HIDE DEF T
  <2> QED BY <1>1, Smallest
<1>3. PICK m \in S : k = n - m
  BY <1>2
<1>4. \A x \in S : n - m <= n - x
  BY <1>2, <1>3
<1> QED BY <1>3, <1>4

\* What the task's last change left is known.
LEMMA LastOfKnown ==
  ASSUME FilesOK, NEW task, NEW f
  PROVE  LastOf(task, f).new \in known[f] \cup {Absent}
<1> DEFINE own == {i \in Applied(task) : ledger[i].file = f}
<1>1. CASE own = {}
  BY <1>1 DEF LastOf
<1>2. CASE own # {}
  <2> DEFINE last == CHOOSE i \in own : \A j \in own : j <= i
  <2>1. Len(ledger) \in Nat /\ DOMAIN ledger = 1..Len(ledger)
    BY DEF FilesOK, FileMutationTypeOK
  <2>2. own \subseteq 1..Len(ledger)
    BY <2>1 DEF Applied
  <2>3. \E i \in own : \A j \in own : j <= i
    <3> HIDE DEF own
    <3> QED BY <1>2, <2>1, <2>2, Largest
  <2>4. last \in own
    <3> HIDE DEF own
    <3> QED BY <2>3
  <2>5. LastOf(task, f) = [kind |-> ledger[last].kind, new |-> ledger[last].new]
    BY <1>2 DEF LastOf
  <2>6. ledger[last].new \in known[ledger[last].file] \cup {Absent} /\ ledger[last].file = f
    <3> HIDE DEF last
    <3> QED BY <2>1, <2>2, <2>4 DEF FilesOK, Ledgered, Consistent
  <2> HIDE DEF last, own
  <2> QED BY <2>5, <2>6
<1> QED BY <1>1, <1>2

LEMMA CheckpointFacts ==
  ASSUME NEW cp \in Checkpoint
  PROVE  /\ cp.task \in Tasks /\ cp.status \in {"active", "restored"}
         /\ cp.files \in Capture
         /\ DOMAIN cp.files \subseteq Files /\ \A f \in DOMAIN cp.files : cp.files[f] \in State
BY CaptureFacts DEF Checkpoint

LEMMA RestoreOpTyped ==
  ASSUME FilesOK, NEW cp \in Checkpoint, NEW f \in DOMAIN cp.files, Planned(cp, f)
  PROVE  /\ RestoreOp(cp, f) \in Op /\ Expects(RestoreOp(cp, f), known)
         /\ RestoreOp(cp, f).file = f /\ RestoreOp(cp, f).content = cp.files[f]
<1>1. f \in Files /\ cp.files[f] \in State /\ disk[f] \in State /\ disk[f] # cp.files[f]
  <2>1. f \in Files /\ cp.files[f] \in State
    BY CheckpointFacts
  <2>2. disk[f] # cp.files[f]
    BY DEF Planned
  <2> QED BY <2>1, <2>2 DEF FilesOK, FileMutationTypeOK
<1>2. disk[f] # Absent => disk[f] \in known[f] /\ disk[f] \in Contents
  <2>1. ASSUME disk[f] # Absent PROVE LastOf(cp.task, f).new = disk[f]
    BY <1>1, <2>1 DEF Planned
  <2> QED BY <1>1, <2>1, LastOfKnown DEF State
<1>3. CASE cp.files[f] = Absent
  <2>1. RestoreOp(cp, f) = [kind |-> "delete", file |-> f, content |-> Absent,
                            expected |-> disk[f]]
    BY <1>3 DEF RestoreOp
  <2> QED BY <1>1, <1>2, <1>3, <2>1 DEF Op, Expects
<1>4. CASE cp.files[f] # Absent /\ disk[f] # Absent
  <2>1. RestoreOp(cp, f) = [kind |-> "write", file |-> f, content |-> cp.files[f],
                            expected |-> disk[f]]
    BY <1>4 DEF RestoreOp
  <2> QED BY <1>1, <1>2, <1>4, <2>1 DEF Op, Expects, State
<1>5. CASE cp.files[f] # Absent /\ disk[f] = Absent
  <2>1. RestoreOp(cp, f) = [kind |-> "create", file |-> f, content |-> cp.files[f],
                            expected |-> Unchecked]
    BY <1>5 DEF RestoreOp
  <2> QED BY <1>1, <1>5, <2>1 DEF Op, Expects, State
<1> QED BY <1>3, <1>4, <1>5

\* Sorting out a set without repetition leaves nothing out.
LEMMA OrderCovers ==
  ASSUME NEW S, IsFiniteSet(S), NEW order \in [1..Cardinality(S) -> S],
         \A m, n \in DOMAIN order : m # n => order[m] # order[n]
  PROVE  \A x \in S : \E n \in 1..Cardinality(S) : order[n] = x
<1>1. Cardinality(S) \in Nat
  BY FS_CardinalityType
<1>2. order \in Injection(1..Cardinality(S), S)
  <2>1. DOMAIN order = 1..Cardinality(S)
    OBVIOUS
  <2>2. \A a, b \in 1..Cardinality(S) : order[a] = order[b] => a = b
    BY <2>1
  <2> QED BY <2>1, <2>2 DEF Injection, IsInjective
<1>3. Cardinality(1..Cardinality(S)) = Cardinality(S)
  BY <1>1, FS_Interval
<1>4. order \in Surjection(1..Cardinality(S), S)
  BY <1>2, <1>3, FS_Injection
<1> QED BY <1>4 DEF Surjection

LEMMA RestoreStartsKeeps ==
  ASSUME WInv, NEW i \in DOMAIN checkpoints, NEW task \in Tasks, RestoreStarts(i, task)
  PROVE  Keeps
<1> DEFINE cp == checkpoints[i]
           planned == {f \in DOMAIN cp.files : Planned(cp, f)}
<1>1. Idle /\ Asked /\ Quiet /\ staged' = staged /\ checkpoints' = checkpoints
  BY DEF RestoreStarts, Quiet
<1>2. PICK order \in [1..Cardinality(planned) -> planned] :
         /\ \A m, n \in DOMAIN order : m # n => order[m] # order[n]
         /\ job' = [kind |-> "restore", at |-> i, task |-> task,
                    todo |-> [n \in DOMAIN order |-> RestoreOp(cp, order[n])],
                    conflict |-> \E f \in DOMAIN cp.files : InConflict(cp, f),
                    failed |-> FALSE, edited |-> {}]
  BY DEF RestoreStarts
<1>3. FilesOK /\ CheckpointsOK /\ StagedOK /\ used \in Bounds /\ cp \in Checkpoint
  BY DEF WInv, CheckpointsOK
<1> HIDE DEF cp
<1>4. planned \subseteq Files /\ IsFiniteSet(planned) /\ Cardinality(planned) \in Nat
  <2>1. planned \subseteq Files
    BY <1>3, CheckpointFacts
  <2>2. IsFiniteSet(Files)
    BY WorkspaceConstants
  <2> HIDE DEF planned
  <2> QED BY <2>1, <2>2, FS_Subset, FS_CardinalityType
<1> DEFINE todo == [n \in DOMAIN order |-> RestoreOp(cp, order[n])]
<1>5. DOMAIN order = 1..Cardinality(planned) /\ DOMAIN todo = 1..Cardinality(planned)
  BY <1>2
<1>6. \A n \in DOMAIN todo :
         /\ order[n] \in planned /\ todo[n] = RestoreOp(cp, order[n])
         /\ todo[n] \in Op /\ Expects(todo[n], known)
         /\ todo[n].file = order[n] /\ todo[n].content = cp.files[order[n]]
  <2>1. TAKE n \in DOMAIN todo
  <2>2. order[n] \in planned /\ todo[n] = RestoreOp(cp, order[n])
    BY <1>2, <1>5
  <2>3. order[n] \in DOMAIN cp.files /\ Planned(cp, order[n])
    BY <2>2
  <2> HIDE DEF planned, todo
  <2> QED BY <1>3, <2>2, <2>3, RestoreOpTyped
<1>7. todo \in Seq(Op)
  <2> HIDE DEF todo, planned
  <2>1. todo \in [1..Cardinality(planned) -> Op]
    <3>1. todo = [n \in DOMAIN todo |-> todo[n]]
      BY DEF todo
    <3> QED BY <1>5, <1>6, <3>1
  <2> QED BY <1>4, <2>1
<1>8. \A f \in planned : \E n \in DOMAIN todo : order[n] = f
  <2> HIDE DEF planned, todo
  <2> QED BY <1>2, <1>4, <1>5, OrderCovers
<1>9. /\ job' = [kind |-> "restore", at |-> i, task |-> task, todo |-> todo,
                 conflict |-> \E f \in DOMAIN cp.files : InConflict(cp, f),
                 failed |-> FALSE, edited |-> {}]
  BY <1>2
<1> HIDE DEF todo
<1>10. /\ job'.kind = "restore" /\ job'.at = i /\ job'.todo = todo /\ job'.edited = {}
       /\ job'.failed = FALSE
       /\ job'.conflict <=> \E f \in DOMAIN cp.files : InConflict(cp, f)
  BY <1>9
<1>11. job' \in Restoring
  <2>1. i \in Nat
    BY <1>3 DEF CheckpointsOK
  <2> DEFINE clash == \E f \in DOMAIN cp.files : InConflict(cp, f)
  <2>2. clash \in BOOLEAN /\ job' = [kind |-> "restore", at |-> i, task |-> task, todo |-> todo,
                 conflict |-> clash, failed |-> FALSE, edited |-> {}]
    BY <1>9
  <2> HIDE DEF clash
  <2> QED BY <1>7, <2>1, <2>2 DEF Restoring
<1>12. Expected'
  BY <1>1, <1>6, <1>10 DEF Expected, Expects, Quiet
<1>13. Restores'
  <2>1. SUFFICES ASSUME ~job'.conflict PROVE Restored(cp.files)'
    BY <1>1, <1>10 DEF Restores, cp
  <2>2. \A n \in DOMAIN todo :
           todo[n].file \in DOMAIN cp.files /\ todo[n].content = cp.files[todo[n].file]
    BY <1>6
  <2>3. \A f \in DOMAIN cp.files : disk[f] = cp.files[f] \/ f \in planned
    BY <1>10, <2>1 DEF InConflict
  <2>4. \A f \in DOMAIN cp.files : disk[f] = cp.files[f] \/ \E n \in DOMAIN todo : todo[n].file = f
    <3> HIDE DEF planned
    <3> QED BY <1>6, <1>8, <2>3
  <2>5. cp' = cp
    BY <1>1 DEF cp
  <2> QED BY <1>1, <1>10, <2>2, <2>4, <2>5 DEF Restored, Quiet
<1>14. JobOK'
  BY <1>1, <1>10, <1>11, <1>12, <1>13 DEF JobOK, Reverts, Undoes
<1> QED BY <1>1, <1>3, <1>14, AskedTyped, QuietKeeps, QuietStaged DEF Keeps, WInv, CheckpointsOK

LEMMA RestoreStepKeeps ==
  ASSUME WInv, RestoreStep
  PROVE  Keeps
<1> DEFINE op == Head(job.todo)
           files == checkpoints[job.at].files
<1>1. /\ job.kind = "restore" /\ job.todo # <<>> /\ ExecuteOp(op, job.task)
      /\ job' = IF Succeeds(op) THEN [job EXCEPT !.todo = Tail(@)]
                ELSE [job EXCEPT !.todo = <<>>,
                                 !.conflict = @ \/ ~Misplaced(op),
                                 !.failed = Misplaced(op) \/ Len(job.todo) > 1]
      /\ UNCHANGED <<staged, checkpoints, used>>
  BY DEF RestoreStep
<1>2. /\ FilesOK /\ StagedOK /\ CheckpointsOK /\ JobOK /\ used \in Bounds
      /\ FileMutationTypeOK /\ job \in Restoring
  BY <1>1, JobKinds DEF WInv, FilesOK
<1>3. job.task \in Tasks /\ job.todo \in Seq(Op) /\ job.at \in Nat /\ job.edited \subseteq Files
      /\ job.failed \in BOOLEAN /\ job.conflict \in BOOLEAN
  BY <1>2 DEF Restoring
<1>4. op \in Op /\ op = job.todo[1] /\ 1 \in DOMAIN job.todo
  BY <1>1, <1>3
<1>5. Expects(op, known)
  BY <1>1, <1>2, <1>4 DEF JobOK, Expected
<1> HIDE DEF op
<1>6. Grows(op, job.task) /\ Writes(op)
  BY <1>1, <1>2, <1>3, <1>4, ExecuteGrows
<1>7. FilesOK' /\ Grown /\ Takes
  BY <1>1, <1>2, <1>3, <1>4, <1>5, OpStepKeeps
<1>8. StagedOK' /\ CheckpointsOK' /\ used' \in Bounds
  BY <1>1, <1>2, <1>7, StagedGrows DEF CheckpointsOK
<1>9. JobOK'
  <2>1. CASE Succeeds(op)
    <3>1. job' = [job EXCEPT !.todo = Tail(@)]
      BY <1>1, <2>1
    <3>2. /\ job' \in Restoring
          /\ job'.kind = "restore" /\ job'.at = job.at /\ job'.todo = Tail(job.todo)
          /\ job'.edited = job.edited /\ job'.failed = job.failed
          /\ job'.conflict = job.conflict
      <4>1. Tail(job.todo) \in Seq(Op)
        BY <1>1, <1>3
      <4> QED BY <1>1, <1>2, <3>1, <4>1 DEF Restoring
    <3>3. /\ \A n \in DOMAIN Tail(job.todo) :
                n + 1 \in DOMAIN job.todo /\ Tail(job.todo)[n] = job.todo[n + 1]
          /\ \A n \in DOMAIN job.todo : n # 1 => n - 1 \in DOMAIN Tail(job.todo)
                                                 /\ Tail(job.todo)[n - 1] = job.todo[n]
      BY <1>1, <1>3
    <3>4. Expected'
      <4>1. SUFFICES ASSUME NEW n \in DOMAIN Tail(job.todo)
                     PROVE  Expects(Tail(job.todo)[n], known')
        BY <3>2 DEF Expected, Expects
      <4>2. Expects(job.todo[n + 1], known) /\ job.todo[n + 1] \in Op
        BY <1>1, <1>2, <1>3, <3>3 DEF JobOK, Expected
      <4>3. job.todo[n + 1].file \in Files
        BY <4>2, OpFacts
      <4> QED BY <1>7, <3>3, <4>2, <4>3 DEF Grown, Expects
    <3>5. Restores'
      <4>1. SUFFICES ASSUME ~job.failed, ~job.conflict PROVE Restored(files)'
        BY <1>1, <3>2 DEF Restores
      <4>2. Restored(files)
        BY <1>1, <1>2, <4>1 DEF JobOK, Restores
      <4>3. files' = files
        BY <1>1, <3>2
      <4>4. DOMAIN files \subseteq Files
        BY <1>1, <1>2, CheckpointFacts DEF JobOK, CheckpointsOK
      <4> HIDE DEF files
      <4>5. op.file \in DOMAIN files /\ op.content = files[op.file]
        BY <1>4, <4>2 DEF Restored
      <4>6. \A n \in DOMAIN Tail(job.todo) :
               /\ Tail(job.todo)[n].file \in DOMAIN files
               /\ Tail(job.todo)[n].content = files[Tail(job.todo)[n].file]
        BY <3>3, <4>2 DEF Restored
      <4>7. ASSUME NEW f \in DOMAIN files \ job.edited
            PROVE  disk'[f] = files[f] \/ \E n \in DOMAIN Tail(job.todo) : Tail(job.todo)[n].file = f
        <5>1. CASE f = op.file
          BY <1>2, <1>4, <1>6, <2>1, <4>5, <5>1, WritesFacts
        <5>2. CASE f # op.file
          <6>1. disk'[f] = disk[f]
            BY <1>2, <1>4, <1>6, <4>4, <5>2, WritesFacts
          <6>2. CASE disk[f] = files[f]
            BY <6>1, <6>2
          <6>3. CASE \E n \in DOMAIN job.todo : job.todo[n].file = f
            BY <1>4, <3>3, <5>2, <6>3
          <6> QED BY <4>2, <4>7, <6>2, <6>3 DEF Restored
        <5> QED BY <5>1, <5>2
      <4> QED BY <3>2, <4>3, <4>6, <4>7 DEF Restored
    <3> QED BY <1>1, <1>2, <3>2, <3>4, <3>5 DEF JobOK, Reverts, Undoes
  <2>2. CASE ~Succeeds(op)
    <3> DEFINE conflict == job.conflict \/ ~Misplaced(op)
               failed == Misplaced(op) \/ Len(job.todo) > 1
    <3>1. job' = [job EXCEPT !.todo = <<>>, !.conflict = conflict, !.failed = failed]
      BY <1>1, <2>2
    <3>2. conflict \in BOOLEAN /\ failed \in BOOLEAN /\ (conflict \/ failed)
      BY <1>3
    <3> HIDE DEF conflict, failed
    <3>3. /\ job'.kind = "restore" /\ job'.at = job.at /\ job'.todo = <<>>
          /\ job'.conflict = conflict /\ job'.failed = failed
      BY <1>1, <1>2, <3>1 DEF Restoring
    <3>4. job' \in Restoring
      <4>1. job' = [kind |-> "restore", at |-> job.at, task |-> job.task, todo |-> <<>>,
                    conflict |-> conflict, failed |-> failed, edited |-> job.edited]
        BY <1>1, <1>2, <3>1 DEF Restoring
      <4>2. <<>> \in Seq(Op)
        OBVIOUS
      <4> QED BY <1>3, <3>2, <4>1, <4>2 DEF Restoring
    <3>5. Expected' /\ Restores'
      BY <3>2, <3>3 DEF Expected, Restores
    <3> QED BY <1>1, <1>2, <3>3, <3>4, <3>5 DEF JobOK, Reverts, Undoes
  <2> QED BY <2>1, <2>2
<1> QED BY <1>7, <1>8, <1>9 DEF Keeps, WInv

LEMMA RestoreEndsKeeps ==
  ASSUME WInv, RestoreEnds
  PROVE  Keeps
<1>1. /\ job.kind = "restore" /\ job' = NoJob /\ Quiet /\ staged' = staged /\ used' = used
      /\ checkpoints' = IF job.failed THEN checkpoints
                        ELSE [checkpoints EXCEPT ![job.at].status = "restored"]
  BY DEF RestoreEnds, Quiet
<1>2. /\ checkpoints \in Seq(Checkpoint) /\ Len(checkpoints) <= MaxCheckpoints
      /\ job.at \in DOMAIN checkpoints /\ used \in Bounds
  BY <1>1 DEF WInv, CheckpointsOK, JobOK
<1>3. CheckpointsOK'
  <2>1. CASE checkpoints' = checkpoints
    BY <1>2, <2>1 DEF CheckpointsOK
  <2>2. CASE checkpoints' = [checkpoints EXCEPT ![job.at].status = "restored"]
    <3> DEFINE cp == [checkpoints[job.at] EXCEPT !.status = "restored"]
    <3>1. cp \in Checkpoint
      <4>1. checkpoints[job.at] \in Checkpoint
        BY <1>2
      <4>2. cp = [task |-> checkpoints[job.at].task, files |-> checkpoints[job.at].files,
                  status |-> "restored"]
        BY <4>1 DEF Checkpoint
      <4> HIDE DEF cp
      <4> QED BY <4>1, <4>2, CheckpointFacts DEF Checkpoint
    <3>2. checkpoints' = [checkpoints EXCEPT ![job.at] = cp]
      BY <1>2, <2>2
    <3> HIDE DEF cp
    <3>3. checkpoints' \in Seq(Checkpoint) /\ Len(checkpoints') = Len(checkpoints)
      BY <1>2, <3>1, <3>2
    <3> QED BY <1>2, <3>3 DEF CheckpointsOK
  <2> QED BY <1>1, <2>1, <2>2
<1> QED BY <1>1, <1>2, <1>3, QuietStaged, IdleKeeps

---------------------------------------------------------------------------
\* Reverting.

LEMMA InverseOpTyped ==
  ASSUME FileMutationTypeOK, NEW c \in Change, Consistent(c, known), c.kind # "none"
  PROVE  /\ InverseOp(c) \in Op /\ Expects(InverseOp(c), known)
         /\ InverseOp(c).file = c.file /\ InverseOp(c).content = c.old
         /\ Succeeds(InverseOp(c)) => disk[c.file] = c.new
<1>1. c.file \in Files /\ known[c.file] \subseteq Contents /\ disk[c.file] \in State
  BY ChangeFacts DEF FileMutationTypeOK
<1>2. CASE c.kind = "create"
  <2>1. InverseOp(c) = [kind |-> "delete", file |-> c.file, content |-> Absent,
                        expected |-> c.new]
    BY <1>2 DEF InverseOp
  <2>2. c.old = Absent /\ c.new \in Contents /\ c.new \in known[c.file]
    BY <1>2, Literals DEF Consistent
  <2>3. InverseOp(c) \in Op
    BY <1>1, <2>1, <2>2 DEF Op
  <2>4. Succeeds(InverseOp(c)) => disk[c.file] = c.new
    BY <2>1, <2>2, <2>3, SucceedsFinds, Literals
  <2> QED BY <2>1, <2>2, <2>3, <2>4 DEF Expects
<1>3. CASE c.kind = "write"
  <2>1. InverseOp(c) = [kind |-> "write", file |-> c.file, content |-> c.old,
                        expected |-> c.new]
    BY <1>3 DEF InverseOp
  <2>2. c.old \in Contents /\ c.new \in Contents /\ c.new \in known[c.file]
    BY <1>3, Literals DEF Consistent
  <2>3. InverseOp(c) \in Op
    BY <1>1, <2>1, <2>2 DEF Op
  <2>4. Succeeds(InverseOp(c)) => disk[c.file] = c.new
    BY <2>1, <2>2, <2>3, SucceedsFinds, Literals
  <2> QED BY <2>1, <2>2, <2>3, <2>4 DEF Expects
<1>4. CASE c.kind = "delete"
  <2>1. InverseOp(c) = [kind |-> "create", file |-> c.file, content |-> c.old,
                        expected |-> Unchecked]
    BY <1>4 DEF InverseOp
  <2>2. c.old \in Contents /\ c.new = Absent
    BY <1>4 DEF Consistent
  <2>3. InverseOp(c) \in Op
    BY <1>1, <2>1, <2>2 DEF Op
  <2>4. Succeeds(InverseOp(c)) => disk[c.file] = c.new
    BY <2>1, <2>2, <2>3, SucceedsFinds
  <2> QED BY <2>1, <2>2, <2>3, <2>4 DEF Expects
<1> QED BY <1>2, <1>3, <1>4, ChangeFacts

\* Base names the files of the changes given on which these follow one another.
LEMMA BaseFacts ==
  ASSUME FilesOK, NEW indices, indices \subseteq DOMAIN ledger
  PROVE  LET own(f) == {i \in indices : ledger[i].file = f}
             after(i, f) == {j \in own(f) : j > i}
         IN  /\ Base(indices) \in Capture
             /\ \A f \in DOMAIN Base(indices) :
                  /\ f \in Files
                  /\ \E i \in own(f) : /\ \A j \in own(f) : i <= j
                                       /\ Base(indices)[f] = ledger[i].old
                  /\ \A i \in own(f) :
                        IF after(i, f) = {} THEN ledger[i].new = disk[f]
                        ELSE \E j \in after(i, f) :
                               /\ \A k \in after(i, f) : j <= k
                               /\ ledger[i].new = ledger[j].old
<1> DEFINE own(f) == {i \in indices : ledger[i].file = f}
           after(i, f) == {j \in own(f) : j > i}
           chained(f) == \A i \in own(f) :
                           IF after(i, f) = {} THEN ledger[i].new = disk[f]
                           ELSE \E j \in after(i, f) :
                                  /\ \A k \in after(i, f) : j <= k
                                  /\ ledger[i].new = ledger[j].old
           first(f) == CHOOSE i \in own(f) : \A j \in own(f) : i <= j
           dom == {f \in Files : own(f) # {} /\ chained(f)}
<1>1. Base(indices) = [f \in dom |-> ledger[first(f)].old]
  BY DEF Base
<1>2. \A f : own(f) \subseteq Nat /\ own(f) \subseteq DOMAIN ledger
  BY DEF FilesOK, FileMutationTypeOK
<1>3. ASSUME NEW f \in dom
      PROVE  first(f) \in own(f) /\ \A j \in own(f) : first(f) <= j
  <2>1. own(f) # {} /\ own(f) \subseteq Nat
    BY <1>2, <1>3
  <2>2. \E i \in own(f) : \A j \in own(f) : i <= j
    <3> HIDE DEF own
    <3> QED BY <2>1, Smallest
  <2> HIDE DEF own
  <2> QED BY <2>2
<1>4. ASSUME NEW f \in dom
      PROVE  ledger[first(f)].old \in State
  <2>1. first(f) \in DOMAIN ledger
    <3> HIDE DEF first, own, dom
    <3> QED BY <1>2, <1>3, <1>4
  <2>2. ledger[first(f)] \in Change
    <3> HIDE DEF first
    <3> QED BY <2>1 DEF FilesOK, FileMutationTypeOK
  <2> HIDE DEF first
  <2> QED BY <2>2, ChangeFacts
<1>5. dom \subseteq Files
  OBVIOUS
<1>6. Base(indices) \in Capture
  <2> HIDE DEF dom, first
  <2>1. Base(indices) \in [dom -> State]
    BY <1>1, <1>4
  <2> QED BY <1>5, <2>1, CaptureFacts
<1>7. ASSUME NEW f \in DOMAIN Base(indices)
      PROVE  /\ f \in Files /\ chained(f)
             /\ \E i \in own(f) : (\A j \in own(f) : i <= j)
                                  /\ Base(indices)[f] = ledger[i].old
  <2>1. f \in dom
    <3> HIDE DEF dom, first
    <3> QED BY <1>1, <1>7
  <2>2. f \in Files /\ chained(f)
    <3> HIDE DEF chained
    <3> QED BY <2>1
  <2>3. Base(indices)[f] = ledger[first(f)].old
    <3> HIDE DEF dom, first
    <3> QED BY <1>1, <2>1
  <2> HIDE DEF dom, first, own, chained
  <2> QED BY <1>3, <2>1, <2>2, <2>3
<1> QED BY <1>6, <1>7

LEMMA RevertStartsKeeps ==
  ASSUME WInv, NEW task \in Tasks, NEW todo \in Seq(Int),
         \A n \in DOMAIN todo : todo[n] \in DOMAIN ledger /\ ledger[todo[n]].status = "applied",
         \A m, n \in DOMAIN todo : m < n => todo[m] < todo[n],
         RevertStarts(todo, task)
  PROVE  Keeps
<1> DEFINE indices == {todo[n] : n \in DOMAIN todo}
           base == Base(indices)
<1>1. /\ Idle /\ Asked /\ Quiet /\ staged' = staged /\ checkpoints' = checkpoints
      /\ job' = [kind |-> "revert", task |-> task, todo |-> todo, ok |-> TRUE,
                 base |-> base, edited |-> {}]
  BY DEF RevertStarts, Quiet
<1>2. FilesOK /\ CheckpointsOK /\ StagedOK /\ used \in Bounds
      /\ ledger \in Seq(Change) /\ Len(ledger) \in Nat /\ DOMAIN ledger = 1..Len(ledger)
  BY DEF WInv, FilesOK, FileMutationTypeOK
<1> DEFINE own(f) == {i \in indices : ledger[i].file = f}
           after(i, f) == {j \in own(f) : j > i}
           chained(f) == \A i \in own(f) :
                           IF after(i, f) = {} THEN ledger[i].new = disk[f]
                           ELSE \E j \in after(i, f) :
                                  /\ \A k \in after(i, f) : j <= k
                                  /\ ledger[i].new = ledger[j].old
<1>3. /\ base \in Capture
      /\ \A f \in DOMAIN base :
            /\ f \in Files /\ chained(f)
            /\ \E i \in own(f) : (\A j \in own(f) : i <= j) /\ base[f] = ledger[i].old
  <2>1. indices \subseteq DOMAIN ledger
    OBVIOUS
  <2> HIDE DEF indices
  <2> QED BY <1>2, <2>1, BaseFacts
<1> HIDE DEF base
<1>4. /\ job'.kind = "revert" /\ job'.todo = todo /\ job'.base = base /\ job'.edited = {}
      /\ job' \in Reverting
  BY <1>1, <1>3 DEF Reverting
<1>5. Reverts'
  <2>1. \A n \in DOMAIN todo : todo[n] <= Len(ledger) /\ ledger[todo[n]].kind # "none"
    BY <1>2 DEF FilesOK, Ledgered, Consistent
  <2> QED BY <1>1, <1>4, <2>1 DEF Reverts, Ordered, Quiet
<1>6. ASSUME NEW f \in DOMAIN base
      PROVE  Alternates(todo, ledger, f, disk[f], base[f], disk[f])
  <2> DEFINE S == On(todo, ledger, f)
  <2>1. S \subseteq DOMAIN todo /\ \A n \in S : todo[n] \in own(f) /\ todo[n] \in Nat /\ n \in Nat
    BY <1>2 DEF On
  <2>2. \A i \in own(f) : \E n \in S : todo[n] = i
    BY DEF On
  <2>3. \A m, n \in S : (m < n <=> todo[m] < todo[n]) /\ (m <= n <=> todo[m] <= todo[n])
                        /\ (todo[m] = todo[n] => m = n)
    BY <2>1
  <2>4. chained(f) /\ \E i \in own(f) : (\A j \in own(f) : i <= j) /\ base[f] = ledger[i].old
    <3> HIDE DEF chained, own
    <3> QED BY <1>3
  <2>5. own(f) \subseteq Nat
    BY <1>2
  <2> HIDE DEF indices, S
  <2>6. S # {}
    BY <2>2, <2>4
  <2>7. ASSUME NEW n \in S, First(S, n)
        PROVE  ledger[todo[n]].old = base[f]
    <3>1. PICK i \in own(f) : (\A j \in own(f) : i <= j) /\ base[f] = ledger[i].old
      BY <2>4
    <3>2. PICK m \in S : todo[m] = i
      BY <2>2
    <3>3. todo[m] <= todo[n]
      BY <2>1, <3>1, <3>2
    <3>4. m <= n /\ n <= m
      BY <2>3, <2>7, <3>3 DEF First
    <3>5. m = n
      BY <2>1, <3>4
    <3> QED BY <3>1, <3>2, <3>5
  <2>8. ASSUME NEW n \in S, Last(S, n)
        PROVE  ledger[todo[n]].new = disk[f]
    <3>1. after(todo[n], f) = {}
      <4>1. ASSUME NEW j \in own(f), j > todo[n] PROVE FALSE
        <5>1. PICK m \in S : todo[m] = j
          BY <2>2
        <5>2. m <= n
          BY <2>8 DEF Last
        <5> QED BY <2>1, <2>3, <4>1, <5>1, <5>2
      <4> QED BY <4>1
    <3>2. todo[n] \in own(f)
      BY <2>1
    <3> QED BY <2>4, <3>1, <3>2
  <2>9. ASSUME NEW m \in S, NEW n \in S, Follows(S, m, n)
        PROVE  ledger[todo[n]].old = ledger[todo[m]].new
    <3>1. todo[m] \in own(f) /\ todo[n] \in after(todo[m], f)
      BY <2>1, <2>3, <2>9 DEF Follows
    <3>2. PICK j \in after(todo[m], f) :
             (\A k \in after(todo[m], f) : j <= k) /\ ledger[todo[m]].new = ledger[j].old
      <4> HIDE DEF own
      <4> QED BY <2>4, <3>1
    <3>3. PICK k \in S : todo[k] = j
      BY <2>2, <3>2
    <3>4. m < k
      BY <2>1, <2>3, <3>2, <3>3
    <3>5. n <= k
      BY <2>9, <3>4 DEF Follows
    <3>6. todo[n] <= j
      BY <2>3, <3>3, <3>5
    <3>7. j <= todo[n]
      BY <3>1, <3>2
    <3>8. todo[n] = j
      BY <2>1, <2>5, <3>2, <3>6, <3>7
    <3> QED BY <3>2, <3>8
  <2> QED BY <2>6, <2>7, <2>8, <2>9 DEF Alternates, S
<1>7. Undoes'
  <2>1. \A f \in DOMAIN base : disk[f] \in State
    BY <1>2, <1>3 DEF FilesOK, FileMutationTypeOK
  <2>2. Quiet
    BY <1>1
  <2> QED BY <1>4, <1>6, <2>1, <2>2 DEF Undoes, Quiet
<1>8. JobOK'
  BY <1>1, <1>4, <1>5, <1>7 DEF JobOK, Expected, Restores
<1> QED BY <1>1, <1>2, <1>8, AskedTyped, QuietKeeps, QuietStaged DEF Keeps, WInv, CheckpointsOK

LEMMA RevertChangeKeeps ==
  ASSUME WInv, NEW i \in DOMAIN ledger, NEW task \in Tasks, RevertChange(i, task)
  PROVE  Keeps
<1>1. ledger[i].status = "applied" /\ RevertStarts(<<i>>, task)
  BY DEF RevertChange, Applied
<1>2. i \in Int
  BY DEF WInv, FilesOK, FileMutationTypeOK
<1>3. <<i>> \in Seq(Int) /\ DOMAIN <<i>> = {1} /\ <<i>>[1] = i
  BY <1>2
<1> DEFINE todo == <<i>>
<1>4. \A n \in DOMAIN todo : todo[n] \in DOMAIN ledger /\ ledger[todo[n]].status = "applied"
  BY <1>1, <1>3
<1>5. \A m, n \in DOMAIN todo : m < n => todo[m] < todo[n]
  BY <1>3
<1>6. todo \in Seq(Int) /\ RevertStarts(todo, task)
  BY <1>1, <1>3
<1> HIDE DEF todo
<1> QED BY <1>4, <1>5, <1>6, RevertStartsKeeps

LEMMA RevertTaskKeeps ==
  ASSUME WInv, NEW task \in Tasks, RevertTask(task)
  PROVE  Keeps
<1> DEFINE own == Applied(task)
<1>1. PICK todo \in [1..Cardinality(own) -> own] :
         /\ \A m, n \in DOMAIN todo : m < n => todo[m] < todo[n]
         /\ RevertStarts(todo, task)
  BY DEF RevertTask
<1>2. Len(ledger) \in Nat /\ DOMAIN ledger = 1..Len(ledger)
  BY DEF WInv, FilesOK, FileMutationTypeOK
<1>3. own \subseteq 1..Len(ledger) /\ \A i \in own : ledger[i].status = "applied"
  BY <1>2 DEF Applied
<1> HIDE DEF own
<1>4. IsFiniteSet(1..Len(ledger))
  BY <1>2, FS_Interval
<1>5. IsFiniteSet(own)
  BY <1>3, <1>4, FS_Subset
<1>6. Cardinality(own) \in Nat
  BY <1>5, FS_CardinalityType
<1>7. todo \in [1..Cardinality(own) -> Int]
  BY <1>2, <1>3
<1>8. todo \in Seq(Int) /\ DOMAIN todo = 1..Cardinality(own)
  BY <1>6, <1>7
<1>9. \A n \in DOMAIN todo : todo[n] \in DOMAIN ledger /\ ledger[todo[n]].status = "applied"
  BY <1>2, <1>3, <1>8
<1> QED BY <1>1, <1>8, <1>9, RevertStartsKeeps

\* Reverting the first of the changes that are left, which moves the others in the
\* ledger from L to M.
LEMMA AlternatesStep ==
  ASSUME NEW todo \in Seq(Int), NEW later \in Seq(Int), Len(later) = Len(todo) - 1,
         NEW L, NEW M, NEW f, NEW now, NEW then, NEW b, NEW x,
         \A n \in 1..(Len(todo) - 1) : /\ M[later[n]].file = L[todo[n + 1]].file
                                       /\ M[later[n]].old = L[todo[n + 1]].old
                                       /\ M[later[n]].new = L[todo[n + 1]].new,
         L[todo[1]].file = f => now = L[todo[1]].new /\ then = L[todo[1]].old,
         L[todo[1]].file # f => then = now,
         Alternates(todo, L, f, now, b, x)
  PROVE  Alternates(later, M, f, then, b, x)
<1> DEFINE S == On(todo, L, f)
           T == On(later, M, f)
           c(n) == L[todo[n]]
           d(n) == M[later[n]]
<1>1. Len(todo) \in Nat /\ Len(todo) >= 1 /\ DOMAIN todo = 1..Len(todo)
      /\ DOMAIN later = 1..(Len(todo) - 1)
  OBVIOUS
<1>2. /\ S = {} => now = b
      /\ \A n \in S : First(S, n) => <<now, c(n).old>> \in {<<x, b>>, <<b, x>>}
      /\ \A n \in S : Last(S, n) => c(n).new = x
      /\ \A m, n \in S : Follows(S, m, n) => c(n).old = c(m).new
  BY DEF Alternates
<1>3. \A n \in T : n \in Nat /\ n + 1 \in S /\ d(n).old = c(n + 1).old /\ d(n).new = c(n + 1).new
  BY <1>1 DEF On
<1>4. \A n \in S : n \in Nat /\ n >= 1 /\ (n # 1 => n - 1 \in T)
  <2>1. TAKE n \in S
  <2>2. n \in 1..Len(todo) /\ L[todo[n]].file = f
    BY <1>1 DEF On
  <2>3. ASSUME n # 1 PROVE n - 1 \in T
    <3>1. n - 1 \in 1..(Len(todo) - 1) /\ (n - 1) + 1 = n
      BY <1>1, <2>2, <2>3
    <3>2. M[later[n - 1]].file = L[todo[(n - 1) + 1]].file
      BY <3>1
    <3> QED BY <1>1, <2>2, <3>1, <3>2 DEF On
  <2> QED BY <2>2, <2>3
<1>5. 1 \in S <=> L[todo[1]].file = f
  BY <1>1 DEF On
<1> HIDE DEF S, T
<1>6. ASSUME NEW n \in T, Last(T, n) PROVE Last(S, n + 1)
  BY <1>3, <1>4, <1>6 DEF Last
<1>7. ASSUME NEW m \in T, NEW n \in T, Follows(T, m, n) PROVE Follows(S, m + 1, n + 1)
  <2>1. m + 1 \in S /\ n + 1 \in S /\ m + 1 < n + 1
    BY <1>3, <1>7 DEF Follows
  <2>2. ASSUME NEW k \in S, m + 1 < k PROVE n + 1 <= k
    <3>1. k - 1 \in T /\ m < k - 1
      BY <1>3, <1>4, <2>2
    <3>2. n <= k - 1
      BY <1>7, <3>1 DEF Follows
    <3> QED BY <1>3, <1>4, <3>2
  <2> QED BY <2>1, <2>2 DEF Follows
<1>8. \A n \in T : Last(T, n) => d(n).new = x
  BY <1>2, <1>3, <1>6
<1>9. \A m, n \in T : Follows(T, m, n) => d(n).old = d(m).new
  BY <1>2, <1>3, <1>7
<1>10. CASE L[todo[1]].file # f
  <2>1. 1 \notin S /\ then = now
    BY <1>5, <1>10
  <2>2. T = {} => then = b
    <3>1. T = {} => S = {}
      BY <1>4, <2>1
    <3> QED BY <1>2, <2>1, <3>1
  <2>3. ASSUME NEW n \in T, First(T, n) PROVE First(S, n + 1)
    <3>1. n + 1 \in S
      BY <1>3
    <3>2. \A k \in S : n <= k - 1
      BY <1>4, <2>1, <2>3 DEF First
    <3>3. \A k \in S : n + 1 <= k
      BY <1>3, <1>4, <3>2
    <3> QED BY <3>1, <3>3 DEF First
  <2>4. \A n \in T : First(T, n) => <<then, d(n).old>> \in {<<x, b>>, <<b, x>>}
    BY <1>2, <1>3, <2>1, <2>3
  <2> QED BY <1>8, <1>9, <2>2, <2>4 DEF Alternates, T
<1>11. CASE L[todo[1]].file = f
  <2>1. 1 \in S /\ now = c(1).new /\ then = c(1).old
    BY <1>5, <1>11
  <2>2. First(S, 1)
    BY <1>4, <2>1 DEF First
  <2>3. <<now, then>> \in {<<x, b>>, <<b, x>>}
    BY <1>2, <2>1, <2>2
  <2>4. T = {} => then = b
    <3>1. SUFFICES ASSUME T = {} PROVE then = b
      OBVIOUS
    <3>2. Last(S, 1)
      BY <1>4, <2>1, <3>1 DEF Last
    <3>3. now = x
      BY <1>2, <2>1, <3>2
    <3> QED BY <2>3, <3>3
  <2>5. ASSUME NEW n \in T, First(T, n) PROVE Follows(S, 1, n + 1)
    <3>1. n + 1 \in S /\ 1 < n + 1
      <4>1. n \in 1..(Len(todo) - 1)
        BY <1>1, <2>5 DEF T, On
      <4> QED BY <1>1, <1>3, <4>1
    <3>2. ASSUME NEW k \in S, 1 < k PROVE n + 1 <= k
      <4>1. k - 1 \in T
        BY <1>4, <3>2
      <4>2. n <= k - 1
        BY <2>5, <4>1 DEF First
      <4> QED BY <1>3, <1>4, <4>2
    <3> QED BY <2>1, <3>1, <3>2 DEF Follows
  <2>6. \A n \in T : First(T, n) => d(n).old = now
    BY <1>2, <1>3, <2>1, <2>5
  <2>7. \A n \in T : First(T, n) => <<then, d(n).old>> \in {<<x, b>>, <<b, x>>}
    BY <2>3, <2>6
  <2> QED BY <1>8, <1>9, <2>4, <2>7 DEF Alternates, T
<1> QED BY <1>10, <1>11

LEMMA RevertGrows ==
  ASSUME FileMutationTypeOK, NEW i \in DOMAIN ledger, NEW op \in Op, NEW task \in Tasks,
         ledger[i].kind # "none", ledger[i].file = op.file,
         ledger' = [n \in DOMAIN Logged(op, task) |->
                      IF n = i - (Len(ledger) + 1 - Len(Logged(op, task))) /\ Succeeds(op)
                      THEN [ledger[i] EXCEPT !.status = "reverted"]
                      ELSE Logged(op, task)[n]]
  PROVE  Grows(op, task) /\ Len(ledger') = Len(Logged(op, task))
<1> DEFINE L == Logged(op, task)
           gone == Len(ledger) + 1 - Len(L)
<1>1. ledger \in Seq(Change) /\ Len(ledger) <= MaxTracked /\ Len(ledger) \in Nat
      /\ i \in 1..Len(ledger) /\ ledger[i] \in Change
  BY DEF FileMutationTypeOK
<1>2. /\ L \in Seq(Change) /\ Len(L) \in 1..MaxTracked /\ Len(L) <= Len(ledger) + 1
      /\ L[Len(L)] = Tracked(op, task)
      /\ \A n \in 1..(Len(L) - 1) : L[n] = ledger[n + (Len(ledger) + 1 - Len(L))]
  BY <1>1, TrackedFacts, RecordedFacts DEF Logged
<1>3. MaxTracked \in Nat /\ Len(L) \in Nat /\ DOMAIN L = 1..Len(L)
  BY <1>2, FileMutationConstants
<1>4. /\ DOMAIN ledger' = 1..Len(L)
      /\ \A n \in 1..Len(L) : ledger'[n] = IF n = i - gone /\ Succeeds(op)
                                           THEN Undone(ledger[i]) ELSE L[n]
  BY <1>3 DEF Undone
<1> HIDE DEF L
<1>5. \A n \in 1..Len(L) : ledger'[n] \in Change
  <2>1. Undone(ledger[i]) \in Change
    BY <1>1, UndoneFacts
  <2>2. \A n \in 1..Len(L) : L[n] \in Change
    BY <1>2, <1>3
  <2> QED BY <1>4, <2>1, <2>2
<1>6. ledger' \in Seq(Change) /\ Len(ledger') = Len(L)
  <2>1. ledger' = [n \in 1..Len(L) |-> ledger'[n]]
    BY <1>3 DEF L
  <2>2. ledger' \in [1..Len(L) -> Change]
    BY <1>5, <2>1
  <2> QED BY <1>3, <2>2
<1>7. i - gone # Len(L)
  BY <1>1, <1>3
<1>8. ledger'[Len(L)] = Tracked(op, task)
  BY <1>2, <1>3, <1>4, <1>7
<1>9. gone = Gone
  BY <1>6 DEF Gone
<1>10. ASSUME NEW n \in 1..(Len(L) - 1)
       PROVE  \/ ledger'[n] = ledger[n + Gone]
              \/ /\ Succeeds(op)
                 /\ ledger[n + Gone].kind # "none" /\ ledger[n + Gone].file = op.file
                 /\ ledger'[n] = Undone(ledger[n + Gone])
  <2>1. n \in 1..Len(L)
    BY <1>3
  <2>2. L[n] = ledger[n + Gone]
    BY <1>2, <1>9
  <2>3. CASE n = i - gone /\ Succeeds(op)
    <3>1. n + Gone = i
      BY <1>1, <1>3, <1>9, <2>3
    <3> QED BY <1>4, <2>1, <2>3, <3>1
  <2>4. CASE ~(n = i - gone /\ Succeeds(op))
    BY <1>4, <2>1, <2>2, <2>4
  <2> QED BY <2>3, <2>4
<1> QED BY <1>2, <1>6, <1>8, <1>10 DEF Grows, L

LEMMA RevertStepKeeps ==
  ASSUME WInv, RevertStep
  PROVE  Keeps
<1> DEFINE i == Head(job.todo)
           op == InverseOp(ledger[i])
           gone == Len(ledger) + 1 - Len(Logged(op, job.task))
           later == [n \in 1..(Len(job.todo) - 1) |-> job.todo[n + 1] - gone]
<1>1. job.kind = "revert" /\ job.todo # <<>> /\ UNCHANGED <<staged, checkpoints, used>>
  BY DEF RevertStep
<1>2. /\ FilesOK /\ StagedOK /\ CheckpointsOK /\ JobOK /\ used \in Bounds
      /\ FileMutationTypeOK /\ job \in Reverting
  BY <1>1, JobKinds DEF WInv, FilesOK
<1>3. /\ job.task \in Tasks /\ job.todo \in Seq(Int) /\ job.ok \in BOOLEAN
      /\ job.base \in Capture /\ job.edited \subseteq Files
  BY <1>2 DEF Reverting
<1>4. /\ Len(job.todo) \in Nat /\ Len(job.todo) >= 1 /\ DOMAIN job.todo = 1..Len(job.todo)
      /\ i = job.todo[1] /\ i \in Int
  BY <1>1, <1>3
<1>5. /\ Len(ledger) \in Nat /\ DOMAIN ledger = 1..Len(ledger)
      /\ \A n \in DOMAIN ledger : ledger[n] \in Change /\ Consistent(ledger[n], known)
  BY <1>2 DEF FileMutationTypeOK, FilesOK, Ledgered
<1>6. Ordered(job.todo, ledger)
  BY <1>1, <1>2 DEF JobOK, Reverts
<1>7. CASE i <= 0 /\ job' = [job EXCEPT !.todo = <<>>, !.ok = FALSE] /\ Quiet
  <2>1. job' = [kind |-> "revert", task |-> job.task, todo |-> <<>>, ok |-> FALSE,
                base |-> job.base, edited |-> job.edited]
    BY <1>1, <1>2, <1>7 DEF Reverting
  <2>2. job' \in Reverting /\ job'.kind = "revert" /\ job'.todo = <<>> /\ job'.ok = FALSE
    BY <1>3, <2>1 DEF Reverting
  <2>3. JobOK'
    BY <2>2 DEF JobOK, Expected, Restores, Reverts, Ordered, Undoes
  <2> QED BY <1>1, <1>2, <1>7, <2>3, QuietKeeps, QuietStaged DEF Keeps, WInv, CheckpointsOK
<1>8. CASE /\ i > 0
           /\ Writes(op)
           /\ ledger' = [n \in DOMAIN Logged(op, job.task) |->
                           IF n = i - gone /\ Succeeds(op)
                           THEN [ledger[i] EXCEPT !.status = "reverted"]
                           ELSE Logged(op, job.task)[n]]
           /\ job' = [job EXCEPT !.todo = later, !.ok = @ /\ Succeeds(op)]
  <2>1. i \in DOMAIN ledger /\ ledger[i].kind # "none"
    BY <1>4, <1>5, <1>6, <1>8 DEF Ordered
  <2>2. /\ op \in Op /\ Expects(op, known)
        /\ op.file = ledger[i].file /\ op.content = ledger[i].old
        /\ Succeeds(op) => disk[ledger[i].file] = ledger[i].new
    <3> HIDE DEF i
    <3> QED BY <1>2, <1>5, <2>1, InverseOpTyped
  <2>3. Grows(op, job.task) /\ Len(ledger') = Len(Logged(op, job.task))
    <3> HIDE DEF i, op
    <3> QED BY <1>2, <1>3, <1>8, <2>1, <2>2, RevertGrows
  <2>4. gone = Gone
    BY <2>3 DEF Gone
  <2> HIDE DEF op
  <2>5. FilesOK' /\ Grown /\ Takes
    BY <1>2, <1>3, <1>8, <2>2, <2>3, OpKeepsFiles, TakesKnown, WritesFacts DEF Grown
  <2>6. StagedOK' /\ CheckpointsOK'
    BY <1>1, <1>2, <2>5, StagedGrows DEF CheckpointsOK
  <2>7. /\ Gone \in 0..Len(ledger)
        /\ \A n \in 1..(Len(ledger') - 1) :
              /\ ledger'[n].file = ledger[n + Gone].file
              /\ ledger'[n].kind = ledger[n + Gone].kind
              /\ ledger'[n].old = ledger[n + Gone].old
              /\ ledger'[n].new = ledger[n + Gone].new
    BY <1>2, <1>3, <2>2, <2>3, GrowsFacts
  <2>8. later = [n \in 1..(Len(job.todo) - 1) |-> job.todo[n + 1] - Gone]
    BY <2>4
  <2> HIDE DEF later, gone
  <2>9. /\ later \in Seq(Int) /\ Len(later) = Len(job.todo) - 1
        /\ DOMAIN later = 1..(Len(job.todo) - 1)
        /\ \A n \in 1..(Len(job.todo) - 1) :
              n + 1 \in DOMAIN job.todo /\ later[n] = job.todo[n + 1] - Gone
    <3>1. \A n \in 1..(Len(job.todo) - 1) : job.todo[n + 1] - Gone \in Int
      BY <1>3, <1>4, <2>7
    <3>2. later \in [1..(Len(job.todo) - 1) -> Int]
      BY <2>8, <3>1
    <3>3. Len(job.todo) - 1 \in Nat
      BY <1>4
    <3>4. later \in Seq(Int) /\ Len(later) = Len(job.todo) - 1
      BY <3>2, <3>3
    <3> QED BY <1>4, <2>8, <3>4
  <2> DEFINE ok == job.ok /\ Succeeds(op)
  <2>10. ok \in BOOLEAN
    BY <1>3
  <2>11. job' = [kind |-> "revert", task |-> job.task, todo |-> later, ok |-> ok,
                 base |-> job.base, edited |-> job.edited]
    BY <1>1, <1>2, <1>8 DEF Reverting
  <2>12. ok <=> job.ok /\ Succeeds(op)
    OBVIOUS
  <2> HIDE DEF ok
  <2>13. /\ job' \in Reverting /\ job'.kind = "revert" /\ job'.todo = later /\ job'.ok = ok
         /\ job'.base = job.base /\ job'.edited = job.edited
    BY <1>3, <2>9, <2>10, <2>11 DEF Reverting
  <2>14. Len(ledger') \in Nat /\ Len(ledger') - 1 = Len(ledger) - Gone
    BY <1>5, <2>3 DEF Gone, Grows
  \* What is still to be reverted is where it says.
  <2>15. \A n \in 1..(Len(job.todo) - 1) :
            /\ later[n] <= Len(ledger') - 1
            /\ later[n] > 0 => /\ later[n] \in 1..(Len(ledger') - 1)
                               /\ later[n] + Gone = job.todo[n + 1] /\ job.todo[n + 1] > 0
    <3>1. TAKE n \in 1..(Len(job.todo) - 1)
    <3>2. job.todo[n + 1] \in Int /\ job.todo[n + 1] <= Len(ledger)
      BY <1>3, <1>6, <2>9 DEF Ordered
    <3>3. later[n] = job.todo[n + 1] - Gone /\ Gone \in Int /\ Gone >= 0 /\ Len(ledger) \in Int
      BY <1>5, <2>7, <2>9
    <3>4. later[n] \in Int /\ later[n] <= Len(ledger) - Gone /\ later[n] + Gone = job.todo[n + 1]
      BY <3>2, <3>3
    <3>5. later[n] > 0 => job.todo[n + 1] > 0
      BY <3>2, <3>3
    <3> QED BY <2>14, <3>4, <3>5
  <2>16. Reverts'
    <3>1. \A n \in DOMAIN later :
             later[n] <= Len(ledger') /\ (later[n] > 0 => ledger'[later[n]].kind # "none")
      <4>1. TAKE n \in DOMAIN later
      <4>2. later[n] <= Len(ledger') - 1 /\ later[n] \in Int
        BY <2>9, <2>15
      <4>3. ASSUME later[n] > 0 PROVE ledger'[later[n]].kind # "none"
        <5>1. later[n] \in 1..(Len(ledger') - 1) /\ later[n] + Gone = job.todo[n + 1]
              /\ job.todo[n + 1] > 0 /\ n + 1 \in DOMAIN job.todo
          BY <2>9, <2>15, <4>3
        <5>2. ledger[job.todo[n + 1]].kind # "none"
          BY <1>6, <5>1 DEF Ordered
        <5> QED BY <2>7, <5>1, <5>2
      <4> QED BY <2>14, <4>2, <4>3
    <3>2. \A m, n \in DOMAIN later : m < n => later[m] < later[n]
      <4>1. TAKE m, n \in DOMAIN later
      <4>2. m \in 1..(Len(job.todo) - 1) /\ n \in 1..(Len(job.todo) - 1)
            /\ m + 1 \in DOMAIN job.todo /\ n + 1 \in DOMAIN job.todo
        BY <2>9
      <4>3. m < n => job.todo[m + 1] < job.todo[n + 1]
        <5>1. m < n => m + 1 < n + 1
          BY <1>4, <4>2
        <5> QED BY <1>6, <4>2, <5>1 DEF Ordered
      <4>4. job.todo[m + 1] \in Int /\ job.todo[n + 1] \in Int /\ Gone \in Int
        BY <1>3, <2>7, <4>2
      <4>5. later[m] = job.todo[m + 1] - Gone /\ later[n] = job.todo[n + 1] - Gone
        BY <2>9, <4>2
      <4> QED BY <4>3, <4>4, <4>5
    <3> QED BY <2>13, <3>1, <3>2 DEF Reverts, Ordered
  <2>17. Undoes'
    <3>1. SUFFICES ASSUME ok, \A n \in DOMAIN later : later[n] > 0,
                          NEW f \in DOMAIN job.base \ job.edited
                   PROVE  \E x \in State :
                             Alternates(later, ledger', f, disk'[f], job.base[f], x)
      BY <2>13 DEF Undoes
    <3>2. job.ok /\ Succeeds(op)
      BY <2>12, <3>1
    <3>3. \A n \in DOMAIN job.todo : job.todo[n] > 0
      <4>1. TAKE n \in DOMAIN job.todo
      <4>2. CASE n = 1
        BY <1>4, <1>8, <4>2
      <4>3. CASE n # 1
        <5>1. n - 1 \in 1..(Len(job.todo) - 1) /\ (n - 1) + 1 = n
          BY <1>4, <4>3
        <5>2. later[n - 1] > 0
          BY <2>9, <3>1, <5>1
        <5> QED BY <2>15, <5>1, <5>2
      <4> QED BY <4>2, <4>3
    <3>4. PICK x \in State : Alternates(job.todo, ledger, f, disk[f], job.base[f], x)
      BY <1>1, <1>2, <3>1, <3>2, <3>3 DEF JobOK, Undoes
    <3>5. f \in Files
      BY <1>3, <3>1 DEF Capture
    <3>6. \A n \in 1..(Len(job.todo) - 1) :
             /\ ledger'[later[n]].file = ledger[job.todo[n + 1]].file
             /\ ledger'[later[n]].old = ledger[job.todo[n + 1]].old
             /\ ledger'[later[n]].new = ledger[job.todo[n + 1]].new
      <4>1. TAKE n \in 1..(Len(job.todo) - 1)
      <4>2. later[n] \in 1..(Len(ledger') - 1) /\ later[n] + Gone = job.todo[n + 1]
        BY <2>9, <2>15, <3>1
      <4> QED BY <2>7, <4>2
    <3>7. ledger[job.todo[1]].file = f
             => disk[f] = ledger[job.todo[1]].new /\ disk'[f] = ledger[job.todo[1]].old
      BY <1>2, <1>4, <1>8, <2>2, <3>2, WritesFacts
    <3>8. ledger[job.todo[1]].file # f => disk'[f] = disk[f]
      BY <1>2, <1>4, <1>8, <2>2, <3>5, WritesFacts
    <3>9. Alternates(later, ledger', f, disk'[f], job.base[f], x)
      <4> DEFINE todo == job.todo
                 L == ledger
                 M == ledger'
                 now == disk[f]
                 then == disk'[f]
                 b == job.base[f]
      <4>1. todo \in Seq(Int) /\ later \in Seq(Int) /\ Len(later) = Len(todo) - 1
        BY <1>3, <2>9
      <4>2. \A n \in 1..(Len(todo) - 1) : /\ M[later[n]].file = L[todo[n + 1]].file
                                          /\ M[later[n]].old = L[todo[n + 1]].old
                                          /\ M[later[n]].new = L[todo[n + 1]].new
        BY <3>6
      <4>3. /\ L[todo[1]].file = f => now = L[todo[1]].new /\ then = L[todo[1]].old
            /\ L[todo[1]].file # f => then = now
        BY <3>7, <3>8
      <4>4. Alternates(todo, L, f, now, b, x)
        BY <3>4
      <4>5. Alternates(later, M, f, then, b, x)
        <5> HIDE DEF todo, L, M, now, then, b
        <5> QED BY <4>1, <4>2, <4>3, <4>4, AlternatesStep
      <4> QED BY <4>5
    <3> QED BY <3>9
  <2>18. JobOK'
    BY <2>13, <2>16, <2>17 DEF JobOK, Expected, Restores
  <2> QED BY <1>1, <1>2, <2>5, <2>6, <2>18 DEF Keeps, WInv
<1>9. \/ i <= 0 /\ job' = [job EXCEPT !.todo = <<>>, !.ok = FALSE] /\ Quiet
      \/ /\ i > 0
         /\ Writes(op)
         /\ ledger' = [n \in DOMAIN Logged(op, job.task) |->
                         IF n = i - gone /\ Succeeds(op)
                         THEN [ledger[i] EXCEPT !.status = "reverted"]
                         ELSE Logged(op, job.task)[n]]
         /\ job' = [job EXCEPT !.todo = later, !.ok = @ /\ Succeeds(op)]
  BY DEF RevertStep, Quiet
<1> QED BY <1>7, <1>8, <1>9

LEMMA RevertEndsKeeps ==
  ASSUME WInv, RevertEnds
  PROVE  Keeps
<1>1. job' = NoJob /\ Quiet /\ UNCHANGED <<staged, checkpoints, used>>
  BY DEF RevertEnds, Quiet
<1>2. CheckpointsOK' /\ used' \in Bounds
  BY <1>1 DEF WInv, CheckpointsOK
<1> QED BY <1>1, <1>2, QuietStaged, IdleKeeps

---------------------------------------------------------------------------
LEMMA WInvInit == Init => WInv
<1> SUFFICES ASSUME Init PROVE WInv
  OBVIOUS
<1>1. /\ disk \in [Files -> State] /\ ledger = <<>> /\ known = [f \in Files |-> {}]
      /\ foreign = {} /\ staged = <<>> /\ checkpoints = <<>> /\ job = NoJob
      /\ used = [edits |-> 0, ops |-> 0]
  BY DEF Init, FileMutationInit
<1>2. FilesOK
  BY <1>1, FileMutationConstants DEF FilesOK, FileMutationTypeOK, Ledgered, LedgerTellsDisk
<1>3. StagedOK
  BY <1>1 DEF StagedOK, Staged
<1>4. CheckpointsOK
  BY <1>1, WorkspaceConstants DEF CheckpointsOK
<1>5. JobOK
  BY <1>1 DEF JobOK, NoJob, Expected, Restores, Reverts, Undoes
<1>6. used \in Bounds
  BY <1>1, WorkspaceConstants DEF Bounds
<1> QED BY <1>2, <1>3, <1>4, <1>5, <1>6 DEF WInv

LEMMA WInvStep ==
  ASSUME WInv, [Next]_vars
  PROVE  Keeps
<1>1. CASE UNCHANGED vars
  <2>1. Quiet /\ UNCHANGED <<staged, checkpoints, job, used>>
    BY <1>1 DEF vars, Quiet
  <2>2. CheckpointsOK' /\ used' \in Bounds
    BY <2>1 DEF WInv, CheckpointsOK
  <2>3. JobOK'
    BY <2>1 DEF WInv, JobOK, Expected, Expects, Restores, Restored, Reverts, Undoes, Quiet
  <2> QED BY <2>1, <2>2, <2>3, QuietStaged, QuietKeeps DEF Keeps, WInv
<1>2. ASSUME NEW t \in Tasks, NEW f \in Files, NEW c \in Contents,
             NEW e \in Contents \cup {Unchecked}, Apply(t, f, c, e)
      PROVE  Keeps
  BY <1>2, ApplyKeeps
<1>3. ASSUME NEW f \in Files, NEW c \in State, Edit(f, c) PROVE Keeps
  BY <1>3, EditKeeps
<1>4. ASSUME NEW t \in Tasks, NEW named \in {{}, Files}, CreateCheckpoint(t, named)
      PROVE  Keeps
  <2>1. named \in SUBSET Files
    OBVIOUS
  <2> QED BY <1>4, <2>1, CreateCheckpointKeeps
<1>5. ASSUME NEW i \in DOMAIN checkpoints, DeleteCheckpoint(i) PROVE Keeps
  BY <1>5, DeleteCheckpointKeeps
<1>6. ASSUME NEW t \in Tasks, NEW f \in Files, NEW c \in State, Stage(t, f, c) PROVE Keeps
  BY <1>6, StageKeeps
<1>7. ASSUME NEW i \in DOMAIN staged,
             Accept(i, TRUE) \/ Accept(i, FALSE) \/ Reject(i) \/ Rollback(i)
      PROVE  Keeps
  BY <1>7, AcceptKeeps, RejectKeeps, RollbackKeeps
<1>8. ASSUME NEW i \in DOMAIN checkpoints, NEW t \in Tasks, RestoreStarts(i, t) PROVE Keeps
  BY <1>8, RestoreStartsKeeps
<1>9. CASE RestoreStep \/ RestoreEnds
  BY <1>9, RestoreStepKeeps, RestoreEndsKeeps
<1>10. ASSUME NEW i \in DOMAIN ledger, NEW t \in Tasks, RevertChange(i, t) PROVE Keeps
  BY <1>10, RevertChangeKeeps
<1>11. ASSUME NEW t \in Tasks, RevertTask(t) PROVE Keeps
  BY <1>11, RevertTaskKeeps
<1>12. CASE RevertStep \/ RevertEnds
  BY <1>12, RevertStepKeeps, RevertEndsKeeps
<1>13. CASE Restart
  BY <1>13, RestartKeeps
<1> QED BY <1>1, <1>2, <1>3, <1>4, <1>5, <1>6, <1>7, <1>8, <1>9, <1>10, <1>11, <1>12, <1>13
        DEF Next

\* The invariant holds throughout.
LEMMA WInvHolds == Spec => []WInv
<1>1. WInv /\ [Next]_vars => WInv'
  BY WInvStep DEF Keeps
<1> QED BY WInvInit, <1>1, PTL DEF Spec

\* Disk, ledger, proposals, checkpoints and the job at work keep their types, the
\* ledger and the checkpoints their bounds.
THEOREM Types == Spec => []TypeOK
<1>1. WInv => TypeOK
  BY DEF WInv, FilesOK, StagedOK, CheckpointsOK, JobOK, TypeOK
<1> QED BY WInvHolds, <1>1, PTL

\* The ledger's last word on a file nobody else has edited is what is on disk, through
\* applying, accepting, rolling back, restoring, reverting and the cut of the ledger.
THEOREM LedgerIsTrue == Spec => []LedgerTellsDisk
<1>1. WInv => LedgerTellsDisk
  BY DEF WInv, FilesOK
<1> QED BY WInvHolds, <1>1, PTL

\* Only an operation that was asked to write a file, or another program, takes away a
\* content that the assistant has neither written nor shown.
THEOREM NothingIsLost == Spec => NothingUnseenIsLost
<1>1. WInv /\ [Next]_vars
        => [used' = used =>
              \A f \in Files : disk'[f] # disk[f] => disk[f] \in known[f] \cup {Absent}]_vars
  BY WInvStep DEF Keeps, Takes
<1> QED BY WInvHolds, <1>1, PTL DEF Spec, NothingUnseenIsLost

\* A restore without conflict or failure has put back every file it was not disturbed
\* on, in whatever order it wrote them.
THEOREM RestoreHolds == Spec => []RestoreIsExact
<1>1. WInv => RestoreIsExact
  BY DEF WInv, JobOK, Restores, Restored, RestoreIsExact
<1> QED BY WInvHolds, <1>1, PTL

\* A revert that reports success, however many changes of a file it went through
\* oldest first, has left the file as it was before the first of them.
THEOREM RevertHolds == Spec => []RevertIsExact
<1>1. WInv => RevertIsExact
  BY DEF WInv, JobOK, Undoes, Alternates, On, RevertIsExact
<1> QED BY WInvHolds, <1>1, PTL
=============================================================================
