----------------------- MODULE PermissionPipelineProofs -----------------------
(* Safety of the permission pipeline, for every set of operations, policies   *)
(* and calls, however often the host reconfigures it.                         *)
EXTENDS PermissionPipeline, TLAPS, WellFoundedInduction, FiniteSetTheorems

Promises == [status : Unanswered \cup Verdicts, scope : Scopes]

Types == TypeOK /\ IsFiniteSet(pending)

\* Who waits is pending, and what is pending has not been answered.
Waits ==
    /\ timers = pending
    /\ \A c \in Calls : promise[c].status = "unsettled" => c \in pending

\* A grant is the trace of an answer the user gave to a call that has ended.
GrantHolds(g) ==
    /\ g.id \in Calls
    /\ calls[g.id].pc = "done"
    /\ promise[g.id].status = "approved"
    /\ g.scope = promise[g.id].scope
    /\ g.print = Profile[calls[g.id].op].print
    /\ g.session = calls[g.id].origin.session
    /\ g.task = calls[g.id].origin.task

ByGrant(x) ==
    /\ x.grantor \in Calls
    /\ Profile[x.op].scoped
    /\ calls[x.grantor].pc = "done"
    /\ promise[x.grantor].status = "approved"
    /\ Profile[calls[x.grantor].op].print = Profile[x.op].print
    /\ promise[x.grantor].scope \in {"session", "task"}
         => /\ x.origin.session = calls[x.grantor].origin.session
            /\ x.origin.session # "none"
    /\ promise[x.grantor].scope = "task"
         => x.origin.task = calls[x.grantor].origin.task

CallHolds(c) ==
    calls[c].approved =>
        /\ calls[c].pc = "done"
        /\ ~Profile[calls[c].op].blocked /\ ~Profile[calls[c].op].escapes
        /\ calls[c].by \in {"user", "grant", "auto", "allow_policy"}
        /\ calls[c].by = "user" => promise[c].status = "approved"
        /\ calls[c].by = "auto" => ~Profile[calls[c].op].critical
        /\ calls[c].by = "grant" => ByGrant(calls[c])

\* The user is only asked about what the command policy lets through.
AskedIsUnblocked(c) == calls[c].pc = "asking" => ~Profile[calls[c].op].blocked

Inv ==
    /\ Types
    /\ Waits
    /\ \A g \in grants : GrantHolds(g)
    /\ \A c \in Calls : CallHolds(c)
    /\ \A c \in Calls : AskedIsUnblocked(c)

-----------------------------------------------------------------------------
(* The rules.                                                                 *)

\* evaluate() finds a rule, and the rule it finds applies.
LEMMA RuleApplies ==
    ASSUME NEW ctx
    PROVE  /\ Applies(Rule(ctx), ctx)
           /\ Rule(ctx) \in {"boundary", "deny_policy", "allow_policy",
                             "grant", "auto", "fallback"}
<1> DEFINE A(i) == Applies(Precedence[i], ctx)
           First(i) == A(i) /\ \A j \in 1..(i - 1) : ~A(j)
<1>1. DOMAIN Precedence = 1..6
  BY DEF Precedence
<1>2. A(6)
  BY DEF Precedence, Applies
<1>3. \E i \in 1..6 : First(i)
  <2>1. CASE A(1)
    BY <2>1
  <2>2. CASE ~A(1) /\ A(2)
    <3>1. 1..(2 - 1) = {1}
      OBVIOUS
    <3> QED BY <2>2, <3>1
  <2>3. CASE ~A(1) /\ ~A(2) /\ A(3)
    <3>1. 1..(3 - 1) = {1, 2}
      OBVIOUS
    <3> QED BY <2>3, <3>1
  <2>4. CASE ~A(1) /\ ~A(2) /\ ~A(3) /\ A(4)
    <3>1. 1..(4 - 1) = {1, 2, 3}
      OBVIOUS
    <3> QED BY <2>4, <3>1
  <2>5. CASE ~A(1) /\ ~A(2) /\ ~A(3) /\ ~A(4) /\ A(5)
    <3>1. 1..(5 - 1) = {1, 2, 3, 4}
      OBVIOUS
    <3> QED BY <2>5, <3>1
  <2>6. CASE ~A(1) /\ ~A(2) /\ ~A(3) /\ ~A(4) /\ ~A(5)
    <3>1. 1..(6 - 1) = {1, 2, 3, 4, 5}
      OBVIOUS
    <3> QED BY <1>2, <2>6, <3>1
  <2> QED BY <2>1, <2>2, <2>3, <2>4, <2>5, <2>6
<1> DEFINE k == CHOOSE i \in DOMAIN Precedence : First(i)
<1>4. k \in 1..6 /\ A(k)
  BY <1>1, <1>3
<1>5. Rule(ctx) = Precedence[k]
  BY DEF Rule
<1>6. Precedence[k] \in {"boundary", "deny_policy", "allow_policy",
                         "grant", "auto", "fallback"}
  <2> HIDE DEF k
  <2> QED BY <1>4 DEF Precedence
<1> QED BY <1>4, <1>5, <1>6

\* A nonempty set of positions has a least one: the first matching policy is
\* one that matches.
LEMMA FirstMatches ==
    ASSUME NEW ctx, NEW ds, Matching(ctx, ds) # {},
           policies \in Seq(PolicySpecs)
    PROVE  FirstDecision(Matching(ctx, ds)) \in ds
<1> DEFINE M == Matching(ctx, ds)
<1>1. M \subseteq Nat
  BY DEF Matching
<1> DEFINE Less == {p \in Nat \X Nat : p[1] < p[2]}
<1>2. IsWellFoundedOn(Less, Nat)
  <2>1. Less = OpToRel(<, Nat)
    BY DEF OpToRel
  <2> QED BY <2>1, NatLessThanWellFounded
<1>3. PICK i \in M : \A y \in M : i <= y
  <2>1. \E x \in M : \A y \in M : ~(<<y, x>> \in Less)
    <3> HIDE DEF Less
    <3> QED BY <1>1, <1>2, WFMin
  <2>2. \A a, b \in Nat : a < b => <<a, b>> \in Less
    OBVIOUS
  <2>3. \A a, b \in M : ~(a < b) => b <= a
    BY <1>1
  <2> HIDE DEF Less, M
  <2> QED BY <1>1, <2>1, <2>2, <2>3
<1>4. (CHOOSE n \in M : \A j \in M : n <= j) \in M
  BY <1>3
<1> QED BY <1>4 DEF Matching, FirstDecision

-----------------------------------------------------------------------------
(* Sequences.                                                                 *)

LEMMA RemoveAtIsSeq ==
    ASSUME NEW S, NEW s \in Seq(S), NEW i \in DOMAIN s
    PROVE  RemoveAt(s, i) \in Seq(S) /\ Len(RemoveAt(s, i)) = Len(s) - 1
<1>1. SubSeq(s, 1, i - 1) \in Seq(S) /\ Len(SubSeq(s, 1, i - 1)) = i - 1
  OBVIOUS
<1>2. /\ SubSeq(s, i + 1, Len(s)) \in Seq(S)
      /\ Len(SubSeq(s, i + 1, Len(s))) = Len(s) - i
  OBVIOUS
<1> DEFINE a == SubSeq(s, 1, i - 1)
           b == SubSeq(s, i + 1, Len(s))
<1>3. a \o b \in Seq(S) /\ Len(a \o b) = Len(a) + Len(b)
  <2> HIDE DEF a, b
  <2>1. a \in Seq(S) /\ b \in Seq(S)
    BY <1>1, <1>2 DEF a, b
  <2> QED BY <2>1
<1>4. Len(a) + Len(b) = Len(s) - 1
  <2>1. i \in Int /\ Len(s) \in Int
    OBVIOUS
  <2>2. Len(a) = i - 1 /\ Len(b) = Len(s) - i
    BY <1>1, <1>2
  <2> HIDE DEF a, b
  <2> QED BY <2>1, <2>2
<1> QED BY <1>3, <1>4 DEF RemoveAt

LEMMA InsertAtIsSeq ==
    ASSUME NEW S, NEW s \in Seq(S), NEW i \in 1..(Len(s) + 1), NEW e \in S
    PROVE  InsertAt(s, i, e) \in Seq(S)
<1>1. SubSeq(s, 1, i - 1) \in Seq(S)
  OBVIOUS
<1>2. SubSeq(s, i, Len(s)) \in Seq(S)
  OBVIOUS
<1>3. <<e>> \in Seq(S)
  OBVIOUS
<1> QED BY <1>1, <1>2, <1>3 DEF InsertAt

\* addPolicy() keeps a list of policies.
LEMMA PutIsSeq ==
    ASSUME NEW s \in Seq(PolicySpecs), NEW p \in PolicySpecs
    PROVE  Put(s, p) \in Seq(PolicySpecs)
<1> DEFINE At(i) == \/ i <= Len(s) /\ s[i].id = p.id
                    \/ i = Len(s) + 1 /\ \A j \in DOMAIN s : s[j].id # p.id
           at == CHOOSE i \in 1..(Len(s) + 1) : At(i)
           rest == IF at <= Len(s) THEN RemoveAt(s, at) ELSE s
           before == {j \in DOMAIN s \ {at} :
                        \/ s[j].priority > p.priority
                        \/ s[j].priority = p.priority /\ j < at}
           rank == Cardinality(before)
<1>1. \E i \in 1..(Len(s) + 1) : At(i)
  <2>1. CASE \E j \in DOMAIN s : s[j].id = p.id
    BY <2>1
  <2>2. CASE \A j \in DOMAIN s : s[j].id # p.id
    BY <2>2
  <2> QED BY <2>1, <2>2
<1>2. at \in 1..(Len(s) + 1)
  BY <1>1
<1> HIDE DEF at
<1>3. rest \in Seq(PolicySpecs)
      /\ Len(rest) = IF at <= Len(s) THEN Len(s) - 1 ELSE Len(s)
  <2>1. CASE at <= Len(s)
    BY <1>2, <2>1, RemoveAtIsSeq
  <2>2. CASE ~(at <= Len(s))
    BY <2>2
  <2> QED BY <2>1, <2>2
<1>4. rank \in 0..Len(rest)
  <2>1. IsFiniteSet(1..Len(s)) /\ Cardinality(1..Len(s)) = Len(s)
    <3>1. 1 \in Int /\ Len(s) \in Int /\ Len(s) >= 0
      OBVIOUS
    <3>2. IsFiniteSet(1..Len(s))
      BY <3>1, FS_Interval
    <3>3. Cardinality(1..Len(s)) = IF 1 > Len(s) THEN 0 ELSE Len(s) - 1 + 1
      BY <3>1, FS_Interval
    <3> QED BY <3>1, <3>2, <3>3
  <2>2. /\ IsFiniteSet((1..Len(s)) \ {at})
        /\ Cardinality((1..Len(s)) \ {at}) = Len(rest)
    <3>1. at \in 1..Len(s) <=> at <= Len(s)
      BY <1>2
    <3>2. Len(s) \in Nat
      OBVIOUS
    <3> HIDE DEF rest
    <3>3. /\ IsFiniteSet((1..Len(s)) \ {at})
          /\ Cardinality((1..Len(s)) \ {at}) =
               IF at \in 1..Len(s) THEN Cardinality(1..Len(s)) - 1
               ELSE Cardinality(1..Len(s))
      BY <2>1, FS_RemoveElement
    <3> QED BY <1>3, <2>1, <3>1, <3>2, <3>3
  <2>3. before \in SUBSET ((1..Len(s)) \ {at})
    OBVIOUS
  <2>4. IsFiniteSet(before) /\ rank <= Len(rest)
    <3> DEFINE others == (1..Len(s)) \ {at}
    <3> HIDE DEF before, rest, others
    <3>1. IsFiniteSet(others) /\ Cardinality(others) = Len(rest)
      BY <2>2 DEF others
    <3>2. before \in SUBSET others
      BY <2>3 DEF others
    <3>3. IsFiniteSet(before) /\ Cardinality(before) <= Cardinality(others)
      BY <3>1, <3>2, FS_Subset
    <3> QED BY <3>1, <3>3
  <2>5. rank \in Nat
    <3> HIDE DEF before
    <3> QED BY <2>4, FS_CardinalityType
  <2>6. Len(rest) \in Nat
    <3> HIDE DEF rest
    <3> QED BY <1>3
  <2> HIDE DEF rank, rest
  <2> QED BY <2>4, <2>5, <2>6
<1>5. InsertAt(rest, rank + 1, p) \in Seq(PolicySpecs)
  <2>1. rank + 1 \in 1..(Len(rest) + 1)
    <3> HIDE DEF rank, rest
    <3> QED BY <1>3, <1>4
  <2> HIDE DEF rank, rest
  <2> QED BY <1>3, <2>1, InsertAtIsSeq
<1>6. Put(s, p) = InsertAt(rest, rank + 1, p)
  BY DEF Put, at
<1> QED BY <1>5, <1>6

LEMMA NewestIsSeq ==
    ASSUME NEW S, NEW s \in Seq(S)
    PROVE  Newest(s) \in Seq(S)
<1>1. CASE Len(s) <= MaxResolved
  BY <1>1 DEF Newest
<1>2. CASE ~(Len(s) <= MaxResolved)
  <2>1. SubSeq(s, Len(s) - MaxResolved + 1, Len(s)) \in Seq(S)
    BY <1>2, MaxResolvedNat
  <2> QED BY <1>2, <2>1 DEF Newest
<1> QED BY <1>1, <1>2

-----------------------------------------------------------------------------
(* The approval manager: what each of its operations does to the rest.        *)

Approvals == ApprovalTypeOK /\ IsFiniteSet(pending) /\ Waits

\* An operation of the manager keeps its own invariant and never changes an
\* answer.
Keeps ==
    /\ Approvals'
    /\ \A r \in Calls : Answered(r) => promise'[r] = promise[r]

LEMMA ResolvePendingKeeps ==
    ASSUME Approvals, NEW r \in Calls, NEW result \in Results,
           ResolvePending(r, result), cleanupOn' \in BOOLEAN
    PROVE  Keeps
<1> USE DEF Calls
<1>1. pending' \subseteq Requests /\ timers' \subseteq Requests /\ timers' = pending'
  BY DEF Approvals, ApprovalTypeOK, Waits, ResolvePending
<1>2. IsFiniteSet(pending')
  BY FS_RemoveElement DEF Approvals, ResolvePending
<1>3. resolved' \in Seq([id : Requests, result : Results])
  <2>1. [id |-> r, result |-> result] \in [id : Requests, result : Results]
    OBVIOUS
  <2>2. resolved \in Seq([id : Requests, result : Results])
    BY DEF Approvals, ApprovalTypeOK
  <2> QED BY <2>1, <2>2 DEF ResolvePending
<1>4. promise' = [promise EXCEPT ![r] = SettledTo(r, result)]
  BY DEF ResolvePending
<1>5. SettledTo(r, result) \in Promises
  BY DEF Approvals, ApprovalTypeOK, SettledTo, Results, Promises
<1>6. promise' \in [Requests -> Promises]
  BY <1>4, <1>5 DEF Approvals, ApprovalTypeOK, Promises
<1>7. \A q \in Requests : Answered(q) => promise'[q] = promise[q]
  BY <1>4 DEF Approvals, ApprovalTypeOK, SettledTo, Answered, Verdicts
<1>8. \A q \in Requests : promise'[q].status = "unsettled" => q \in pending'
  <2> SUFFICES ASSUME NEW q \in Requests, promise'[q].status = "unsettled"
               PROVE  q \in pending'
    OBVIOUS
  <2>1. CASE q = r
    <3>1. promise'[q] = SettledTo(r, result)
      BY <1>4, <2>1 DEF Approvals, ApprovalTypeOK
    <3>2. SettledTo(r, result).status # "unsettled"
      BY DEF SettledTo, Results, Verdicts
    <3> QED BY <3>1, <3>2
  <2>2. CASE q # r
    BY <1>4, <2>2 DEF Approvals, ApprovalTypeOK, Waits, ResolvePending
  <2> QED BY <2>1, <2>2
<1> QED BY <1>1, <1>2, <1>3, <1>6, <1>7, <1>8
        DEF Keeps, Approvals, ApprovalTypeOK, Waits, Promises

LEMMA RequestApprovalKeeps ==
    ASSUME Approvals, NEW c \in Calls, NEW presents \in BOOLEAN,
           RequestApproval(c, presents)
    PROVE  Keeps
<1> USE DEF Calls
<1> DEFINE status == IF presents THEN "unsettled" ELSE "thrown"
<1>1. /\ pending' = pending \cup {c} /\ timers' = timers \cup {c}
      /\ promise' = [promise EXCEPT ![c].status = status]
      /\ promise[c].status = "none"
      /\ resolved' = resolved /\ cleanupOn' = cleanupOn
  BY DEF RequestApproval
<1>2. IsFiniteSet(pending')
  BY <1>1, FS_AddElement DEF Approvals
<1>3. [promise[c] EXCEPT !.status = status] \in Promises
  BY DEF Approvals, ApprovalTypeOK, Promises, Unanswered
<1>4. promise' = [promise EXCEPT ![c] = [promise[c] EXCEPT !.status = status]]
  BY <1>1
<1>5. promise' \in [Requests -> Promises]
  <2> HIDE DEF status
  <2> QED BY <1>3, <1>4 DEF Approvals, ApprovalTypeOK, Promises
<1>6. \A q \in Requests : q # c => promise'[q] = promise[q]
  BY <1>4 DEF Approvals, ApprovalTypeOK
<1>7. pending' \subseteq Requests /\ timers' \subseteq Requests /\ timers' = pending'
  BY <1>1 DEF Approvals, ApprovalTypeOK, Waits
<1>8. \A q \in Requests : promise'[q].status = "unsettled" => q \in pending'
  BY <1>1, <1>6 DEF Approvals, Waits
<1>9. ~Answered(c)
  BY <1>1 DEF Answered, Verdicts
<1>10. \A q \in Requests : Answered(q) => promise'[q] = promise[q]
  BY <1>6, <1>9
<1> QED BY <1>1, <1>2, <1>5, <1>7, <1>8, <1>10
        DEF Keeps, Approvals, ApprovalTypeOK, Waits, Promises

LEMMA DisposeKeeps ==
    ASSUME Approvals, DisposeApprovals
    PROVE  Keeps
<1> USE DEF Calls
<1> DEFINE Entry == [id : Requests, result : Results]
<1>1. CancelledResult \in Results
  BY DEF CancelledResult, Promise, Results, Verdicts, Scopes
<1>2. pending' = {} /\ timers' = {} /\ cleanupOn' = FALSE
  BY DEF DisposeApprovals, Approvals, Waits
<1>3. IsFiniteSet(pending')
  BY <1>2, FS_EmptySet
<1>4. resolved' \in Seq(Entry)
  <2>1. PICK order \in SetToSeqs(pending) :
          resolved' = Newest(resolved \o
                        [i \in DOMAIN order |->
                           [id |-> order[i], result |-> CancelledResult]])
    BY DEF DisposeApprovals
  <2> DEFINE n == Cardinality(pending)
             more == [i \in DOMAIN order |->
                        [id |-> order[i], result |-> CancelledResult]]
  <2>2. n \in Nat
    BY FS_CardinalityType DEF Approvals
  <2>3. order \in [1..n -> pending]
    BY <2>1 DEF SetToSeqs
  <2>4. more \in [1..n -> Entry]
    <3>1. pending \subseteq Requests
      BY DEF Approvals, ApprovalTypeOK
    <3> HIDE DEF n
    <3> QED BY <1>1, <2>3, <3>1
  <2>5. more \in Seq(Entry)
    <3> HIDE DEF more, n, Entry
    <3> QED BY <2>2, <2>4
  <2>6. resolved \in Seq(Entry)
    BY DEF Approvals, ApprovalTypeOK
  <2>7. resolved \o more \in Seq(Entry)
    <3> HIDE DEF more, Entry
    <3> QED BY <2>5, <2>6
  <2> HIDE DEF Entry
  <2> QED BY <2>1, <2>7, NewestIsSeq
<1>5. promise' = [r \in Requests |-> IF r \in pending
                                     THEN SettledTo(r, CancelledResult)
                                     ELSE promise[r]]
  BY DEF DisposeApprovals
<1>6. \A r \in Requests : SettledTo(r, CancelledResult) \in Promises
  BY <1>1 DEF Approvals, ApprovalTypeOK, SettledTo, Results, Promises
<1>7. promise' \in [Requests -> Promises]
  <2>1. \A r \in Requests : promise[r] \in Promises
    BY DEF Approvals, ApprovalTypeOK, Promises
  <2> QED BY <1>5, <1>6, <2>1
<1>8. \A r \in Requests : promise'[r].status # "unsettled"
  <2> SUFFICES ASSUME NEW r \in Requests PROVE promise'[r].status # "unsettled"
    OBVIOUS
  <2>1. CancelledResult.status # "unsettled"
    BY DEF CancelledResult, Promise
  <2>2. promise[r].status = "unsettled" => r \in pending
    BY DEF Approvals, Waits
  <2> QED BY <1>5, <2>1, <2>2 DEF SettledTo
<1>9. \A r \in Requests : Answered(r) => promise'[r] = promise[r]
  BY <1>5 DEF SettledTo, Answered, Verdicts
<1> QED BY <1>2, <1>3, <1>4, <1>7, <1>8, <1>9
        DEF Keeps, Approvals, ApprovalTypeOK, Waits, Promises

\* The host's part of Next.
LEMMA HostingKeeps ==
    ASSUME Approvals, Hosting
    PROVE  Keeps
<1> USE DEF Calls
<1>1. ASSUME NEW c \in Calls, NEW scope \in Scopes, Approve(c, scope)
      PROVE  Keeps
  <2>1. Promise("approved", scope) \in Results
    BY DEF Promise, Results, Verdicts
  <2> QED BY <1>1, <2>1, ResolvePendingKeeps DEF Approve
<1>2. ASSUME NEW c \in Calls, Reject(c, "single_execution")
      PROVE  Keeps
  <2>1. Promise("rejected", "single_execution") \in Results
    BY DEF Promise, Results, Verdicts, Scopes
  <2>2. cleanupOn' \in BOOLEAN
    BY <1>2 DEF Reject, Approvals, ApprovalTypeOK
  <2> QED BY <1>2, <2>1, <2>2, ResolvePendingKeeps DEF Reject
<1>3. ASSUME NEW c \in Calls, CancelApproval(c)
      PROVE  Keeps
  <2>1. CancelledResult \in Results
    BY DEF CancelledResult, Promise, Results, Verdicts, Scopes
  <2>2. cleanupOn' \in BOOLEAN
    BY <1>3 DEF CancelApproval, Approvals, ApprovalTypeOK
  <2> QED BY <1>3, <2>1, <2>2, ResolvePendingKeeps DEF CancelApproval
<1>4. ASSUME NEW c \in Calls, Expire(c)
      PROVE  Keeps
  <2>1. Promise("expired", "single_execution") \in Results
    BY DEF Promise, Results, Verdicts, Scopes
  <2>2. cleanupOn' \in BOOLEAN
    BY <1>4 DEF Expire, Approvals, ApprovalTypeOK
  <2>3. c \in pending
    BY <1>4 DEF Expire, Approvals, Waits
  <2> QED BY <1>4, <2>1, <2>2, <2>3, ResolvePendingKeeps DEF Expire
<1>5. ASSUME Cleanup
      PROVE  Keeps
  <2>1. resolved' \in Seq([id : Requests, result : Results])
    BY <1>5, NewestIsSeq DEF Cleanup, Approvals, ApprovalTypeOK
  <2> QED BY <1>5, <2>1 DEF Cleanup, Keeps, Approvals, ApprovalTypeOK, Waits
<1> QED BY <1>1, <1>2, <1>3, <1>4, <1>5, DisposeKeeps DEF Hosting, Answers

-----------------------------------------------------------------------------
(* The invariant.                                                             *)

\* What is settled stays true while calls do not change, answers are kept and
\* no grant is added.
LEMMA Framed ==
    ASSUME Inv, UNCHANGED calls, grants' \subseteq grants,
           \A r \in Calls : Answered(r) => promise'[r] = promise[r]
    PROVE  /\ \A g \in grants' : GrantHolds(g)'
           /\ \A c \in Calls : CallHolds(c)'
           /\ \A c \in Calls : AskedIsUnblocked(c)'
<1>1. \A r \in Calls : promise[r].status = "approved" => promise'[r] = promise[r]
  BY DEF Answered, Verdicts
<1>2. \A g \in grants' : GrantHolds(g)'
  BY <1>1 DEF Inv, GrantHolds
<1>3. \A c \in Calls : CallHolds(c)'
  BY <1>1 DEF Inv, CallHolds, ByGrant
<1>4. \A c \in Calls : AskedIsUnblocked(c)'
  BY DEF Inv, AskedIsUnblocked
<1> QED BY <1>2, <1>3, <1>4

LEMMA InitHolds == Init => Inv
<1> SUFFICES ASSUME Init PROVE Inv
  OBVIOUS
<1>1. Blank \in Call
  BY PipelineConstants DEF Blank, Call
<1>2. ApprovalTypeOK /\ IsFiniteSet(pending) /\ Waits
  <2>1. /\ pending = {} /\ timers = {} /\ resolved = <<>> /\ cleanupOn = FALSE
        /\ promise = [r \in Requests |-> Promise("none", "single_execution")]
    BY DEF Init, ApprovalInit
  <2>2. Promise("none", "single_execution") \in Promises
    BY DEF Promise, Promises, Unanswered, Scopes
  <2>3. IsFiniteSet(pending)
    BY <2>1, FS_EmptySet
  <2>4. Waits
    BY <2>1 DEF Waits, Promise, Calls
  <2>5. resolved \in Seq([id : Requests, result : Results])
    BY <2>1
  <2>6. promise \in [Requests -> Promises]
    BY <2>1, <2>2
  <2> QED BY <2>1, <2>3, <2>4, <2>5, <2>6 DEF ApprovalTypeOK, Promises
<1>3. PolicyTypeOK
  BY PipelineConstants DEF Init, PolicyTypeOK
<1>4. calls \in [Calls -> Call] /\ \A c \in Calls : calls[c] = Blank
  BY <1>1 DEF Init
<1>5. \A c \in Calls : CallHolds(c) /\ AskedIsUnblocked(c)
  BY <1>4 DEF Blank, CallHolds, AskedIsUnblocked
<1> QED BY <1>2, <1>3, <1>4, <1>5 DEF Inv, Types, TypeOK, Init

LEMMA HostingStep == Inv /\ Hosting => Inv'
<1> SUFFICES ASSUME Inv, Hosting PROVE Inv'
  OBVIOUS
<1>1. UNCHANGED <<policyVars, calls>>
  BY DEF Hosting
<1>2. Keeps
  BY HostingKeeps DEF Inv, Types, TypeOK, Approvals
<1>3. Types' /\ Waits'
  BY <1>1, <1>2 DEF Keeps, Approvals, Inv, Types, TypeOK, PolicyTypeOK, policyVars
<1>4. grants' \subseteq grants
  BY <1>1 DEF policyVars
<1> QED BY <1>1, <1>2, <1>3, <1>4, Framed DEF Keeps, Inv

LEMMA ConfiguringStep == Inv /\ Configuring => Inv'
<1> SUFFICES ASSUME Inv, Configuring PROVE Inv'
  OBVIOUS
<1>1. UNCHANGED <<approvalVars, calls>>
  BY DEF Configuring
<1>2. PolicyTypeOK' /\ grants' \subseteq grants
  <2>1. ASSUME NEW p \in PolicySpecs, AddPolicy(p)
        PROVE  PolicyTypeOK' /\ grants' \subseteq grants
    <3>1. Put(policies, p) \in Seq(PolicySpecs)
      BY PutIsSeq DEF Inv, Types, TypeOK, PolicyTypeOK
    <3> QED BY <2>1, <3>1 DEF AddPolicy, Inv, Types, TypeOK, PolicyTypeOK
  <2>2. ASSUME NEW p \in PolicySpecs, RemovePolicy(p.id)
        PROVE  PolicyTypeOK' /\ grants' \subseteq grants
    <3>1. PICK i \in DOMAIN policies : policies' = RemoveAt(policies, i)
      BY <2>2 DEF RemovePolicy
    <3>2. policies' \in Seq(PolicySpecs)
      BY <3>1, RemoveAtIsSeq DEF Inv, Types, TypeOK, PolicyTypeOK
    <3> QED BY <2>2, <3>2 DEF RemovePolicy, Inv, Types, TypeOK, PolicyTypeOK
  <2>3. ASSUME NEW a \in Actions, NEW d \in AutoChoices, SetAutoApprove(a, d)
        PROVE  PolicyTypeOK' /\ grants' \subseteq grants
    BY <2>3, PipelineConstants
       DEF SetAutoApprove, Inv, Types, TypeOK, PolicyTypeOK
  <2>4. ASSUME NEW g \in grants, Revoke(g)
        PROVE  PolicyTypeOK' /\ grants' \subseteq grants
    BY <2>4 DEF Revoke, Inv, Types, TypeOK, PolicyTypeOK
  <2>5. ASSUME NEW s \in Sessions, ClearSession(s)
        PROVE  PolicyTypeOK' /\ grants' \subseteq grants
    BY <2>5 DEF ClearSession, Inv, Types, TypeOK, PolicyTypeOK
  <2> QED BY <2>1, <2>2, <2>3, <2>4, <2>5 DEF Configuring
<1>3. Types' /\ Waits'
  <2>1. ApprovalTypeOK' /\ Waits' /\ pending' = pending
    BY <1>1 DEF approvalVars, Inv, Types, TypeOK, ApprovalTypeOK, Waits
  <2>2. calls' \in [Calls -> Call] /\ grants' \subseteq Grant
    BY <1>1, <1>2 DEF Inv, Types, TypeOK
  <2> QED BY <1>2, <2>1, <2>2 DEF Inv, Types, TypeOK
<1>4. \A r \in Calls : Answered(r) => promise'[r] = promise[r]
  BY <1>1 DEF approvalVars
<1> QED BY <1>1, <1>2, <1>3, <1>4, Framed DEF Inv

-----------------------------------------------------------------------------
(* The steps of evaluate().                                                   *)

\* The context keeps what the profile and the origin say.
LEMMA ContextOf ==
    ASSUME NEW x
    PROVE  /\ Context(x).print = Profile[x.op].print
           /\ Context(x).scoped = Profile[x.op].scoped
           /\ Context(x).critical = Profile[x.op].critical
           /\ Context(x).session = x.origin.session
           /\ Context(x).task = x.origin.task
BY DEF Context

\* When evaluate() allows, one of the three allowing rules applies.
LEMMA AllowedBy ==
    ASSUME NEW ctx, policies \in Seq(PolicySpecs),
           DecisionOf(Rule(ctx), ctx) = "allow"
    PROVE  /\ Rule(ctx) \in {"allow_policy", "grant", "auto"}
           /\ Rule(ctx) = "auto" => ~ctx.critical
           /\ Rule(ctx) = "grant" => GrantsFor(ctx) # {}
<1> DEFINE rule == Rule(ctx)
<1>1. /\ Applies(rule, ctx)
      /\ rule \in {"boundary", "deny_policy", "allow_policy", "grant", "auto",
                   "fallback"}
  BY RuleApplies
<1> HIDE DEF rule
<1>2. rule # "boundary" /\ rule # "fallback"
  BY <1>1 DEF DecisionOf, rule
<1>3. rule # "deny_policy"
  <2> SUFFICES ASSUME rule = "deny_policy" PROVE FALSE
    OBVIOUS
  <2>1. Matching(ctx, Denying) # {}
    BY <1>1 DEF Applies
  <2>2. FirstDecision(Matching(ctx, Denying)) \in Denying
    BY <2>1, FirstMatches
  <2>3. DecisionOf(rule, ctx) = FirstDecision(Matching(ctx, Denying))
    BY DEF DecisionOf
  <2> QED BY <2>2, <2>3 DEF Denying, rule
<1>4. rule = "auto" => ~ctx.critical
  BY <1>1 DEF Applies
<1>5. rule = "grant" => GrantsFor(ctx) # {}
  BY <1>1 DEF Applies
<1> QED BY <1>1, <1>2, <1>3, <1>4, <1>5 DEF rule

\* A grant that matches a call's context justifies the call.
LEMMA MatchJustifies ==
    ASSUME Inv, NEW x \in Call, NEW g \in GrantsFor(Context(x)), x.grantor = g.id
    PROVE  ByGrant(x)
<1>1. g \in grants /\ GrantHolds(g)
  BY DEF GrantsFor, Inv
<1>2. g.scope = promise[g.id].scope /\ g.print = Profile[calls[g.id].op].print
      /\ g.session = calls[g.id].origin.session
      /\ g.task = calls[g.id].origin.task
      /\ g.id \in Calls /\ calls[g.id].pc = "done"
      /\ promise[g.id].status = "approved"
  BY <1>1 DEF GrantHolds
<1>3. /\ Profile[x.op].scoped
      /\ g.print = Profile[x.op].print
      /\ g.scope \in {"session", "task"} => Bound(g.session, x.origin.session)
      /\ g.scope = "task" => Bound(g.task, x.origin.task)
  BY ContextOf DEF GrantsFor
<1> QED BY <1>2, <1>3 DEF ByGrant, Bound

\* One call changes, from a state in which it holds no grant: what holds of
\* the others stays.
LEMMA OthersHold ==
    ASSUME Inv, NEW c \in Calls, NEW y \in Call, calls' = [calls EXCEPT ![c] = y],
           calls[c].pc # "done",
           \A r \in Calls : Answered(r) => promise'[r] = promise[r]
    PROVE  /\ \A g \in grants : GrantHolds(g)'
           /\ \A d \in Calls \ {c} : CallHolds(d)' /\ AskedIsUnblocked(d)'
<1>1. \A d \in Calls : d # c => calls'[d] = calls[d]
  BY DEF Inv, Types, TypeOK
<1>2. \A r \in Calls : promise[r].status = "approved" => promise'[r] = promise[r]
  BY DEF Answered, Verdicts
<1>3. \A g \in grants : GrantHolds(g)'
  <2> SUFFICES ASSUME NEW g \in grants PROVE GrantHolds(g)'
    OBVIOUS
  <2>1. GrantHolds(g)
    BY DEF Inv
  <2>2. g.id \in Calls /\ g.id # c /\ promise[g.id].status = "approved"
    BY <2>1 DEF GrantHolds
  <2> QED BY <1>1, <1>2, <2>1, <2>2 DEF GrantHolds
<1>4. \A d \in Calls \ {c} : CallHolds(d)' /\ AskedIsUnblocked(d)'
  <2> SUFFICES ASSUME NEW d \in Calls, d # c
               PROVE  CallHolds(d)' /\ AskedIsUnblocked(d)'
    OBVIOUS
  <2>1. calls'[d] = calls[d] /\ CallHolds(d) /\ AskedIsUnblocked(d)
    BY <1>1 DEF Inv
  <2>2. AskedIsUnblocked(d)'
    BY <2>1 DEF AskedIsUnblocked
  <2>3. ByGrant(calls[d]) => ByGrant(calls[d])'
    <3> SUFFICES ASSUME ByGrant(calls[d]) PROVE ByGrant(calls[d])'
      OBVIOUS
    <3> DEFINE g == calls[d].grantor
    <3>1. g \in Calls /\ calls[g].pc = "done" /\ promise[g].status = "approved"
      BY DEF ByGrant
    <3>2. calls'[g] = calls[g] /\ promise'[g] = promise[g]
      BY <1>1, <1>2, <3>1
    <3> QED BY <2>1, <3>1, <3>2 DEF ByGrant
  <2>4. CallHolds(d)'
    BY <1>2, <2>1, <2>3 DEF CallHolds
  <2> QED BY <2>2, <2>4
<1> QED BY <1>3, <1>4

LEMMA EvaluateStep ==
    ASSUME Inv, NEW c \in Calls, NEW op \in Ops, NEW origin \in Origins,
           NEW presents \in BOOLEAN, Evaluate(c, op, origin, presents)
    PROVE  Inv'
<1> DEFINE x == [calls[c] EXCEPT !.op = op, !.origin = origin]
           ctx == Context(x)
           rule == Rule(ctx)
           decision == DecisionOf(rule, ctx)
<1>1. calls[c].pc = "idle" /\ UNCHANGED policyVars
  BY DEF Evaluate
<1>2. x \in Call /\ x.op = op /\ x.pc = "idle" /\ x.approved = calls[c].approved
  BY <1>1 DEF Inv, Types, TypeOK, Call
<1>3. Blank \in Call /\ Denied \in Call /\ Denied.pc = "done" /\ ~Denied.approved
  BY PipelineConstants DEF Blank, Denied, Call
<1>4. /\ PolicyTypeOK' /\ grants' = grants /\ grants \subseteq Grant
      /\ calls \in [Calls -> Call] /\ policies \in Seq(PolicySpecs)
  BY <1>1 DEF policyVars, Inv, Types, TypeOK, PolicyTypeOK
<1>5. Approvals
  BY DEF Inv, Types, TypeOK, Approvals
<1>6. ASSUME NEW y \in Call, calls' = [calls EXCEPT ![c] = y], Keeps,
             CallHolds(c)', AskedIsUnblocked(c)'
      PROVE  Inv'
  <2>1. /\ \A g \in grants : GrantHolds(g)'
        /\ \A d \in Calls \ {c} : CallHolds(d)' /\ AskedIsUnblocked(d)'
    BY <1>1, <1>6, OthersHold DEF Keeps
  <2>2. calls' \in [Calls -> Call]
    BY <1>4, <1>6
  <2>3. Types' /\ Waits'
    BY <1>4, <1>6, <2>2 DEF Keeps, Approvals, Types, TypeOK
  <2> QED BY <1>4, <1>6, <2>1, <2>3 DEF Inv
<1> HIDE DEF x, ctx, rule, decision
<1>7. CASE /\ calls' = [calls EXCEPT ![c] = Denied]
           /\ UNCHANGED approvalVars
  <2>1. Keeps
    BY <1>5, <1>7 DEF Keeps, approvalVars, Approvals, ApprovalTypeOK, Waits
  <2>2. calls'[c] = Denied
    BY <1>4, <1>7
  <2> QED BY <1>3, <1>6, <1>7, <2>1, <2>2 DEF CallHolds, AskedIsUnblocked
<1>8. CASE /\ ~Profile[op].blocked /\ decision = "allow"
           /\ \E g \in IF rule = "grant" THEN {h.id : h \in GrantsFor(ctx)}
                                         ELSE {"none"} :
                calls' = [calls EXCEPT ![c] = Answer(x, rule, g)]
           /\ UNCHANGED approvalVars
  <2>1. PICK g \in IF rule = "grant" THEN {h.id : h \in GrantsFor(ctx)}
                                    ELSE {"none"} :
           calls' = [calls EXCEPT ![c] = Answer(x, rule, g)]
    BY <1>8
  <2>0. PICK y : y = Answer(x, rule, g)
    OBVIOUS
  <2>2. /\ rule \in {"allow_policy", "grant", "auto"}
        /\ rule = "auto" => ~ctx.critical
        /\ rule = "grant" => GrantsFor(ctx) # {}
    BY <1>4, <1>8, AllowedBy DEF rule, decision
  <2>3. rule = "grant" => \E h \in GrantsFor(ctx) : g = h.id
    OBVIOUS
  <2>4. g \in Calls \cup {"none"}
    <3>1. \A h \in GrantsFor(ctx) : h.id \in Calls
      BY <1>4 DEF GrantsFor, Grant
    <3> QED BY <2>3, <3>1
  <2>5. /\ y \in Call /\ y.pc = "done" /\ y.by = rule /\ y.grantor = g
        /\ y.op = op /\ y.origin = x.origin
        /\ y.approved = ~Profile[op].escapes
    BY <1>2, <2>0, <2>2, <2>4, PipelineConstants DEF Answer, Call
  <2>6. ctx = Context(y)
    BY <1>2, <2>5 DEF ctx, Context
  <2>7. rule = "grant" => ByGrant(y)
    BY <2>3, <2>5, <2>6, MatchJustifies
  <2>8. ctx.critical = Profile[op].critical
    BY <2>5, <2>6, ContextOf
  <2>9. calls' = [calls EXCEPT ![c] = y] /\ calls'[c] = y
    BY <1>4, <2>0, <2>1
  <2>10. Keeps
    BY <1>5, <1>8 DEF Keeps, approvalVars, Approvals, ApprovalTypeOK, Waits
  <2>11. rule = "grant" => ByGrant(y)'
    <3> SUFFICES ASSUME rule = "grant" PROVE ByGrant(y)'
      OBVIOUS
    <3>1. ByGrant(y)
      BY <2>7
    <3>2. y.grantor \in Calls /\ y.grantor # c
      BY <1>1, <3>1 DEF ByGrant
    <3>3. calls'[y.grantor] = calls[y.grantor] /\ promise' = promise
      BY <1>4, <1>8, <2>9, <3>2 DEF approvalVars
    <3> QED BY <3>1, <3>3 DEF ByGrant
  <2>12. CallHolds(c)'
    BY <1>8, <2>2, <2>5, <2>8, <2>9, <2>11 DEF CallHolds
  <2>13. AskedIsUnblocked(c)'
    BY <2>5, <2>9 DEF AskedIsUnblocked
  <2> QED BY <1>6, <2>5, <2>9, <2>10, <2>12, <2>13
<1>9. CASE /\ ~Profile[op].blocked
           /\ calls' = [calls EXCEPT ![c] =
                          IF presents THEN [x EXCEPT !.pc = "asking"] ELSE Denied]
           /\ RequestApproval(c, presents)
  <2> DEFINE y == IF presents THEN [x EXCEPT !.pc = "asking"] ELSE Denied
  <2>1. y \in Call /\ ~y.approved /\ (y.pc = "asking" => y.op = op)
    <3>1. ~x.approved
      BY <1>1, <1>2 DEF Inv, CallHolds
    <3>2. CASE presents
      BY <1>2, <3>1, <3>2 DEF Call
    <3>3. CASE ~presents
      BY <1>3, <3>3
    <3> QED BY <3>2, <3>3
  <2>2. calls'[c] = y /\ calls' = [calls EXCEPT ![c] = y]
    BY <1>4, <1>9
  <2>3. Keeps
    BY <1>5, <1>9, RequestApprovalKeeps
  <2> HIDE DEF y
  <2> QED BY <1>6, <1>9, <2>1, <2>2, <2>3 DEF CallHolds, AskedIsUnblocked
<1> QED BY <1>7, <1>8, <1>9 DEF Evaluate, x, ctx, rule, decision

LEMMA ApprovalSettledStep ==
    ASSUME Inv, NEW c \in Calls, ApprovalSettled(c)
    PROVE  Inv'
<1> DEFINE x == calls[c]
           y == IF promise[c].status = "approved" THEN Answer(x, "user", "none")
                                                  ELSE Denied
<1>1. x.pc = "asking" /\ Answered(c) /\ UNCHANGED <<approvalVars, policies, autoApprove>>
  BY DEF ApprovalSettled
<1>2. calls' = [calls EXCEPT ![c] = y]
  BY DEF ApprovalSettled
<1>3. x \in Call /\ calls \in [Calls -> Call] /\ promise \in [Calls -> Promises]
  BY DEF Inv, Types, TypeOK, ApprovalTypeOK, Promises, Calls
<1>4. Blank \in Call /\ Denied \in Call /\ Denied.pc = "done" /\ ~Denied.approved
  BY PipelineConstants DEF Blank, Denied, Call
<1>5. Profile[x.op].escapes \in BOOLEAN
  BY <1>3, PipelineConstants DEF Call
<1>6. y \in Call /\ y.pc = "done"
  BY <1>3, <1>4, <1>5 DEF Answer, Call
<1>7. promise[c].status = "approved" =>
        y.by = "user" /\ y.op = x.op /\ y.origin = x.origin
        /\ y.approved = ~Profile[x.op].escapes
  BY <1>3 DEF Answer, Call
<1>8. promise[c].status # "approved" => ~y.approved
  BY <1>4
<1> HIDE DEF y
<1>9. calls'[c] = y /\ promise' = promise
  BY <1>1, <1>2, <1>3 DEF approvalVars
<1>10. /\ \A g \in grants : GrantHolds(g)'
       /\ \A d \in Calls \ {c} : CallHolds(d)' /\ AskedIsUnblocked(d)'
  BY <1>1, <1>2, <1>6, <1>9, OthersHold
<1>11. CallHolds(c)' /\ AskedIsUnblocked(c)'
  <2>1. ~Profile[x.op].blocked
    BY <1>1 DEF Inv, AskedIsUnblocked
  <2> QED BY <1>6, <1>7, <1>8, <1>9, <2>1 DEF CallHolds, AskedIsUnblocked
<1>12. /\ grants' \subseteq Grant
       /\ \A g \in grants' : GrantHolds(g)'
  <2>1. CASE promise[c].status = "approved"
    <3>0. PICK g : g = GrantTo(c)
      OBVIOUS
    <3>1. grants' = grants \cup {g}
      BY <2>1, <3>0 DEF ApprovalSettled
    <3>2. /\ g.id = c /\ g.scope = promise[c].scope
          /\ g.print = Profile[x.op].print
          /\ g.session = x.origin.session /\ g.task = x.origin.task
      BY <3>0 DEF GrantTo
    <3>3. g \in Grant
      BY <1>3, <3>0, PipelineConstants DEF GrantTo, Grant, Call, Promises, Sessions, Tasks
    <3>4. GrantHolds(g)'
      BY <1>6, <1>7, <1>9, <2>1, <3>2 DEF GrantHolds
    <3> QED BY <1>10, <3>1, <3>3, <3>4 DEF Inv, Types, TypeOK
  <2>2. CASE promise[c].status # "approved"
    BY <1>10, <2>2 DEF ApprovalSettled, Inv, Types, TypeOK
  <2> QED BY <2>1, <2>2
<1>13. Types' /\ Waits'
  <2>1. ApprovalTypeOK' /\ Waits' /\ pending' = pending
    BY <1>1 DEF approvalVars, Inv, Types, TypeOK, ApprovalTypeOK, Waits
  <2>2. PolicyTypeOK'
    BY <1>1 DEF Inv, Types, TypeOK, PolicyTypeOK
  <2>3. calls' \in [Calls -> Call]
    BY <1>2, <1>3, <1>6
  <2> QED BY <1>12, <2>1, <2>2, <2>3 DEF Inv, Types, TypeOK
<1> QED BY <1>10, <1>11, <1>12, <1>13 DEF Inv

LEMMA NextStep == Inv /\ [Next]_vars => Inv'
<1> SUFFICES ASSUME Inv, [Next]_vars PROVE Inv'
  OBVIOUS
<1>1. CASE UNCHANGED vars
  <2>1. /\ UNCHANGED <<approvalVars, policyVars, calls>>
    BY <1>1 DEF vars
  <2>2. Types' /\ Waits'
    BY <2>1 DEF approvalVars, policyVars, Inv, Types, TypeOK, ApprovalTypeOK,
                PolicyTypeOK, Waits
  <2>3. /\ grants' = grants
        /\ \A r \in Calls : Answered(r) => promise'[r] = promise[r]
    BY <2>1 DEF approvalVars, policyVars
  <2> QED BY <2>1, <2>2, <2>3, Framed DEF Inv
<1>2. ASSUME NEW c \in Calls, Evaluates(c) PROVE Inv'
  BY <1>2, EvaluateStep DEF Evaluates
<1>3. ASSUME NEW c \in Calls, ApprovalSettled(c) PROVE Inv'
  BY <1>3, ApprovalSettledStep
<1> QED BY <1>1, <1>2, <1>3, HostingStep, ConfiguringStep DEF Next

THEOREM Invariance == Spec => []Inv
<1>1. Init => Inv
  BY InitHolds
<1>2. Inv /\ [Next]_vars => Inv'
  BY NextStep
<1> QED BY <1>1, <1>2, PTL DEF Spec

\* The pipeline's variables have their types.
THEOREM TypeCorrect == Spec => []TypeOK
<1>1. Inv => TypeOK
  BY DEF Inv, Types
<1> QED BY <1>1, Invariance, PTL

\* Nobody waits for a request that has no timer, whatever is answered, expires
\* or is disposed of, and in whatever order.
THEOREM WaitsCanEnd == Spec => []EveryWaitCanEnd
<1>1. Inv => EveryWaitCanEnd
  BY DEF Inv, Waits, EveryWaitCanEnd, Calls
<1> QED BY <1>1, Invariance, PTL

\* Every approval rests on a policy, on the user's answer to it, on auto-
\* approval of what is not critical, or on an answer to the same operation.
THEOREM ApprovalsAreJustified == Spec => []ApprovalIsJustified
<1>1. Inv => ApprovalIsJustified
  <2> SUFFICES ASSUME Inv, NEW c \in Calls, calls[c].approved
               PROVE  ApprovalIsJustified!(c)
    BY DEF ApprovalIsJustified
  <2> QED BY DEF Inv, CallHolds, ByGrant, ApprovalIsJustified
<1> QED BY <1>1, Invariance, PTL

\* No approval reaches past the command policy or out of the workspace.
THEOREM BoundariesHold == Spec => []NoApprovalPastBoundary
<1>1. Inv => NoApprovalPastBoundary
  BY DEF Inv, CallHolds, NoApprovalPastBoundary
<1> QED BY <1>1, Invariance, PTL

-----------------------------------------------------------------------------
(* One answer per request.                                                    *)

Entries == [id : Requests, result : Results]

\* The entries of s have ids of their own, agree with the promises p and wait for
\* nobody in q; who waits has no answer yet.
Once(s, p, q) ==
    /\ \A i \in DOMAIN s : /\ p[s[i].id] = s[i].result \/ p[s[i].id].status = "thrown"
                           /\ s[i].id \notin q
    /\ \A i, j \in DOMAIN s : s[i].id = s[j].id => i = j
    /\ \A r \in q : p[r].status \in {"unsettled", "thrown"}

LEMMA NewestOnce ==
    ASSUME NEW s \in Seq(Entries), NEW p, NEW q, Once(s, p, q)
    PROVE  Once(Newest(s), p, q)
<1>1. CASE Len(s) <= MaxResolved
  BY <1>1 DEF Newest
<1>2. CASE ~(Len(s) <= MaxResolved)
  <2> DEFINE from == Len(s) - MaxResolved
             t == SubSeq(s, from + 1, Len(s))
  <2>1. from \in Nat /\ Len(s) \in Nat /\ from <= Len(s)
    BY <1>2, MaxResolvedNat
  <2>2. Newest(s) = t
    BY <1>2 DEF Newest
  <2>3. /\ DOMAIN t \subseteq Nat
        /\ \A i \in DOMAIN t : i + from \in DOMAIN s /\ t[i] = s[i + from]
    <3> HIDE DEF from
    <3> QED BY <2>1
  <2> HIDE DEF from, t
  <2>4. \A i, j \in DOMAIN t : i + from = j + from => i = j
    BY <2>1, <2>3
  <2> QED BY <2>2, <2>3, <2>4 DEF Once
<1> QED BY <1>1, <1>2

LEMMA ResolveOnce ==
    ASSUME Approvals, NEW r \in Calls, NEW result \in Results,
           ResolvePending(r, result), Once(resolved, promise, pending)
    PROVE  Once(resolved, promise, pending)'
<1> USE DEF Calls
<1> DEFINE e == [id |-> r, result |-> result]
<1>1. /\ r \in pending /\ pending' = pending \ {r}
      /\ resolved' = Append(resolved, e)
      /\ promise' = [promise EXCEPT ![r] = SettledTo(r, result)]
  BY DEF ResolvePending
<1>2. resolved \in Seq(Entries) /\ promise \in [Requests -> Promises]
  BY DEF Approvals, ApprovalTypeOK, Entries, Promises
<1>3. e.id = r /\ e.result = result
  OBVIOUS
<1> HIDE DEF e
<1>4. /\ Len(resolved) \in Nat /\ DOMAIN resolved = 1..Len(resolved)
      /\ DOMAIN resolved' = 1..(Len(resolved) + 1)
      /\ resolved'[Len(resolved) + 1] = e
      /\ \A i \in 1..Len(resolved) : resolved'[i] = resolved[i]
  BY <1>1, <1>2
<1>5. promise'[r] = SettledTo(r, result) /\ \A x \in Requests : x # r => promise'[x] = promise[x]
  BY <1>1, <1>2
<1>6. promise'[r] = result \/ promise'[r].status = "thrown"
  BY <1>1, <1>5 DEF Once, SettledTo
<1>7. \A i \in 1..Len(resolved) : resolved[i].id \in Requests /\ resolved[i].id # r
  <2>1. \A i \in 1..Len(resolved) : resolved[i] \in Entries
    BY <1>2, <1>4
  <2> QED BY <1>1, <1>4, <2>1 DEF Once, Entries
<1>8. \A i \in DOMAIN resolved' : i # Len(resolved) + 1 => i \in 1..Len(resolved)
  BY <1>4
<1>9. ASSUME NEW i \in DOMAIN resolved'
      PROVE  /\ \/ promise'[resolved'[i].id] = resolved'[i].result
                \/ promise'[resolved'[i].id].status = "thrown"
             /\ resolved'[i].id \notin pending'
  <2>1. CASE i = Len(resolved) + 1
    BY <1>1, <1>3, <1>4, <1>6, <2>1
  <2>2. CASE i # Len(resolved) + 1
    <3>1. i \in DOMAIN resolved /\ resolved'[i] = resolved[i]
          /\ resolved[i].id \in Requests /\ resolved[i].id # r
      BY <1>4, <1>7, <1>8, <2>2
    <3> QED BY <1>1, <1>5, <3>1 DEF Once
  <2> QED BY <2>1, <2>2
<1>10. \A i, j \in DOMAIN resolved' : resolved'[i].id = resolved'[j].id => i = j
  BY <1>3, <1>4, <1>7, <1>8 DEF Once
<1>11. \A x \in pending' : promise'[x].status \in {"unsettled", "thrown"}
  BY <1>1, <1>5 DEF Once, Approvals, ApprovalTypeOK
<1> QED BY <1>9, <1>10, <1>11 DEF Once

LEMMA RequestOnce ==
    ASSUME Approvals, NEW c \in Calls, NEW presents \in BOOLEAN,
           RequestApproval(c, presents), Once(resolved, promise, pending)
    PROVE  Once(resolved, promise, pending)'
<1> USE DEF Calls
<1> DEFINE status == IF presents THEN "unsettled" ELSE "thrown"
<1>1. /\ pending' = pending \cup {c} /\ resolved' = resolved
      /\ promise' = [promise EXCEPT ![c].status = status]
      /\ promise[c].status = "none"
  BY DEF RequestApproval
<1>2. promise \in [Requests -> Promises] /\ pending \subseteq Requests
      /\ resolved \in Seq(Entries)
  BY DEF Approvals, ApprovalTypeOK, Promises, Entries
<1>3. status \in {"unsettled", "thrown"}
  OBVIOUS
<1> HIDE DEF status
<1>4. promise'[c].status = status /\ \A x \in Requests : x # c => promise'[x] = promise[x]
  BY <1>1, <1>2 DEF Promises
<1>5. \A i \in DOMAIN resolved : resolved[i].id \in Requests /\ resolved[i].id # c
  <2>1. \A i \in DOMAIN resolved : resolved[i] \in Entries
    BY <1>2
  <2>2. ASSUME NEW i \in DOMAIN resolved PROVE resolved[i].id # c
    <3>1. resolved[i].result.status # "none"
      BY <2>1 DEF Entries, Results, Verdicts
    <3> QED BY <1>1, <3>1 DEF Once
  <2> QED BY <2>1, <2>2 DEF Entries
<1>6. \A i \in DOMAIN resolved :
         /\ \/ promise'[resolved[i].id] = resolved[i].result
            \/ promise'[resolved[i].id].status = "thrown"
         /\ resolved[i].id \notin pending'
  BY <1>1, <1>4, <1>5 DEF Once
<1>7. \A x \in pending' : promise'[x].status \in {"unsettled", "thrown"}
  BY <1>1, <1>2, <1>3, <1>4 DEF Once
<1> QED BY <1>1, <1>6, <1>7 DEF Once

\* Dispose appends the answers of all that wait, each once.
LEMMA DisposeOnce ==
    ASSUME Approvals, DisposeApprovals, Once(resolved, promise, pending)
    PROVE  Once(resolved, promise, pending)'
<1> USE DEF Calls
<1>1. PICK order \in SetToSeqs(pending) :
        resolved' = Newest(resolved \o
                      [i \in DOMAIN order |->
                         [id |-> order[i], result |-> CancelledResult]])
  BY DEF DisposeApprovals
<1> DEFINE n == Cardinality(pending)
           more == [i \in DOMAIN order |-> [id |-> order[i], result |-> CancelledResult]]
<1>2. /\ pending' = {}
      /\ promise' = [r \in Requests |-> IF r \in pending THEN SettledTo(r, CancelledResult)
                                        ELSE promise[r]]
  BY DEF DisposeApprovals
<1>3. n \in Nat /\ pending \subseteq Requests /\ resolved \in Seq(Entries)
      /\ promise \in [Requests -> Promises]
  BY FS_CardinalityType DEF Approvals, ApprovalTypeOK, Entries, Promises
<1>4. CancelledResult \in Results
  BY DEF CancelledResult, Promise, Results, Verdicts, Scopes
<1>5. order \in [1..n -> pending] /\ \A i, j \in 1..n : i # j => order[i] # order[j]
  BY <1>1 DEF SetToSeqs
<1>6. /\ DOMAIN more = 1..n
      /\ \A i \in 1..n : more[i].id = order[i] /\ more[i].result = CancelledResult
                         /\ more[i] \in Entries
  <2>1. more = [i \in 1..n |-> [id |-> order[i], result |-> CancelledResult]]
    BY <1>5
  <2>2. \A i \in 1..n : order[i] \in Requests
    BY <1>3, <1>5
  <2> HIDE DEF n, more
  <2> QED BY <1>4, <2>1, <2>2 DEF Entries
<1>7. more \in Seq(Entries) /\ Len(more) = n
  <2> HIDE DEF n, more
  <2>1. more \in [1..n -> Entries]
    <3>1. more = [i \in 1..n |-> more[i]]
      BY <1>5, <1>6 DEF more
    <3> QED BY <1>6, <3>1
  <2> QED BY <1>3, <2>1
<1> HIDE DEF n, more
<1> DEFINE s == resolved \o more
<1>8. /\ s \in Seq(Entries) /\ Len(resolved) \in Nat /\ DOMAIN resolved = 1..Len(resolved)
      /\ DOMAIN s = 1..(Len(resolved) + n)
      /\ \A i \in 1..(Len(resolved) + n) :
            s[i] = IF i <= Len(resolved) THEN resolved[i] ELSE more[i - Len(resolved)]
  BY <1>3, <1>7
<1>9. resolved' = Newest(s)
  BY <1>1 DEF more
<1> HIDE DEF s
<1>10. \A i \in DOMAIN s :
          \/ i \in DOMAIN resolved /\ s[i] = resolved[i]
          \/ /\ i - Len(resolved) \in 1..n /\ i > Len(resolved)
             /\ s[i].id = order[i - Len(resolved)] /\ s[i].id \in pending
             /\ s[i].result = CancelledResult
  <2>1. TAKE i \in DOMAIN s
  <2>2. CASE i <= Len(resolved)
    BY <1>8, <2>2
  <2>3. CASE ~(i <= Len(resolved))
    <3>1. i - Len(resolved) \in 1..n /\ i > Len(resolved)
      BY <1>3, <1>8, <2>3
    <3> QED BY <1>5, <1>6, <1>8, <2>3, <3>1
  <2> QED BY <2>2, <2>3
<1>11. \A i \in DOMAIN resolved : resolved[i].id \in Requests /\ resolved[i].id \notin pending
  <2>1. \A i \in DOMAIN resolved : resolved[i] \in Entries
    BY <1>3
  <2> QED BY <2>1 DEF Once, Entries
<1>12. ASSUME NEW i \in DOMAIN s
       PROVE  promise'[s[i].id] = s[i].result \/ promise'[s[i].id].status = "thrown"
  <2>1. CASE i \in DOMAIN resolved /\ s[i] = resolved[i]
    BY <1>2, <1>11, <2>1 DEF Once
  <2>2. CASE s[i].id \in pending /\ s[i].result = CancelledResult
    <3>1. promise'[s[i].id] = SettledTo(s[i].id, CancelledResult)
      BY <1>2, <1>3, <2>2
    <3> QED BY <2>2, <3>1 DEF Once, SettledTo
  <2> QED BY <1>10, <2>1, <2>2
<1>13. ASSUME NEW i \in DOMAIN s, NEW j \in DOMAIN s, s[i].id = s[j].id
       PROVE  i = j
  <2>1. CASE i \in DOMAIN resolved /\ s[i] = resolved[i]
    <3>1. j \in DOMAIN resolved /\ s[j] = resolved[j]
      BY <1>10, <1>11, <1>13, <2>1
    <3> QED BY <1>13, <2>1, <3>1 DEF Once
  <2>2. CASE /\ i - Len(resolved) \in 1..n /\ i > Len(resolved)
             /\ s[i].id = order[i - Len(resolved)] /\ s[i].id \in pending
    <3>1. /\ j - Len(resolved) \in 1..n
          /\ s[j].id = order[j - Len(resolved)]
      BY <1>10, <1>11, <1>13, <2>2
    <3>2. i - Len(resolved) = j - Len(resolved)
      BY <1>5, <1>13, <2>2, <3>1
    <3>3. i \in Int /\ j \in Int
      BY <1>3, <1>8
    <3> QED BY <1>8, <3>2, <3>3
  <2> QED BY <1>10, <2>1, <2>2
<1>14. Once(s, promise', {})
  BY <1>12, <1>13 DEF Once
<1>15. Once(Newest(s), promise', {})
  BY <1>8, <1>14, NewestOnce
<1> QED BY <1>2, <1>9, <1>15 DEF Once

LEMMA OnceStep ==
    ASSUME Inv, Once(resolved, promise, pending), [Next]_vars
    PROVE  Once(resolved, promise, pending)'
<1> USE DEF Calls
<1>1. Approvals
  BY DEF Inv, Types, TypeOK, Approvals
<1>2. CASE UNCHANGED approvalVars
  BY <1>2 DEF approvalVars, Once
<1>3. ASSUME NEW c \in Calls, NEW result \in Results, ResolvePending(c, result)
      PROVE  Once(resolved, promise, pending)'
  BY <1>1, <1>3, ResolveOnce
<1>4. ASSUME NEW c \in Calls, Evaluates(c)
      PROVE  Once(resolved, promise, pending)'
  <2>1. PICK op \in Ops, origin \in Origins, presents \in BOOLEAN :
           Evaluate(c, op, origin, presents)
    BY <1>4 DEF Evaluates
  <2>2. UNCHANGED approvalVars \/ RequestApproval(c, presents)
    BY <2>1 DEF Evaluate
  <2> QED BY <1>1, <1>2, <2>2, RequestOnce
<1>5. ASSUME NEW c \in Calls, Answers(c)
      PROVE  Once(resolved, promise, pending)'
  <2>1. ASSUME NEW scope \in Scopes, Approve(c, scope)
        PROVE  Once(resolved, promise, pending)'
    <3>1. Promise("approved", scope) \in Results
      BY DEF Promise, Results, Verdicts
    <3> QED BY <1>3, <2>1, <3>1 DEF Approve
  <2>2. CASE Reject(c, "single_execution")
    <3>1. Promise("rejected", "single_execution") \in Results
      BY DEF Promise, Results, Verdicts, Scopes
    <3> QED BY <1>3, <2>2, <3>1 DEF Reject
  <2>3. CASE CancelApproval(c)
    <3>1. CancelledResult \in Results
      BY DEF CancelledResult, Promise, Results, Verdicts, Scopes
    <3> QED BY <1>3, <2>3, <3>1 DEF CancelApproval
  <2> QED BY <1>5, <2>1, <2>2, <2>3 DEF Answers
<1>6. ASSUME NEW c \in Calls, Expire(c)
      PROVE  Once(resolved, promise, pending)'
  <2>1. Promise("expired", "single_execution") \in Results
    BY DEF Promise, Results, Verdicts, Scopes
  <2>2. c \in pending
    BY <1>1, <1>6 DEF Expire, Approvals, Waits
  <2> QED BY <1>3, <1>6, <2>1, <2>2 DEF Expire
<1>7. CASE Cleanup
  <2>1. resolved \in Seq(Entries)
    BY <1>1 DEF Approvals, ApprovalTypeOK, Entries
  <2>2. Once(Newest(resolved), promise, pending)
    BY <2>1, NewestOnce
  <2> QED BY <1>7, <2>2 DEF Cleanup, Once
<1>8. CASE DisposeApprovals
  BY <1>1, <1>8, DisposeOnce
<1>9. ASSUME NEW c \in Calls, ApprovalSettled(c) PROVE UNCHANGED approvalVars
  BY <1>9 DEF ApprovalSettled
<1>10. Configuring => UNCHANGED approvalVars
  BY DEF Configuring
<1>11. UNCHANGED vars => UNCHANGED approvalVars
  BY DEF vars, approvalVars
<1> QED BY <1>2, <1>4, <1>5, <1>6, <1>7, <1>8, <1>9, <1>10, <1>11 DEF Next, Hosting

\* A request gets one answer, and it is the one its caller was given; what is
\* answered does not wait.
THEOREM OneAnswer == Spec => []OneAnswerPerRequest
<1>1. Init => Once(resolved, promise, pending)
  BY DEF Init, ApprovalInit, Once
<1>2. Inv /\ Once(resolved, promise, pending) /\ [Next]_vars
        => Once(resolved, promise, pending)'
  BY OnceStep
<1>3. Once(resolved, promise, pending) => OneAnswerPerRequest
  BY DEF Once, OneAnswerPerRequest
<1> QED BY <1>1, <1>2, <1>3, Invariance, PTL DEF Spec
=============================================================================
