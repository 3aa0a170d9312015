--------------------------- MODULE ApprovalManager ---------------------------
(* ApprovalManager (packages/tool-engine/src/m4/approval-manager.ts): the     *)
(* requests that wait for the user, and the answers kept after they settle.   *)
(* Each request has a promise, a timer, and an entry in one of two maps.      *)
EXTENDS Naturals, SequencesExt

CONSTANTS Requests,     \* one identity per call of requestApproval
          MaxResolved   \* options.maxResolvedEntries

ASSUME MaxResolvedNat == MaxResolved \in Nat

Scopes   == {"single_execution", "session", "task"}
Verdicts == {"approved", "rejected", "cancelled", "expired"}
Results  == [status : Verdicts, scope : Scopes]

VARIABLES
    pending,    \* the keys of this.pending
    timers,     \* requests whose expiry timer is set
    resolved,   \* this.resolved, oldest entry first
    promise,    \* what the promise of a request has settled to
    cleanupOn   \* this.cleanupTimer is set

approvalVars == <<pending, timers, resolved, promise, cleanupOn>>

\* What a promise can be: "none" before requestApproval, and "thrown" when
\* onApprovalRequested threw inside the Promise executor.
Unanswered == {"none", "unsettled", "thrown"}

Promise(status, scope) == [status |-> status, scope |-> scope]

Answered(r) == promise[r].status \in Verdicts

ApprovalTypeOK ==
    /\ pending \subseteq Requests
    /\ timers  \subseteq Requests
    /\ resolved \in Seq([id : Requests, result : Results])
    /\ promise \in [Requests -> [status : Unanswered \cup Verdicts, scope : Scopes]]
    /\ cleanupOn \in BOOLEAN

ApprovalInit ==
    /\ pending = {}
    /\ timers = {}
    /\ resolved = <<>>
    /\ promise = [r \in Requests |-> Promise("none", "single_execution")]
    /\ cleanupOn = FALSE

-----------------------------------------------------------------------------
\* Faulty: the expiry timer is not set.
RequestApproval_NoTimer(r, presents) ==
    /\ promise[r].status = "none"
    /\ pending' = pending \cup {r}
    /\ promise' = [promise EXCEPT ![r].status = IF presents THEN "unsettled"
                                                ELSE "thrown"]
    /\ UNCHANGED <<timers, resolved, cleanupOn>>

\* The timer and the map entry are there before the host hears of the
\* request, and stay if the host's callback throws.
RequestApproval(r, presents) ==
    /\ promise[r].status = "none"
    /\ pending' = pending \cup {r}
    /\ timers'  = timers \cup {r}
    /\ promise' = [promise EXCEPT ![r].status = IF presents THEN "unsettled"
                                                ELSE "thrown"]
    /\ UNCHANGED <<resolved, cleanupOn>>

\* A promise takes its first settlement only.
SettledTo(r, result) ==
    IF promise[r].status = "unsettled" THEN result ELSE promise[r]

\* Faulty: the entry stays in this.pending.
ResolvePending_KeepsEntry(r, result) ==
    /\ r \in pending
    /\ pending' = pending
    /\ timers'  = timers \ {r}
    /\ resolved' = Append(resolved, [id |-> r, result |-> result])
    /\ promise' = [promise EXCEPT ![r] = SettledTo(r, result)]

\* resolvePending(): the only way out of this.pending.
ResolvePending(r, result) ==
    /\ r \in pending
    /\ pending' = pending \ {r}
    /\ timers'  = timers \ {r}
    /\ resolved' = Append(resolved, [id |-> r, result |-> result])
    /\ promise' = [promise EXCEPT ![r] = SettledTo(r, result)]

\* The first approval starts the periodic cleanup.
Approve(r, scope) ==
    /\ ResolvePending(r, Promise("approved", scope))
    /\ cleanupOn' = TRUE

Reject(r, scope) ==
    /\ ResolvePending(r, Promise("rejected", scope))
    /\ UNCHANGED cleanupOn

CancelledResult == Promise("cancelled", "single_execution")

CancelApproval(r) ==
    /\ ResolvePending(r, CancelledResult)
    /\ UNCHANGED cleanupOn

\* expire(), called by the timer; a timer whose request has left the map
\* changes nothing else.
Expire(r) ==
    /\ r \in timers
    /\ IF r \in pending
       THEN ResolvePending(r, Promise("expired", "single_execution"))
       ELSE timers' = timers \ {r} /\ UNCHANGED <<pending, resolved, promise>>
    /\ UNCHANGED cleanupOn

\* cleanupOldResolvedEntries(): the newest MaxResolved entries are kept.
Newest(s) ==
    IF Len(s) <= MaxResolved THEN s
    ELSE SubSeq(s, Len(s) - MaxResolved + 1, Len(s))

Cleanup ==
    /\ cleanupOn
    /\ resolved' = Newest(resolved)
    /\ UNCHANGED <<pending, timers, promise, cleanupOn>>

\* dispose(): every pending request is cancelled.  The order in which the map
\* lists them is left open.
DisposeApprovals ==
    /\ cleanupOn' = FALSE
    /\ \E order \in SetToSeqs(pending) :
         resolved' = Newest(resolved \o
                       [i \in DOMAIN order |->
                          [id |-> order[i], result |-> CancelledResult]])
    /\ pending' = {}
    /\ timers'  = timers \ pending
    /\ promise' = [r \in Requests |-> IF r \in pending
                                      THEN SettledTo(r, CancelledResult)
                                      ELSE promise[r]]

-----------------------------------------------------------------------------
\* "An approval request can be resolved exactly once", and a later call is
\* told the first answer: an id has one entry at most among the resolved, and
\* it says what the request's promise settled to (approval-manager.ts:10-12).
OneAnswerPerRequest ==
    \A i \in DOMAIN resolved :
        LET entry == resolved[i] IN
        /\ \/ promise[entry.id] = entry.result
           \/ promise[entry.id].status = "thrown"
        /\ entry.id \notin pending
        /\ \A j \in DOMAIN resolved : resolved[j].id = entry.id => j = i

\* Nobody waits in vain, whatever the order of answers, timeouts and dispose:
\* a promise that is unsettled belongs to a pending request, and a request is
\* pending exactly as long as its expiry timer is set.
EveryWaitCanEnd ==
    /\ \A r \in Requests : promise[r].status = "unsettled" => r \in pending
    /\ timers = pending
=============================================================================
