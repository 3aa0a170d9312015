------------------------- MODULE PermissionPipeline -------------------------
(* M4PermissionPipeline.evaluate() (packages/tool-engine/src/m4/              *)
(* integration.ts) as LiveToolPermissionBridge calls it: the command policy,  *)
(* the policy engine, the user's approval and the workspace boundaries.       *)
(* evaluate() suspends once, while it waits for the approval.                 *)
EXTENDS ApprovalManager, PolicyEngine

CONSTANTS Ops,       \* operations: a tool and its input
          Profile,   \* what the code can tell of each operation
          Origins,   \* the [session, task] a call comes from, "none" if unset
          AutoChoices   \* what the host sets auto-approval to

\* print: operationFingerprintOf; scoped: hasSecurityRelevantScope; blocked:
\* the command policy refuses it; escapes: enforceBoundaries refuses it.
ASSUME PipelineConstants ==
    /\ Ops # {} /\ Origins # {}
    /\ AutoChoices \subseteq Decisions \cup {"unset"}
    /\ Profile \in [Ops -> [action : Actions, print : STRING,
                            scoped : BOOLEAN, critical : BOOLEAN,
                            blocked : BOOLEAN, escapes : BOOLEAN]]

Calls == Requests

VARIABLE calls   \* each call of evaluateLiveTool, and the locals of evaluate()

vars == <<approvalVars, policyVars, calls>>

Sessions == {o.session : o \in Origins}
Tasks    == {o.task : o \in Origins}

Call == [pc : {"idle", "asking", "done"}, op : Ops,
         origin : Origins,
         by : {"none", "allow_policy", "grant", "auto", "user"},
         grantor : Calls \cup {"none"},   \* the approval a grant came from
         approved : BOOLEAN]

Grant == [id : Calls, action : Actions, print : STRING, scope : Scopes,
          session : Sessions, task : Tasks]

TypeOK ==
    /\ ApprovalTypeOK
    /\ PolicyTypeOK
    /\ grants \subseteq Grant
    /\ calls \in [Calls -> Call]

Blank == [pc |-> "idle", op |-> CHOOSE op \in Ops : TRUE,
          origin |-> CHOOSE o \in Origins : TRUE, by |-> "none",
          grantor |-> "none", approved |-> FALSE]

Init ==
    /\ ApprovalInit
    /\ policies = <<>>
    /\ autoApprove \in [Actions -> AutoChoices]
    /\ grants = {}
    /\ calls = [c \in Calls |-> Blank]

-----------------------------------------------------------------------------
\* The context evaluate() builds; buildMetadata never sets outsideWorkspace.
Context(x) ==
    LET p == Profile[x.op] IN
    [action |-> p.action, print |-> p.print, scoped |-> p.scoped,
     critical |-> p.critical, outside |-> FALSE,
     session |-> x.origin.session, task |-> x.origin.task]

\* evaluate() returns: its locals are kept only for what was let through.
Denied == [Blank EXCEPT !.pc = "done"]

Answer(x, by, grantor) ==
    [x EXCEPT !.pc = "done", !.by = by, !.grantor = grantor,
              !.approved = ~Profile[x.op].escapes]

\* evaluate() up to its answer or its suspension: the command policy first,
\* then the policy engine; an allowed operation must still be in bounds; all
\* that is neither allowed nor denied is asked ("allow_session" too); when
\* the host's callback throws, the bridge catches what the await rethrows.
Evaluate(c, op, origin, presents) ==
    LET x == [calls[c] EXCEPT !.op = op, !.origin = origin]
        ctx  == Context(x)
        rule == Rule(ctx)
        decision == DecisionOf(rule, ctx)
    IN
    /\ calls[c].pc = "idle"
    /\ \/ /\ Profile[op].blocked \/ decision \in Denying
          /\ calls' = [calls EXCEPT ![c] = Denied]
          /\ UNCHANGED approvalVars
       \/ /\ ~Profile[op].blocked /\ decision = "allow"
          /\ \E g \in IF rule = "grant" THEN {h.id : h \in GrantsFor(ctx)}
                                        ELSE {"none"} :
               calls' = [calls EXCEPT ![c] = Answer(x, rule, g)]
          /\ UNCHANGED approvalVars
       \/ /\ ~Profile[op].blocked /\ decision \in {"ask", "allow_session"}
          /\ calls' = [calls EXCEPT ![c] =
                         IF presents THEN [x EXCEPT !.pc = "asking"] ELSE Denied]
          /\ RequestApproval(c, presents)
    /\ UNCHANGED policyVars

\* The id is derived from the approval's; scopes the pipeline does not know
\* count as single_execution.
GrantTo(c) ==
    LET x == calls[c] IN
    [id |-> c, action |-> Profile[x.op].action, print |-> Profile[x.op].print,
     scope |-> promise[c].scope, session |-> x.origin.session, task |-> x.origin.task]

\* Faulty: the boundaries are checked on the allow path only.
ApprovalSettled_Unbounded(c) ==
    LET x == calls[c] IN
    /\ x.pc = "asking"
    /\ Answered(c)
    /\ IF promise[c].status = "approved"
       THEN /\ grants' = grants \cup {GrantTo(c)}
            /\ calls' = [calls EXCEPT ![c] = [Answer(x, "user", "none") EXCEPT !.approved = TRUE]]
       ELSE /\ calls' = [calls EXCEPT ![c] = Denied]
            /\ UNCHANGED grants
    /\ UNCHANGED <<approvalVars, policies, autoApprove>>

\* The awaited approval settles: an approval is recorded as a grant, and the
\* boundaries are checked again.
ApprovalSettled(c) ==
    LET x == calls[c] IN
    /\ x.pc = "asking"
    /\ Answered(c)
    /\ IF promise[c].status = "approved"
       THEN /\ grants' = grants \cup {GrantTo(c)}
            /\ calls' = [calls EXCEPT ![c] = Answer(x, "user", "none")]
       ELSE /\ calls' = [calls EXCEPT ![c] = Denied]
            /\ UNCHANGED grants
    /\ UNCHANGED <<approvalVars, policies, autoApprove>>

-----------------------------------------------------------------------------
Evaluates(c) ==
    \E op \in Ops, origin \in Origins, presents \in BOOLEAN :
        Evaluate(c, op, origin, presents)

\* The host resolves requests, and disposes the pipeline.
Answers(c) ==
    \/ \E scope \in Scopes : Approve(c, scope)
    \/ Reject(c, "single_execution")
    \/ CancelApproval(c)

Hosting ==
    /\ \/ \E c \in Calls : Answers(c) \/ Expire(c)
       \/ Cleanup
       \/ DisposeApprovals
    /\ UNCHANGED <<policyVars, calls>>

Configuring ==
    /\ \/ \E p \in PolicySpecs : AddPolicy(p) \/ RemovePolicy(p.id)
       \/ \E a \in Actions, d \in AutoChoices : SetAutoApprove(a, d)
       \/ \E g \in grants : Revoke(g)
       \/ \E s \in Sessions \ {"none"} : ClearSession(s)
    /\ UNCHANGED <<approvalVars, calls>>

Next ==
    \/ \E c \in Calls : Evaluates(c) \/ ApprovalSettled(c)
    \/ Hosting
    \/ Configuring

Spec == Init /\ [][Next]_vars

(* Fairness.  Timers fire and awaited promises resume; the user need not      *)
(* answer, and nothing else has to happen.                                    *)
Fairness ==
    /\ \A c \in Calls :
         /\ WF_vars(ApprovalSettled(c))
         /\ WF_vars(Expire(c) /\ UNCHANGED <<policyVars, calls>>)
    /\ WF_vars(Cleanup /\ UNCHANGED <<policyVars, calls>>)

FairSpec == Spec /\ Fairness

-----------------------------------------------------------------------------
(* Properties.                                                                *)

\* An approved call can be accounted for.  A grant that allowed it came from
\* an approval the user gave to a call with the same fingerprint, and in the
\* same session (and task) when given for the session (task); a call whose
\* operation has no scope is never allowed by a grant, a critical one never by
\* the auto-approval table (policy-engine.ts: findActiveScopedPermission).
ApprovalIsJustified ==
    \A c \in Calls : calls[c].approved =>
        LET x == calls[c]
            p == Profile[x.op]
        IN
        /\ x.by \in {"user", "grant", "auto", "allow_policy"}
        /\ x.by = "user" => promise[c].status = "approved"
        /\ x.by = "auto" => ~p.critical
        /\ x.by = "grant" =>
             LET g == x.grantor IN
             /\ p.scoped
             /\ promise[g].status = "approved"
             /\ Profile[calls[g].op].print = p.print
             /\ promise[g].scope \in {"session", "task"}
                  => /\ x.origin.session = calls[g].origin.session
                     /\ x.origin.session # "none"
             /\ promise[g].scope = "task" => x.origin.task = calls[g].origin.task

\* Neither a policy, a grant, the auto-approval table nor the user can approve
\* what the command policy blocks or what leaves the workspace.
NoApprovalPastBoundary ==
    \A c \in Calls : calls[c].approved =>
        ~Profile[calls[c].op].blocked /\ ~Profile[calls[c].op].escapes

\* Every evaluation ends, even if the user never answers and whatever happens
\* to the request it waits for: this is what the executor's await relies on.
EveryEvaluationEnds ==
    \A c \in Calls : calls[c].pc = "asking" ~> calls[c].pc = "done"
=============================================================================
