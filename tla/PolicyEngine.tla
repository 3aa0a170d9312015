---------------------------- MODULE PolicyEngine ----------------------------
(* PermissionPolicyEngine (packages/tool-engine/src/m4/policy-engine.ts):     *)
(* the ordered policies, the auto-approval table and the scoped grants.       *)
(* An operation is known by its fingerprint ("print"), never by its text; the *)
(* engine is enabled, as nothing in the repository calls setEnabled().        *)
EXTENDS Naturals, FiniteSets, SequencesExt

CONSTANTS Actions,      \* permission actions
          PolicySpecs   \* the policies a host may add:
                        \* [id, actions (empty: all), decision, priority, enabled]

ASSUME PolicySpecsType ==
    \A p \in PolicySpecs : p.priority \in Nat

Decisions == {"allow", "deny", "ask", "allow_session", "deny_session"}

VARIABLES
    policies,     \* this.policies, in order of priority
    autoApprove,  \* this.autoApprove, "unset" for an action without an entry
    grants        \* this.scopedPermissions younger than GRANT_TTL_MS:
                  \* [id, action, print, scope, session, task]

policyVars == <<policies, autoApprove, grants>>

PolicyTypeOK ==
    /\ policies \in Seq(PolicySpecs)
    /\ autoApprove \in [Actions -> Decisions \cup {"unset"}]

\* addPolicy() and updatePolicy(): the policy takes the place of the one with
\* its id, or the last; then a stable sort by descending priority.
Put(s, p) ==
    LET at   == CHOOSE i \in 1..(Len(s) + 1) :
                   \/ i <= Len(s) /\ s[i].id = p.id
                   \/ i = Len(s) + 1 /\ \A j \in DOMAIN s : s[j].id # p.id
        rest == IF at <= Len(s) THEN RemoveAt(s, at) ELSE s
        rank == Cardinality({j \in DOMAIN s \ {at} :
                   \/ s[j].priority > p.priority
                   \/ s[j].priority = p.priority /\ j < at})
    IN InsertAt(rest, rank + 1, p)

AddPolicy(p) ==
    /\ policies' = Put(policies, p)
    /\ UNCHANGED <<autoApprove, grants>>

RemovePolicy(id) ==
    /\ \E i \in DOMAIN policies :
         /\ policies[i].id = id
         /\ policies' = RemoveAt(policies, i)
    /\ UNCHANGED <<autoApprove, grants>>

SetAutoApprove(action, decision) ==
    /\ autoApprove' = [autoApprove EXCEPT ![action] = decision]
    /\ UNCHANGED <<policies, grants>>

\* revokeScopedPermission(), or an hour passes over the grant.
Revoke(g) ==
    /\ grants' = grants \ {g}
    /\ UNCHANGED <<policies, autoApprove>>

ClearSession(session) ==
    /\ grants' = {g \in grants : g.session # session}
    /\ UNCHANGED <<policies, autoApprove>>

-----------------------------------------------------------------------------
(* evaluate() of a context                                                    *)
(* [action, print, scoped, critical, outside, session, task].                 *)

\* The first enabled policy that covers the context and decides one of ds.
Matching(ctx, ds) ==
    {i \in DOMAIN policies :
        /\ policies[i].enabled
        /\ policies[i].actions = {} \/ ctx.action \in policies[i].actions
        /\ policies[i].decision \in ds}

FirstDecision(matching) ==
    policies[CHOOSE i \in matching : \A j \in matching : i <= j].decision

\* A session or a task binds only when both sides name one.
Bound(mine, theirs) == mine # "none" /\ mine = theirs

\* Faulty: a grant is matched by its action alone.
GrantsFor_ByAction(ctx) ==
    {g \in grants :
        /\ ctx.scoped
        /\ g.action = ctx.action
        /\ g.scope \in {"session", "task"} => Bound(g.session, ctx.session)
        /\ g.scope = "task" => Bound(g.task, ctx.task)}

\* findActiveScopedPermission(): the grants that would allow the context.
GrantsFor(ctx) ==
    {g \in grants :
        /\ ctx.scoped
        /\ g.action = ctx.action
        /\ g.print = ctx.print
        /\ g.scope \in {"session", "task"} => Bound(g.session, ctx.session)
        /\ g.scope = "task" => Bound(g.task, ctx.task)}

Denying  == {"deny", "deny_session"}
Allowing == {"allow", "allow_session"}

\* The order in which evaluate() looks for a rule.
Precedence ==
    <<"boundary", "deny_policy", "allow_policy", "grant", "auto",
      "fallback">>

Applies(rule, ctx) ==
    CASE rule = "boundary"     -> ctx.outside
      [] rule = "deny_policy"  -> Matching(ctx, Denying) # {}
      [] rule = "allow_policy" -> Matching(ctx, Allowing) # {}
      [] rule = "grant"        -> GrantsFor(ctx) # {}
      [] rule = "auto"         -> autoApprove[ctx.action] # "unset" /\ ~ctx.critical
      [] rule = "fallback"     -> TRUE

Rule(ctx) ==
    Precedence[CHOOSE i \in DOMAIN Precedence :
                 /\ Applies(Precedence[i], ctx)
                 /\ \A j \in 1..(i - 1) : ~Applies(Precedence[j], ctx)]

DecisionOf(rule, ctx) ==
    CASE rule = "boundary"     -> "deny"
      [] rule = "deny_policy"  -> FirstDecision(Matching(ctx, Denying))
      [] rule = "allow_policy" -> FirstDecision(Matching(ctx, Allowing))
      [] rule = "grant"        -> "allow"
      [] rule = "auto"         -> autoApprove[ctx.action]
      [] OTHER                 -> "ask"
=============================================================================
