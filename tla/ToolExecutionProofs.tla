------------------------ MODULE ToolExecutionProofs ------------------------
(* Proofs about ToolExecution, for every set of calls, every set of tools and *)
(* every retry limit.  They all rest on one inductive invariant, Inv; the last *)
(* part shows that the executor implements ToolContract.                       *)
EXTENDS ToolExecution, TLAPS

\* What is true of one call at every point of execute().
CallInv(x) ==
    /\ x.pc \in InFlight => /\ x.emitted \cap TerminalStatuses = {}
                            /\ x.audit = {}
    /\ x.pc = "returned" => /\ x.emitted \cap TerminalStatuses = {x.status}
                            /\ x.audit = {x.status}
                            /\ x.status \in TerminalStatuses
    /\ x.pc = "thrown" => /\ x.emitted \cap TerminalStatuses = {}
                          /\ x.audit = {}
    /\ x.pc \in Permitted => x.decision \in Granted
    /\ x.pc \in {"idle", "refused"} \cup Unpermitted => x.calls = 0
    /\ x.calls > 0 => x.decision \in Granted
    /\ x.pc \in {"returned", "refused"} /\ x.status = "completed"
         => x.abort = "none" /\ ~x.timedOut
    /\ x.armed => x.pc = "executing"
    /\ x.timedOut => x.abort # "none" /\ x.calls > 0
    /\ x.pc \in {"starting", "executing", "backoff"} /\ x.caller
         => x.abort # "none"
    /\ x.pc = "starting" => x.calls = x.attempt
    /\ x.pc = "loop" => x.calls = x.attempt
    /\ x.pc = "backoff" => x.calls = x.attempt
    /\ x.pc = "executing" => x.calls = x.attempt + 1
    /\ x.pc \in Permitted => x.attempt < MaxAttempts(x)
    /\ x.pc \in {"idle"} \cup Unpermitted => x.attempt = 0
    /\ x.calls <= MaxAttempts(x)

Inv ==
    /\ TypeOK
    /\ EveryCallReachable
    /\ \A e \in Execs : CallInv(exec[e])

-----------------------------------------------------------------------------
(* The helpers on one execution.                                              *)

\* emit() keeps an execution an execution and touches only the emitted set.
LEMMA EmitLemma ==
    ASSUME NEW x \in Execution, NEW type \in Events
    PROVE  /\ Emit(x, type) \in Execution
           /\ type \notin TerminalStatuses =>
                Emit(x, type) = [x EXCEPT !.emitted = @ \cup {type}]
           /\ type \in TerminalStatuses /\ x.emitted \cap TerminalStatuses = {} =>
                Emit(x, type) = [x EXCEPT !.emitted = @ \cup {type}]
<1>1. x = [x EXCEPT !.emitted = @] /\ x.emitted \subseteq Events
  BY DEF Execution
<1>2. [x EXCEPT !.emitted = @ \cup {type}] \in Execution
  BY <1>1 DEF Execution
<1>3. type \in x.emitted => [x EXCEPT !.emitted = @ \cup {type}] = x
  BY <1>1
<1> QED
  BY <1>2, <1>3 DEF Emit

\* Settling an execution that has published nothing closes it with one terminal
\* event and one audit record, both naming the status it ends with.
LEMMA SettleLemma ==
    ASSUME NEW x \in Execution, NEW st \in TerminalStatuses,
           x.emitted \cap TerminalStatuses = {}, x.audit = {}
    PROVE  /\ Settle(x, st) \in Execution
           /\ Settle(x, st) =
                [x EXCEPT !.status = st, !.emitted = @ \cup {st},
                          !.audit = {st}, !.pc = "returned", !.armed = FALSE]
<1> DEFINE y == [x EXCEPT !.status = st]
<1>1. y \in Execution /\ y.emitted = x.emitted /\ y.audit = {} /\ y.status = st
  BY DEF Execution, Statuses
<1>2. st \in Events
  BY DEF Events
<1> DEFINE z == [y EXCEPT !.emitted = @ \cup {st}]
<1>3. Emit(y, st) = z /\ z \in Execution
  BY <1>1, <1>2, EmitLemma
<1>4. z.audit = {} /\ z.status = st
  BY <1>1 DEF Execution
<1>5. AsResult(z) = [z EXCEPT !.audit = {st}, !.pc = "returned", !.armed = FALSE]
  BY <1>4 DEF AsResult
<1>6. Settle(x, st) = AsResult(z)
  BY <1>3 DEF Settle
<1>7. [z EXCEPT !.audit = {st}, !.pc = "returned", !.armed = FALSE] \in Execution
  BY ZenonT(60), <1>3 DEF Execution, Closed, Statuses
<1> QED
  BY <1>5, <1>6, <1>7 DEF Execution

\* Closing a call in flight, in any way a ToolResult is built.
LEMMA CloseLemma ==
    ASSUME NEW x \in Execution, NEW st \in TerminalStatuses,
           x.pc \in InFlight, CallInv(x),
           st = "completed" => x.abort = "none" /\ ~x.timedOut
    PROVE  /\ Settle(x, st) \in Execution
           /\ CallInv(Settle(x, st))
           /\ Settle(x, st).pc = "returned"
<1>1. x.emitted \cap TerminalStatuses = {} /\ x.audit = {}
  BY DEF CallInv
<1> DEFINE y == [x EXCEPT !.status = st, !.emitted = @ \cup {st},
                          !.audit = {st}, !.pc = "returned", !.armed = FALSE]
<1>2. Settle(x, st) = y /\ y \in Execution
  BY <1>1, SettleLemma
<1>3. /\ y.pc = "returned" /\ y.status = st /\ y.audit = {st} /\ ~y.armed
      /\ y.emitted = x.emitted \cup {st} /\ y.calls = x.calls
      /\ y.decision = x.decision /\ y.abort = x.abort
      /\ y.timedOut = x.timedOut /\ y.attempt = x.attempt /\ y.tool = x.tool
      /\ y.caller = x.caller
  BY DEF Execution
<1>4. y.emitted \cap TerminalStatuses = {st}
  BY <1>1, <1>3
<1>5. CallInv(y)
  BY <1>3, <1>4 DEF CallInv, InFlight, Permitted, Unpermitted, MaxAttempts
<1> QED
  BY <1>2, <1>3, <1>5

\* The three ways to close a call without a success.
LEMMA FailLemma ==
    ASSUME NEW x \in Execution, x.pc \in InFlight, CallInv(x),
           NEW y, y \in {Finish(x), Cancelled(x), Denied(x)}
    PROVE  y \in Execution /\ CallInv(y) /\ y.pc \in Closed
<1>1. \E st \in TerminalStatuses \ {"completed"} : y = Settle(x, st)
  BY DEF Finish, Cancelled, Denied, TerminalStatuses
<1> QED
  BY <1>1, CloseLemma DEF Closed

\* An exception out of execute().
LEMMA ThrowLemma ==
    ASSUME NEW x \in Execution, x.pc \in InFlight, CallInv(x)
    PROVE  /\ Throw(x) \in Execution
           /\ CallInv(Throw(x))
           /\ Throw(x).pc \in Closed
<1> DEFINE y == [x EXCEPT !.pc = "thrown", !.armed = FALSE]
<1>1. y \in Execution
  BY DEF Execution, Closed
<1>2. /\ y.pc = "thrown" /\ ~y.armed /\ y.emitted = x.emitted
      /\ y.audit = x.audit /\ y.calls = x.calls /\ y.decision = x.decision
      /\ y.abort = x.abort /\ y.timedOut = x.timedOut
      /\ y.attempt = x.attempt /\ y.tool = x.tool /\ y.caller = x.caller
  BY DEF Execution
<1>3. CallInv(y)
  BY <1>2 DEF CallInv, InFlight, Permitted, Unpermitted, MaxAttempts
<1> QED
  BY <1>1, <1>2, <1>3 DEF Throw, Closed

-----------------------------------------------------------------------------
(* The steps.                                                                 *)

\* What a step of one call has to establish for Inv to hold after it.
LEMMA BecomesLemma ==
    ASSUME Inv, NEW e \in Execs, NEW x \in Execution,
           Becomes(e, x), CallInv(x), x.pc \in InFlight \cup Closed,
           x.pc \in InFlight =>
               IF disposed THEN x.abort # "none" ELSE e \in active,
           disposed' = disposed,
           m4' \in BOOLEAN, enabled' \subseteq Tools,
           policy' \in [Tools -> Decisions],
           approvals' \subseteq Tools, denials' \subseteq Tools
    PROVE  Inv'
<1>1. /\ exec \in [Execs -> Execution] /\ active \subseteq Execs
      /\ disposed \in BOOLEAN
  BY DEF Inv, TypeOK
<1>2. exec' \in [Execs -> Execution] /\ active' \subseteq Execs
  BY <1>1 DEF Becomes
<1>3. TypeOK'
  BY <1>1, <1>2 DEF TypeOK
<1>4. exec'[e] = x /\ \A f \in Execs : f # e => exec'[f] = exec[f]
  BY <1>1 DEF Becomes
<1>5. \A f \in Execs : CallInv(exec[f])'
  <2> TAKE f \in Execs
  <2>1. CallInv(exec'[f])
    BY <1>4 DEF Inv
  <2> QED
    BY <2>1 DEF CallInv, MaxAttempts
<1>6. InFlight \cap Closed = {}
  BY DEF InFlight, Permitted, Unpermitted, Closed
<1>7. EveryCallReachable'
  BY <1>1, <1>4, <1>6 DEF EveryCallReachable, Becomes, Inv
<1> QED
  BY <1>3, <1>5, <1>7 DEF Inv

\* What Inv says of one call, in the form the steps use.
LEMMA CallFacts ==
    ASSUME Inv, NEW e \in Execs
    PROVE  /\ exec[e] \in Execution
           /\ CallInv(exec[e])
           /\ exec[e].pc \in InFlight =>
                 IF disposed THEN exec[e].abort # "none" ELSE e \in active
           /\ e \in active => exec[e].pc \in InFlight
           /\ m4 \in BOOLEAN /\ enabled \subseteq Tools
           /\ policy \in [Tools -> Decisions]
           /\ approvals \subseteq Tools /\ denials \subseteq Tools
  BY DEF Inv, TypeOK, EveryCallReachable

\* The steps that leave the registry and the permissions alone.
LEMMA StepLemma ==
    ASSUME Inv, NEW e \in Execs, NEW x \in Execution,
           Becomes(e, x), CallInv(x), x.pc \in InFlight \cup Closed,
           x.pc \in InFlight =>
               IF disposed THEN x.abort # "none" ELSE e \in active,
           UNCHANGED <<disposed, m4, enabled, permissions>>
    PROVE  Inv'
  BY BecomesLemma, CallFacts DEF permissions

\* A call in flight that only moves on within execute() stays reachable.
LEMMA MoveLemma ==
    ASSUME Inv, NEW e \in Execs, exec[e].pc \in InFlight,
           NEW x \in Execution, Becomes(e, x), CallInv(x),
           x.pc \in InFlight, x.abort = exec[e].abort,
           UNCHANGED <<disposed, m4, enabled, permissions>>
    PROVE  Inv'
  BY StepLemma, CallFacts

\* A call that fails, is cancelled or is denied.
LEMMA FailStepLemma ==
    ASSUME Inv, NEW e \in Execs, NEW x \in Execution, x.pc \in InFlight,
           CallInv(x), NEW y, y \in {Finish(x), Cancelled(x), Denied(x)},
           Becomes(e, y), UNCHANGED <<disposed, m4, enabled, permissions>>
    PROVE  Inv'
<1>1. y \in Execution /\ CallInv(y) /\ y.pc \in Closed
  BY FailLemma
<1>2. y.pc \notin InFlight
  BY <1>1 DEF Closed, InFlight, Permitted, Unpermitted
<1> QED
  BY <1>1, <1>2, StepLemma

\* An execution that has not begun.
LEMMA BlankLemma ==
    ASSUME NEW t \in Tools
    PROVE  /\ Blank(t) \in Execution /\ CallInv(Blank(t))
           /\ Blank(t).pc = "idle"
<1> DEFINE x == Blank(t)
<1>1. /\ x.pc = "idle" /\ x.calls = 0 /\ x.attempt = 0 /\ x.emitted = {}
      /\ x.audit = {} /\ ~x.armed /\ ~x.timedOut /\ x.tool = t
  BY DEF Blank
<1>2. 0 \in 0..MaxRetries /\ 0 \in 0..(1 + MaxRetries)
  BY ToolConstants
<1>3. "requested" \in Statuses
  BY DEF Statuses
<1>4. x \in Execution
  BY <1>2, <1>3 DEF Blank, Execution
<1>5. MaxAttempts(x) \in Nat
  BY ToolConstants DEF MaxAttempts
<1>6. CallInv(x)
  BY <1>1, <1>5 DEF CallInv, InFlight, Permitted, Unpermitted
<1> QED
  BY <1>1, <1>4, <1>6

LEMMA ExecuteInv ==
    ASSUME Inv, NEW e \in Execs, NEW t \in Tools, NEW channel \in BOOLEAN,
           NEW preAborted \in BOOLEAN, Execute(e, t, channel, preAborted)
    PROVE  Inv'
<1> DEFINE x == [Blank(t) EXCEPT !.channel = channel, !.caller = preAborted]
           r == [x EXCEPT !.pc = "refused", !.status = "failed"]
           o == [x EXCEPT !.pc = "requested"]
           a == [o EXCEPT !.emitted = @ \cup {"requested"}]
<1>0. x \in Execution /\ CallInv(x) /\ x.calls = 0 /\ x.attempt = 0
      /\ x.emitted = {} /\ x.audit = {} /\ ~x.armed /\ ~x.timedOut
  BY ZenonT(60), BlankLemma DEF Execution, CallInv, MaxAttempts, Blank
<1>1. r \in Execution /\ r.pc = "refused" /\ CallInv(r)
  <2>1. r \in Execution
    BY <1>0 DEF Execution, Closed, Statuses, TerminalStatuses
  <2>2. /\ r.pc = "refused" /\ r.calls = 0 /\ r.status = "failed" /\ ~r.armed
        /\ ~r.timedOut /\ r.tool = x.tool /\ r.caller = x.caller
    BY <1>0 DEF Execution
  <2> QED
    BY <2>1, <2>2, ToolConstants DEF CallInv, InFlight, Permitted,
       Unpermitted, MaxAttempts
<1>2. o \in Execution /\ o.emitted = {}
  BY <1>0 DEF Execution, InFlight, Unpermitted
<1>3. a \in Execution /\ a.pc = "requested" /\ CallInv(a)
  <2>1. a \in Execution
    BY <1>2 DEF Execution, Events
  <2>2. /\ a.pc = "requested" /\ a.calls = 0 /\ a.attempt = 0
        /\ a.emitted = {"requested"} /\ a.audit = {} /\ ~a.armed /\ ~a.timedOut
        /\ a.tool = x.tool /\ a.caller = x.caller
    BY <1>0 DEF Execution
  <2> QED
    BY <2>1, <2>2, ToolConstants DEF CallInv, InFlight, Permitted,
       Unpermitted, MaxAttempts, TerminalStatuses
<1>4. Emit(o, "requested") = a
  BY <1>2, EmitLemma DEF Events, TerminalStatuses
<1>5. CASE disposed
  <2>1. e \notin active
    BY <1>5, CallFacts DEF Inv, EveryCallReachable
  <2>2. Becomes(e, r)
    BY <1>5, <2>1 DEF Execute, Becomes, Closed, Blank
  <2> QED
    BY <1>1, <2>2, StepLemma DEF Execute, Closed, InFlight, Permitted, Unpermitted
<1>6. CASE ~disposed
  <2>1. exec' = [exec EXCEPT ![e] = a] /\ active' = active \cup {e}
    BY <1>4, <1>6 DEF Execute
  <2>2. exec'[e] = a /\ \A f \in Execs : f # e => exec'[f] = exec[f]
    BY <2>1 DEF Inv, TypeOK
  <2>3. UNCHANGED <<disposed, m4, enabled, policy, approvals, denials>>
    BY DEF Execute, permissions
  <2>4. TypeOK'
    BY <1>3, <2>1, <2>3 DEF Inv, TypeOK
  <2>5. \A f \in Execs : CallInv(exec[f])'
    <3> TAKE f \in Execs
    <3>1. CallInv(exec'[f])
      BY <1>3, <2>2 DEF Inv
    <3> QED
      BY <3>1 DEF CallInv, MaxAttempts
  <2>6. EveryCallReachable'
    BY <1>3, <1>6, <2>1, <2>2, <2>3 DEF Inv, EveryCallReachable, InFlight, Unpermitted
  <2> QED
    BY <2>4, <2>5, <2>6 DEF Inv
<1> QED
  BY <1>5, <1>6

LEMMA ResolveInv ==
    ASSUME Inv, NEW e \in Execs, Resolve(e)
    PROVE  Inv'
<1> DEFINE x == exec[e]
           v == [x EXCEPT !.status = "validating"]
           w == [x EXCEPT !.pc = "validating", !.status = "validating"]
<1>1. x \in Execution /\ CallInv(x) /\ x.pc = "requested" /\ x.pc \in InFlight
  BY CallFacts DEF Resolve, InFlight, Unpermitted
<1>2. v \in Execution /\ v.pc \in InFlight /\ CallInv(v)
  BY <1>1 DEF Execution, Statuses, CallInv, InFlight, Permitted, Unpermitted,
              MaxAttempts
<1>3. /\ w \in Execution /\ w.pc \in InFlight /\ CallInv(w)
      /\ w.abort = x.abort
  BY <1>1 DEF Execution, Statuses, CallInv, InFlight, Permitted, Unpermitted,
              MaxAttempts
<1>4. CASE x.tool \notin enabled
  BY <1>1, <1>4, FailStepLemma DEF Resolve
<1>5. CASE x.tool \in enabled /\ x.caller
  <2>1. Becomes(e, Cancelled(v))
    BY <1>5 DEF Resolve
  <2> QED
    BY <1>2, <2>1, FailStepLemma DEF Resolve
<1>6. CASE x.tool \in enabled /\ ~x.caller
  <2>1. Becomes(e, w)
    BY <1>6 DEF Resolve
  <2> QED
    BY <1>1, <1>3, <2>1, MoveLemma DEF Resolve
<1> QED
  BY <1>4, <1>5, <1>6

LEMMA InputRejectedInv ==
    ASSUME Inv, NEW e \in Execs, InputRejected(e)
    PROVE  Inv'
<1>1. exec[e] \in Execution /\ CallInv(exec[e]) /\ exec[e].pc \in InFlight
  BY CallFacts DEF InputRejected, InFlight, Unpermitted
<1> QED
  BY <1>1, FailStepLemma DEF InputRejected

\* The M3 decision closes the call as denied, or lets it go on or wait.
LEMMA DecideM3Lemma ==
    ASSUME Inv, NEW x \in Execution, x.pc = "validating", CallInv(x)
    PROVE  \/ \E y \in Execution : /\ y.pc \in InFlight /\ CallInv(y)
                                   /\ DecideM3(x) = Denied(y)
           \/ /\ DecideM3(x) \in Execution
              /\ DecideM3(x).pc \in InFlight
              /\ DecideM3(x).abort = x.abort
              /\ CallInv(DecideM3(x))
<1> DEFINE d == Decide(x.tool)
           y == [x EXCEPT !.decision = d]
           l == [y EXCEPT !.pc = "loop"]
           u == [y EXCEPT !.status = "awaiting_approval"]
           z == [u EXCEPT !.emitted = @ \cup {"permission_required"}]
           w == [z EXCEPT !.pc = "awaiting"]
<1>1. d \in Decisions
  BY CallFacts DEF Decide, Decisions, Execution, Inv, TypeOK
<1>2. y \in Execution /\ y.decision = d /\ y.pc \in InFlight /\ CallInv(y)
  BY <1>1 DEF Execution, CallInv, InFlight, Permitted, Unpermitted, MaxAttempts
<1>3. CASE d = "deny"
  BY <1>2, <1>3 DEF DecideM3
<1>4. CASE d = "allow"
  <2>1. l \in Execution /\ l.pc = "loop"
    BY <1>2 DEF Execution, InFlight, Permitted
  <2>2. /\ l.abort = x.abort /\ l.decision = "allow" /\ l.calls = y.calls
        /\ l.attempt = y.attempt /\ l.emitted = y.emitted /\ l.audit = y.audit
        /\ l.armed = y.armed /\ l.timedOut = y.timedOut /\ l.tool = y.tool
        /\ l.caller = y.caller
        /\ y.pc = "validating" /\ y.abort = x.abort
    BY <1>2, <1>4 DEF Execution
  <2>3. y.calls = 0 /\ y.attempt = 0 /\ MaxAttempts(l) \in Nat \ {0}
    BY <1>2, <2>2, ToolConstants DEF CallInv, Unpermitted, MaxAttempts
  <2>4. CallInv(l)
    BY <1>2, <2>1, <2>2, <2>3 DEF CallInv, InFlight, Permitted, Unpermitted,
       Granted
  <2>5. DecideM3(x) = l
    BY <1>2, <1>4 DEF DecideM3
  <2> QED
    BY <2>1, <2>2, <2>4, <2>5 DEF InFlight, Permitted
<1>5. CASE d \notin {"deny", "allow"}
  <2>1. u \in Execution /\ u.pc = "validating"
    BY <1>2 DEF Execution, Statuses
  <2>2. Emit(u, "permission_required") = z
    BY <2>1, EmitLemma DEF Events, TerminalStatuses
  <2>3. z \in Execution /\ z.pc = "validating" /\ CallInv(z) /\ z.abort = x.abort
    <3>1. z \in Execution
      BY <2>1 DEF Execution, Events
    <3>2. /\ z.pc = "validating" /\ z.calls = y.calls /\ z.decision = y.decision
          /\ z.attempt = y.attempt /\ z.audit = y.audit /\ z.armed = y.armed
          /\ z.timedOut = y.timedOut /\ z.tool = y.tool
          /\ z.caller = y.caller /\ z.abort = y.abort
          /\ z.emitted = y.emitted \cup {"permission_required"}
          /\ y.abort = x.abort /\ y.pc = "validating"
      BY <1>2, <2>1 DEF Execution
    <3>3. z.emitted \cap TerminalStatuses = y.emitted \cap TerminalStatuses
      BY <3>2 DEF TerminalStatuses
    <3> QED
      BY <1>2, <3>1, <3>2, <3>3 DEF CallInv, InFlight, Permitted, Unpermitted,
         MaxAttempts
  <2>4. w \in Execution /\ w.pc = "awaiting" /\ CallInv(w) /\ w.abort = x.abort
    BY <2>3 DEF Execution, CallInv, InFlight, Permitted, Unpermitted, MaxAttempts
  <2>5. DecideM3(x) = IF z.channel THEN w ELSE Denied(z)
    BY <1>2, <1>5, <2>2 DEF DecideM3
  <2> QED
    BY <2>3, <2>4, <2>5 DEF InFlight, Unpermitted
<1> QED
  BY <1>3, <1>4, <1>5

LEMMA PermissionCheckInv ==
    ASSUME Inv, NEW e \in Execs, PermissionCheck(e)
    PROVE  Inv'
<1> DEFINE x == [exec[e] EXCEPT !.status = "permission_check"]
           q == [x EXCEPT !.pc = "m4"]
<1>1. /\ exec[e] \in Execution /\ CallInv(exec[e])
      /\ exec[e].pc = "validating" /\ exec[e].pc \in InFlight
  BY CallFacts DEF PermissionCheck, InFlight, Unpermitted, Execution
<1>2. /\ x \in Execution /\ x.pc = "validating" /\ x.pc \in InFlight
      /\ CallInv(x) /\ x.abort = exec[e].abort
  BY <1>1 DEF Execution, Statuses, CallInv, InFlight, Permitted, Unpermitted,
     MaxAttempts
<1>3. /\ q \in Execution /\ q.pc \in InFlight /\ CallInv(q)
      /\ q.abort = exec[e].abort
  BY <1>2 DEF Execution, CallInv, InFlight, Permitted, Unpermitted, MaxAttempts
<1>4. UNCHANGED <<disposed, m4, enabled, permissions>>
  BY DEF PermissionCheck
<1>5. CASE x.caller
  BY <1>2, <1>5, FailStepLemma DEF PermissionCheck
<1>6. CASE ~x.caller /\ m4
  <2>1. Becomes(e, q)
    BY <1>6 DEF PermissionCheck
  <2> QED
    BY <1>1, <1>3, <1>4, <2>1, MoveLemma
<1>7. CASE ~x.caller /\ ~m4
  <2>1. Becomes(e, DecideM3(x))
    BY <1>7 DEF PermissionCheck
  <2> QED
    BY <1>1, <1>2, <1>4, <2>1, DecideM3Lemma, FailStepLemma, MoveLemma
<1> QED
  BY <1>5, <1>6, <1>7

LEMMA M4AllowsInv ==
    ASSUME Inv, NEW e \in Execs, M4Allows(e)
    PROVE  Inv'
<1> DEFINE x == exec[e]
           y == [x EXCEPT !.decision = "allow", !.pc = "loop"]
           z == [y EXCEPT !.emitted = @ \cup {"permission_granted"}]
<1>1. x \in Execution /\ CallInv(x) /\ x.pc = "m4" /\ x.pc \in InFlight
  BY CallFacts DEF M4Allows, InFlight, Unpermitted
<1>2. y \in Execution
  BY <1>1 DEF Execution, InFlight, Permitted, Granted
<1>3. Emit(y, "permission_granted") = z /\ z \in Execution
  BY <1>2, EmitLemma DEF Events, TerminalStatuses
<1>4. /\ z.pc = "loop" /\ z.calls = x.calls /\ z.decision = "allow"
      /\ z.attempt = x.attempt /\ z.audit = x.audit /\ z.armed = x.armed
      /\ z.timedOut = x.timedOut /\ z.tool = x.tool
      /\ z.caller = x.caller /\ z.abort = x.abort
      /\ z.emitted = x.emitted \cup {"permission_granted"}
  BY <1>1 DEF Execution
<1>5. z.emitted \cap TerminalStatuses = x.emitted \cap TerminalStatuses
  BY <1>4 DEF TerminalStatuses
<1>6. x.calls = 0 /\ x.attempt = 0 /\ MaxAttempts(z) \in Nat \ {0}
  BY <1>1, ToolConstants DEF CallInv, Unpermitted, MaxAttempts
<1>7. CallInv(z)
  BY <1>1, <1>4, <1>5, <1>6 DEF CallInv, InFlight, Permitted, Unpermitted, Granted
<1>8. Becomes(e, z) /\ UNCHANGED <<disposed, m4, enabled, permissions>>
  BY <1>3 DEF M4Allows
<1> QED
  BY <1>1, <1>3, <1>4, <1>7, <1>8, MoveLemma DEF InFlight, Permitted

LEMMA M4DeniesInv ==
    ASSUME Inv, NEW e \in Execs, M4Denies(e)
    PROVE  Inv'
<1> DEFINE y == [exec[e] EXCEPT !.decision = "deny"]
<1>1. exec[e] \in Execution /\ CallInv(exec[e]) /\ exec[e].pc = "m4"
  BY CallFacts DEF M4Denies, InFlight, Unpermitted
<1>2. y \in Execution /\ y.pc \in InFlight /\ CallInv(y)
  BY <1>1 DEF Execution, CallInv, InFlight, Permitted, Unpermitted, MaxAttempts
<1> QED
  BY <1>2, FailStepLemma DEF M4Denies

LEMMA ApprovalAnsweredInv ==
    ASSUME Inv, NEW e \in Execs, NEW approved \in BOOLEAN,
           NEW scope \in {"once", "session"},
           ApprovalAnswered(e, approved, scope)
    PROVE  Inv'
<1> DEFINE x == exec[e]
           session == IF scope = "session" THEN {x.tool} ELSE {}
           d == IF scope = "session" THEN "approved_session" ELSE "approved_once"
           y == [x EXCEPT !.pc = "loop", !.decision = d]
<1>1. x \in Execution /\ CallInv(x) /\ x.pc = "awaiting" /\ x.pc \in InFlight
  BY CallFacts DEF ApprovalAnswered, InFlight, Unpermitted
<1>2. session \subseteq Tools
  BY <1>1 DEF Execution
<1>3. CASE Aborted(x)
  BY <1>1, <1>3, FailStepLemma DEF ApprovalAnswered
<1>4. CASE ~Aborted(x) /\ approved
  <2>1. y \in Execution
    BY <1>1 DEF Execution, InFlight, Permitted, Granted
  <2>2. /\ y.pc = "loop" /\ y.calls = x.calls /\ y.decision \in Granted
        /\ y.attempt = x.attempt /\ y.audit = x.audit /\ y.armed = x.armed
        /\ y.timedOut = x.timedOut /\ y.tool = x.tool
        /\ y.caller = x.caller /\ y.abort = x.abort
        /\ y.emitted = x.emitted
    BY <1>1 DEF Execution, Granted
  <2>3. x.calls = 0 /\ x.attempt = 0 /\ MaxAttempts(y) \in Nat \ {0}
    BY <1>1, ToolConstants DEF CallInv, Unpermitted, MaxAttempts
  <2>4. CallInv(y)
    BY <1>1, <2>2, <2>3 DEF CallInv, InFlight, Permitted, Unpermitted
  <2>5. /\ Becomes(e, y) /\ approvals' = approvals \cup session
        /\ UNCHANGED <<disposed, m4, enabled, policy, denials>>
    BY <1>4 DEF ApprovalAnswered
  <2>6. y.pc \in InFlight
    BY <2>2 DEF InFlight, Permitted
  <2> QED
    BY <1>1, <1>2, <2>1, <2>2, <2>4, <2>5, <2>6, BecomesLemma, CallFacts
<1>5. CASE ~Aborted(x) /\ ~approved
  <2>1. /\ Denied(x) \in Execution /\ CallInv(Denied(x))
        /\ Denied(x).pc \in Closed /\ Denied(x).pc \notin InFlight
    BY <1>1, FailLemma DEF Closed, InFlight, Permitted, Unpermitted
  <2>2. /\ Becomes(e, Denied(x)) /\ denials' = denials \cup session
        /\ UNCHANGED <<disposed, m4, enabled, policy, approvals>>
    BY <1>5 DEF ApprovalAnswered
  <2> QED
    BY <1>2, <2>1, <2>2, BecomesLemma, CallFacts
<1> QED
  BY <1>3, <1>4, <1>5

LEMMA PermissionThrowsInv ==
    ASSUME Inv, NEW e \in Execs, PermissionThrows(e)
    PROVE  Inv'
<1>1. exec[e] \in Execution /\ CallInv(exec[e]) /\ exec[e].pc \in InFlight
  BY CallFacts DEF PermissionThrows, InFlight, Unpermitted
<1>2. Throw(exec[e]).pc \notin InFlight
  BY <1>1, ThrowLemma DEF Closed, InFlight, Permitted, Unpermitted
<1> QED
  BY <1>1, <1>2, ThrowLemma, StepLemma DEF PermissionThrows

\* Starting an attempt, from the head of the loop or from a backoff.
LEMMA StartLemma ==
    ASSUME NEW x \in Execution, CallInv(x), x.pc \in {"loop", "backoff"},
           x.caller => x.abort # "none"
    PROVE  LET y == Emit([x EXCEPT !.pc = "starting", !.status = "running"],
                         "started")
           IN  y \in Execution /\ y.pc \in InFlight /\ y.abort = x.abort /\ CallInv(y)
<1> DEFINE u == [x EXCEPT !.pc = "starting", !.status = "running"]
           y == [u EXCEPT !.emitted = @ \cup {"started"}]
<1>1. u \in Execution
  BY DEF Execution, InFlight, Permitted, Statuses
<1>2. Emit(u, "started") = y /\ y \in Execution
  BY <1>1, EmitLemma DEF Events, TerminalStatuses
<1>3. /\ y.pc = "starting" /\ y.calls = x.calls /\ y.decision = x.decision
      /\ y.attempt = x.attempt /\ y.audit = x.audit /\ y.armed = x.armed
      /\ y.timedOut = x.timedOut /\ y.tool = x.tool
      /\ y.caller = x.caller /\ y.abort = x.abort
      /\ y.emitted = x.emitted \cup {"started"}
  BY DEF Execution
<1>4. y.emitted \cap TerminalStatuses = x.emitted \cap TerminalStatuses
  BY <1>3 DEF TerminalStatuses
<1>5. CallInv(y)
  BY <1>3, <1>4 DEF CallInv, InFlight, Permitted, Unpermitted, MaxAttempts
<1> QED
  BY <1>2, <1>3, <1>5 DEF InFlight, Permitted

LEMMA LoopHeadInv ==
    ASSUME Inv, NEW e \in Execs, LoopHead(e)
    PROVE  Inv'
<1> DEFINE x == exec[e]
           b == [x EXCEPT !.pc = "backoff"]
<1>1. x \in Execution /\ CallInv(x) /\ x.pc = "loop" /\ x.pc \in InFlight
  BY CallFacts DEF LoopHead, InFlight, Permitted
<1>2. /\ b \in Execution /\ b.pc \in InFlight /\ b.abort = x.abort
      /\ (~Aborted(x) => CallInv(b))
  BY <1>1 DEF Execution, CallInv, InFlight, Permitted, Unpermitted, MaxAttempts,
     Aborted
<1>3. UNCHANGED <<disposed, m4, enabled, permissions>>
  BY DEF LoopHead
<1>4. CASE Aborted(x)
  BY <1>1, <1>4, FailStepLemma DEF LoopHead
<1>5. CASE ~Aborted(x) /\ x.attempt > 0
  <2>1. Becomes(e, b) /\ CallInv(b)
    BY <1>2, <1>5 DEF LoopHead, Aborted
  <2> QED
    BY <1>1, <1>2, <1>3, <2>1, MoveLemma
<1>6. CASE ~Aborted(x) /\ ~(x.attempt > 0)
  BY <1>1, <1>3, <1>6, StartLemma, MoveLemma DEF LoopHead, Aborted
<1> QED
  BY <1>4, <1>5, <1>6

LEMMA BackoffEndsInv ==
    ASSUME Inv, NEW e \in Execs, BackoffEnds(e)
    PROVE  Inv'
<1>1. exec[e] \in Execution /\ CallInv(exec[e]) /\ exec[e].pc = "backoff"
      /\ exec[e].pc \in InFlight
  BY CallFacts DEF BackoffEnds, InFlight, Permitted
<1>2. CASE exec[e].abort # "none"
  BY <1>1, <1>2, FailStepLemma DEF BackoffEnds
<1>3. CASE exec[e].abort = "none"
  <2>1. exec[e].caller => exec[e].abort # "none"
    BY <1>1 DEF CallInv
  <2> QED
    BY <1>1, <1>3, <2>1, StartLemma, MoveLemma DEF BackoffEnds
<1> QED
  BY <1>2, <1>3

LEMMA CallToolInv ==
    ASSUME Inv, NEW e \in Execs, CallTool(e)
    PROVE  Inv'
<1> DEFINE x == exec[e]
           y == [x EXCEPT !.pc = "executing", !.armed = TRUE, !.calls = @ + 1]
<1>1. x \in Execution /\ CallInv(x) /\ x.pc = "starting" /\ x.pc \in InFlight
  BY CallFacts DEF CallTool, InFlight, Permitted
<1>2. /\ x.calls = x.attempt /\ x.attempt < MaxAttempts(x)
      /\ x.calls + 1 \in 0..(1 + MaxRetries)
  BY <1>1, ToolConstants DEF CallInv, Execution, Permitted, MaxAttempts
<1>3. y \in Execution
  BY <1>1, <1>2 DEF Execution, InFlight, Permitted
<1>4. /\ y.pc = "executing" /\ y.calls = x.calls + 1 /\ y.decision = x.decision
      /\ y.attempt = x.attempt /\ y.audit = x.audit /\ y.armed
      /\ y.timedOut = x.timedOut /\ y.tool = x.tool
      /\ y.caller = x.caller /\ y.abort = x.abort
      /\ y.emitted = x.emitted
  BY <1>1 DEF Execution
<1>5. MaxAttempts(x) \in Nat /\ MaxAttempts(y) = MaxAttempts(x)
      /\ x.attempt \in Nat
  BY <1>1, <1>4, ToolConstants DEF MaxAttempts, Execution
<1>6. CallInv(y)
  BY <1>1, <1>2, <1>4, <1>5 DEF CallInv, InFlight, Permitted, Unpermitted
<1>7. y.pc \in InFlight
  BY <1>4 DEF InFlight, Permitted
<1> QED
  BY <1>1, <1>3, <1>4, <1>6, <1>7, MoveLemma DEF CallTool

LEMMA ReportProgressInv ==
    ASSUME Inv, NEW e \in Execs, ReportProgress(e)
    PROVE  Inv'
<1> DEFINE x == exec[e]
           y == [x EXCEPT !.emitted = @ \cup {"progress"}]
<1>1. x \in Execution /\ CallInv(x) /\ x.calls > 0
  BY CallFacts DEF ReportProgress
<1>2. x.pc \in Permitted \cup {"returned", "thrown"}
  BY <1>1 DEF CallInv, Execution, InFlight, Closed
<1>3. Emit(x, "progress") = y /\ y \in Execution
  BY <1>1, EmitLemma DEF Events, TerminalStatuses
<1>4. /\ y.pc = x.pc /\ y.calls = x.calls /\ y.decision = x.decision
      /\ y.attempt = x.attempt /\ y.audit = x.audit /\ y.armed = x.armed
      /\ y.timedOut = x.timedOut /\ y.tool = x.tool
      /\ y.caller = x.caller /\ y.abort = x.abort
      /\ y.status = x.status /\ y.emitted = x.emitted \cup {"progress"}
  BY <1>1 DEF Execution
<1>5. y.emitted \cap TerminalStatuses = x.emitted \cap TerminalStatuses
  BY <1>4 DEF TerminalStatuses
<1>6. CallInv(y)
  BY <1>1, <1>4, <1>5 DEF CallInv, MaxAttempts
<1>7. Becomes(e, y) /\ UNCHANGED <<disposed, m4, enabled, permissions>>
  BY <1>3 DEF ReportProgress
<1>8. y.pc \in InFlight \cup Closed
  BY <1>2, <1>4 DEF InFlight, Closed
<1> QED
  BY <1>3, <1>4, <1>6, <1>7, <1>8, StepLemma, CallFacts

\* The timer of a call whose tool has settled is disarmed.
LEMMA DisarmLemma ==
    ASSUME NEW x \in Execution, CallInv(x), x.pc = "executing"
    PROVE  LET y == [x EXCEPT !.armed = FALSE]
           IN  /\ y \in Execution /\ CallInv(y) /\ y.pc = "executing"
               /\ y.pc \in InFlight /\ y.abort = x.abort
  BY DEF Execution, CallInv, InFlight, Permitted, Unpermitted, MaxAttempts

LEMMA ToolReturnsInv ==
    ASSUME Inv, NEW e \in Execs, ToolReturns(e)
    PROVE  Inv'
<1> DEFINE x == [exec[e] EXCEPT !.armed = FALSE]
           c == Settle(x, "completed")
<1>1. exec[e] \in Execution /\ CallInv(exec[e]) /\ exec[e].pc = "executing"
  BY CallFacts DEF ToolReturns, Execution
<1>2. x \in Execution /\ CallInv(x) /\ x.pc \in InFlight
  BY <1>1, DisarmLemma
<1>3. UNCHANGED <<disposed, m4, enabled, permissions>>
  BY DEF ToolReturns
<1>4. CASE x.timedOut \/ x.abort # "none"
  BY <1>2, <1>4, FailStepLemma DEF ToolReturns
<1>5. CASE ~x.timedOut /\ x.abort = "none"
  <2>1. c \in Execution /\ CallInv(c) /\ c.pc = "returned"
    BY <1>2, <1>5, CloseLemma DEF TerminalStatuses
  <2>2. Becomes(e, c)
    BY <1>5 DEF ToolReturns
  <2> QED
    BY <1>3, <2>1, <2>2, StepLemma DEF Closed, InFlight, Permitted, Unpermitted
<1> QED
  BY <1>4, <1>5

LEMMA ToolThrowsInv ==
    ASSUME Inv, NEW e \in Execs, NEW err \in Errors, ToolThrows(e, err)
    PROVE  Inv'
<1> DEFINE x == [exec[e] EXCEPT !.armed = FALSE]
           r == [x EXCEPT !.pc = "loop", !.attempt = @ + 1]
           cancels == ErrorCancelled(x, err) \/ x.caller
           retries == x.attempt + 1 < MaxAttempts(x) /\ ErrorRetryable(x, err)
<1>1. exec[e] \in Execution /\ CallInv(exec[e]) /\ exec[e].pc = "executing"
      /\ exec[e].pc \in InFlight
  BY CallFacts DEF ToolThrows, Execution, InFlight, Permitted
<1>2. /\ x \in Execution /\ CallInv(x) /\ x.pc = "executing"
      /\ x.pc \in InFlight /\ x.abort = exec[e].abort
  BY <1>1, DisarmLemma
<1>3. UNCHANGED <<disposed, m4, enabled, permissions>>
  BY DEF ToolThrows
<1>4. CASE cancels
  BY <1>2, <1>4, FailStepLemma DEF ToolThrows
<1>5. CASE ~cancels /\ retries
  <2>1. /\ x.attempt + 1 \in 0..MaxRetries /\ MaxAttempts(x) \in Nat
        /\ x.attempt \in Nat
    BY <1>2, <1>5, ToolConstants DEF MaxAttempts, Execution
  <2>2. r \in Execution
    BY <1>2, <2>1 DEF Execution, InFlight, Permitted
  <2>3. /\ r.pc = "loop" /\ r.calls = x.calls /\ r.decision = x.decision
        /\ r.attempt = x.attempt + 1 /\ r.audit = x.audit /\ r.armed = x.armed
        /\ r.timedOut = x.timedOut /\ r.tool = x.tool
        /\ r.caller = x.caller /\ r.abort = x.abort
        /\ r.emitted = x.emitted /\ ~r.armed
    BY <1>1, <1>2 DEF Execution
  <2>4. MaxAttempts(r) = MaxAttempts(x)
    BY <2>3 DEF MaxAttempts
  <2>5. CallInv(r)
    BY <1>2, <1>5, <2>1, <2>3, <2>4 DEF CallInv, InFlight, Permitted, Unpermitted
  <2>6. Becomes(e, r) /\ r.pc \in InFlight
    BY <1>5, <2>3 DEF ToolThrows, InFlight, Permitted
  <2> QED
    BY <1>1, <1>2, <1>3, <2>2, <2>3, <2>5, <2>6, MoveLemma
<1>6. CASE ~cancels /\ ~retries
  BY <1>2, <1>6, FailStepLemma DEF ToolThrows
<1> QED
  BY <1>4, <1>5, <1>6

\* Aborting a call in flight leaves everything but the abort reason alone.
LEMMA AbortLemma ==
    ASSUME NEW x \in Execution, CallInv(x), x.pc \in InFlight,
           NEW why \in {"caller", "cancel", "timeout", "dispose"}
    PROVE  /\ Abort(x, why) \in Execution /\ CallInv(Abort(x, why))
           /\ Abort(x, why).pc = x.pc /\ Abort(x, why).abort # "none"
<1> DEFINE y == [x EXCEPT !.abort = why]
<1>1. /\ y \in Execution /\ y.pc = x.pc /\ y.calls = x.calls
      /\ y.decision = x.decision /\ y.attempt = x.attempt /\ y.audit = x.audit
      /\ y.armed = x.armed /\ y.timedOut = x.timedOut /\ y.tool = x.tool
      /\ y.caller = x.caller
      /\ y.emitted = x.emitted /\ y.status = x.status /\ y.abort # "none"
  BY DEF Execution
<1>2. CallInv(y)
  BY <1>1 DEF CallInv, InFlight, Permitted, Unpermitted, MaxAttempts
<1> QED
  BY <1>1, <1>2 DEF Abort

\* The step of a call that is aborted.
LEMMA AbortStepLemma ==
    ASSUME Inv, NEW e \in Execs, NEW x \in Execution, x.pc = exec[e].pc,
           x.pc \in InFlight, CallInv(x),
           NEW why \in {"caller", "cancel", "timeout", "dispose"},
           Becomes(e, Abort(x, why)),
           UNCHANGED <<disposed, m4, enabled, permissions>>
    PROVE  Inv'
  BY AbortLemma, StepLemma, CallFacts

LEMMA TimerFiresInv ==
    ASSUME Inv, NEW e \in Execs, TimerFires(e)
    PROVE  Inv'
<1> DEFINE x == exec[e]
           y == [x EXCEPT !.armed = FALSE, !.timedOut = TRUE]
           z == [x EXCEPT !.armed = FALSE, !.timedOut = TRUE, !.abort = "timeout"]
           a == Abort(y, "timeout")
<1>1. x \in Execution /\ CallInv(x) /\ x.armed
  BY CallFacts DEF TimerFires
<1>2. x.pc = "executing" /\ x.pc \in InFlight
  BY <1>1 DEF CallInv, InFlight, Permitted
<1>3. a = IF x.abort = "none" THEN z ELSE y
  BY <1>1 DEF Abort, Execution
<1>4. a \in Execution /\ a.abort # "none"
  <2>1. y \in Execution /\ y.abort = x.abort
    BY <1>1 DEF Execution
  <2>2. z \in Execution /\ z.abort = "timeout"
    BY <1>1 DEF Execution
  <2> QED
    BY <1>3, <2>1, <2>2
<1>5. /\ a.pc = "executing" /\ a.calls = x.calls /\ a.decision = x.decision
      /\ a.attempt = x.attempt /\ a.audit = x.audit /\ ~a.armed
      /\ a.tool = x.tool /\ a.caller = x.caller
      /\ a.emitted = x.emitted
  BY <1>1, <1>2, <1>3 DEF Execution
<1>6. CallInv(a) /\ a.pc \in InFlight
  <2>1. x.calls > 0
    BY <1>1, <1>2 DEF CallInv, Execution
  <2> QED
    BY <1>1, <1>2, <1>4, <1>5, <2>1 DEF CallInv, InFlight, Permitted,
       Unpermitted, MaxAttempts
<1>7. Becomes(e, a) /\ UNCHANGED <<disposed, m4, enabled, permissions>>
  BY DEF TimerFires
<1> QED
  BY <1>2, <1>4, <1>6, <1>7, StepLemma, CallFacts

LEMMA CancelInv ==
    ASSUME Inv, NEW e \in Execs, Cancel(e)
    PROVE  Inv'
  BY AbortStepLemma, CallFacts DEF Cancel

LEMMA CallerAbortsInv ==
    ASSUME Inv, NEW e \in Execs, CallerAborts(e)
    PROVE  Inv'
<1> DEFINE x == exec[e]
           y == [x EXCEPT !.caller = TRUE]
           z == [x EXCEPT !.caller = TRUE, !.abort = "caller"]
           a == Abort(y, "caller")
<1>1. x \in Execution /\ CallInv(x) /\ x.pc \in InFlight
  BY CallFacts DEF CallerAborts
<1>2. y \in Execution /\ z \in Execution
  BY <1>1 DEF Execution
<1>3. a = IF x.abort = "none" THEN z ELSE y
  BY <1>1 DEF Abort, Execution
<1>4. /\ a \in Execution /\ a.abort # "none" /\ a.pc = x.pc /\ a.calls = x.calls
      /\ a.decision = x.decision /\ a.attempt = x.attempt
      /\ a.audit = x.audit /\ a.armed = x.armed /\ a.tool = x.tool
      /\ a.emitted = x.emitted /\ a.timedOut = x.timedOut
  BY ZenonT(60), <1>1, <1>2, <1>3 DEF Execution
<1>5. CallInv(a)
  BY <1>1, <1>4 DEF CallInv, InFlight, Permitted, Unpermitted, MaxAttempts
<1>6. Becomes(e, a) /\ UNCHANGED <<disposed, m4, enabled, permissions>>
  BY DEF CallerAborts
<1> QED
  BY <1>1, <1>4, <1>5, <1>6, StepLemma, CallFacts

LEMMA DisposeInv ==
    ASSUME Inv, Dispose
    PROVE  Inv'
<1>1. \A f \in Execs : f \in active =>
        /\ exec'[f] \in Execution /\ CallInv(exec'[f])
        /\ exec'[f].pc = exec[f].pc /\ exec'[f].abort # "none"
  <2> SUFFICES ASSUME NEW f \in Execs, f \in active
               PROVE  /\ exec'[f] \in Execution /\ CallInv(exec'[f])
                      /\ exec'[f].pc = exec[f].pc /\ exec'[f].abort # "none"
    OBVIOUS
  <2> DEFINE y == [exec[f] EXCEPT !.armed = FALSE]
  <2>1. exec[f] \in Execution /\ CallInv(exec[f]) /\ exec[f].pc \in InFlight
    BY CallFacts
  <2>2. /\ y \in Execution /\ y.pc = exec[f].pc /\ y.calls = exec[f].calls
        /\ y.decision = exec[f].decision /\ y.attempt = exec[f].attempt
        /\ y.audit = exec[f].audit /\ ~y.armed
        /\ y.timedOut = exec[f].timedOut /\ y.tool = exec[f].tool
        /\ y.caller = exec[f].caller
        /\ y.abort = exec[f].abort /\ y.emitted = exec[f].emitted
        /\ y.status = exec[f].status
    BY <2>1 DEF Execution
  <2>4. CallInv(y)
    BY <2>1, <2>2 DEF CallInv, MaxAttempts
  <2>3. exec'[f] = Abort(y, "dispose")
    BY DEF Dispose
  <2>5. y.pc \in InFlight
    BY <2>1, <2>2
  <2>6. /\ Abort(y, "dispose") \in Execution /\ CallInv(Abort(y, "dispose"))
        /\ Abort(y, "dispose").pc = y.pc /\ Abort(y, "dispose").abort # "none"
    BY <2>2, <2>4, <2>5, AbortLemma
  <2> QED
    BY <2>2, <2>3, <2>6
<1>2. \A f \in Execs : f \notin active => exec'[f] = exec[f]
  BY DEF Dispose
<1>3. \A f \in Execs : exec'[f] \in Execution /\ CallInv(exec'[f])
  BY <1>1, <1>2, CallFacts
<1>4. exec' = [f \in Execs |-> exec'[f]]
  BY DEF Dispose
<1>5. TypeOK'
  BY <1>3, <1>4 DEF Dispose, Inv, TypeOK, permissions
<1>6. \A f \in Execs : CallInv(exec[f])'
  BY <1>3 DEF CallInv, MaxAttempts
<1>7. EveryCallReachable'
  BY <1>1, <1>2, CallFacts DEF Dispose, EveryCallReachable
<1> QED
  BY <1>5, <1>6, <1>7 DEF Inv

LEMMA ConfiguringInv ==
    ASSUME Inv, Configuring
    PROVE  Inv'
<1>1. UNCHANGED <<exec, active, disposed, m4>>
  BY DEF Configuring, SetEnabled, SetPolicy, ResetSession
<1> DEFINE typed == /\ enabled' \subseteq Tools
                    /\ policy' \in [Tools -> Decisions]
                    /\ approvals' \subseteq Tools /\ denials' \subseteq Tools
<1>2. typed
  <2>1. ASSUME NEW t \in Tools, NEW on \in BOOLEAN, SetEnabled(t, on)
        PROVE  typed
    BY <2>1, CallFacts DEF SetEnabled, permissions, Inv, TypeOK
  <2>2. ASSUME NEW ts \in SUBSET Tools, NEW d \in Decisions, SetPolicy(ts, d)
        PROVE  typed
    BY <2>2 DEF SetPolicy, Inv, TypeOK
  <2> QED
    BY <2>1, <2>2 DEF Configuring, ResetSession, Inv, TypeOK
<1> QED
  BY <1>1, <1>2 DEF Inv, TypeOK, EveryCallReachable, CallInv, MaxAttempts

LEMMA ExecutingInv ==
    ASSUME Inv, NEW e \in Execs, Executing(e)
    PROVE  Inv'
<1>1. CASE Calls(e)
  BY <1>1, ExecuteInv DEF Calls
<1>2. CASE Runs(e)
  BY <1>2, ResolveInv, InputRejectedInv, PermissionCheckInv, LoopHeadInv,
     BackoffEndsInv, CallToolInv DEF Runs
<1>3. CASE M4Answers(e)
  BY <1>3, M4AllowsInv, M4DeniesInv DEF M4Answers
<1>4. CASE UserAnswers(e)
  BY <1>4, ApprovalAnsweredInv DEF UserAnswers
<1>5. CASE ToolSettles(e)
  BY <1>5, ToolReturnsInv, ToolThrowsInv DEF ToolSettles
<1>6. CASE PermissionThrows(e) \/ ReportProgress(e)
  BY <1>6, PermissionThrowsInv, ReportProgressInv
<1>7. CASE TimerFires(e) \/ Cancel(e) \/ CallerAborts(e)
  BY <1>7, TimerFiresInv, CancelInv, CallerAbortsInv
<1> QED
  BY <1>1, <1>2, <1>3, <1>4, <1>5, <1>6, <1>7 DEF Executing

-----------------------------------------------------------------------------
(* The theorems.                                                              *)

LEMMA InitInv == Init => Inv
<1> SUFFICES ASSUME Init PROVE Inv
  OBVIOUS
<1> DEFINE t == CHOOSE u \in Tools : TRUE
<1>1. t \in Tools
  BY ToolConstants
<1>2. \A f \in Execs : exec[f] = Blank(t)
  BY DEF Init
<1>3. exec \in [Execs -> Execution] /\ \A f \in Execs : CallInv(exec[f])
  BY <1>1, <1>2, BlankLemma DEF Init
<1>4. \A f \in Execs : exec[f].pc = "idle"
  BY <1>1, <1>2, BlankLemma
<1> QED
  BY <1>3, <1>4 DEF Init, Inv, TypeOK, EveryCallReachable, InFlight, Permitted,
     Unpermitted

LEMMA NextInv == Inv /\ [Next]_vars => Inv'
<1> SUFFICES ASSUME Inv, [Next]_vars PROVE Inv'
  OBVIOUS
<1>1. CASE Next
  BY <1>1, ExecutingInv, DisposeInv, ConfiguringInv DEF Next
<1>2. CASE UNCHANGED vars
  BY <1>2 DEF vars, permissions, Inv, TypeOK, EveryCallReachable, CallInv,
     MaxAttempts
<1> QED
  BY <1>1, <1>2

LEMMA SpecInv == Spec => []Inv
  BY InitInv, NextInv, PTL DEF Spec

\* The state of the executor is well typed, whatever its listeners, tools and
\* callers do between its steps.
THEOREM TypeCorrect == Spec => []TypeOK
<1>1. Inv => TypeOK
  BY DEF Inv
<1> QED
  BY <1>1, SpecInv, PTL

\* Whatever path an accepted call takes, its status, its single terminal event
\* and its single audit record agree once it has returned.
THEOREM ReturnedAccounted == Spec => []ReturnedIsAccounted
<1>1. Inv => ReturnedIsAccounted
  BY DEF Inv, CallInv, ReturnedIsAccounted
<1> QED
  BY <1>1, SpecInv, PTL

\* No success is reported for a call that was aborted or timed out.
THEOREM LateIsNoSuccess == Spec => []NoLateSuccess
<1>1. Inv => NoLateSuccess
  BY DEF Inv, CallInv, NoLateSuccess
<1> QED
  BY <1>1, SpecInv, PTL

\* cancel() and dispose() reach every call in flight.
THEOREM Reachable == Spec => []EveryCallReachable
<1>1. Inv => EveryCallReachable
  BY DEF Inv
<1> QED
  BY <1>1, SpecInv, PTL

\* A tool runs only after a decision that permits it (execute(),
\* PERMISSION_CHECK), and never more often than its declaration allows.
PermittedAndBounded ==
    \A e \in Execs :
        /\ exec[e].calls > 0 => exec[e].decision \in Granted
        /\ exec[e].calls <= MaxAttempts(exec[e])

THEOREM RunsArePermitted == Spec => []PermittedAndBounded
<1>1. Inv => PermittedAndBounded
  BY DEF Inv, CallInv, PermittedAndBounded
<1> QED
  BY <1>1, SpecInv, PTL

\* Where each helper leaves the program counter.
LEMMA PcLemma ==
    ASSUME NEW x \in Execution
    PROVE  /\ Finish(x).pc = "returned" /\ Cancelled(x).pc = "returned"
           /\ Denied(x).pc = "returned" /\ Throw(x).pc = "thrown"
           /\ \A st : Settle(x, st).pc = "returned"
           /\ \A type : Emit(x, type).pc = x.pc
           /\ \A why : Abort(x, why).pc = x.pc
<1>1. \A y, type : Emit(y, type) = y
        \/ Emit(y, type) = [y EXCEPT !.emitted = @ \cup {type}]
  BY DEF Emit
<1>2. \A type : Emit(x, type).pc = x.pc
  BY <1>1 DEF Execution
<1>3. \A st : /\ "pc" \in DOMAIN [x EXCEPT !.status = st]
              /\ "pc" \in DOMAIN Emit([x EXCEPT !.status = st], st)
  BY <1>1 DEF Execution
<1>4. \A st : Settle(x, st).pc = "returned"
  BY <1>3 DEF Settle, AsResult
<1>5. Throw(x).pc = "thrown" /\ \A why : Abort(x, why).pc = x.pc
  BY DEF Throw, Abort, Execution
<1> QED
  BY <1>2, <1>4, <1>5 DEF Finish, Cancelled, Denied

\* Only the head of the loop and the end of a backoff start an attempt.
LEMMA StartsLemma ==
    ASSUME Inv, NEW e \in Execs, Executing(e), exec'[e].pc = "starting",
           exec[e].pc # "starting"
    PROVE  LoopHead(e) \/ BackoffEnds(e)
<1> DEFINE x == exec[e]
<1>1. x \in Execution /\ exec \in [Execs -> Execution]
  BY CallFacts DEF Inv, TypeOK
<1>2. \A y : Becomes(e, y) => exec'[e] = y
  BY <1>1 DEF Becomes
<1>3. CASE Calls(e)
  <2>1. PICK t \in Tools, channel \in BOOLEAN, preAborted \in BOOLEAN :
               Execute(e, t, channel, preAborted)
    BY <1>3 DEF Calls
  <2> DEFINE b == [Blank(t) EXCEPT !.channel = channel, !.caller = preAborted]
             r == [b EXCEPT !.pc = "refused", !.status = "failed"]
             o == [b EXCEPT !.pc = "requested"]
  <2>0. b \in Execution
    BY ZenonT(60), BlankLemma DEF Execution
  <2>2. o \in Execution /\ o.pc = "requested" /\ r.pc = "refused"
    BY <2>0 DEF Execution, InFlight, Unpermitted
  <2>3. Emit(o, "requested").pc = "requested"
    <3> HIDE DEF o
    <3> QED
      BY <2>2, PcLemma
  <2>4. exec'[e] = r \/ exec'[e] = Emit(o, "requested")
    BY <1>1, <2>1 DEF Execute
  <2> QED
    BY <2>2, <2>3, <2>4
<1>4. CASE Resolve(e) \/ InputRejected(e)
  <2> DEFINE v == [x EXCEPT !.status = "validating"]
             w == [x EXCEPT !.pc = "validating", !.status = "validating"]
  <2>1. v \in Execution /\ w.pc = "validating"
    BY <1>1 DEF Execution, Statuses
  <2>2. exec'[e] \in {Finish(x), Cancelled(v), w}
    BY <1>2, <1>4 DEF Resolve, InputRejected
  <2> QED
    BY <1>1, <2>1, <2>2, PcLemma
<1>5. CASE PermissionCheck(e)
  <2> DEFINE p == [x EXCEPT !.status = "permission_check"]
             q == [p EXCEPT !.pc = "m4"]
  <2>1. p \in Execution /\ p.pc = "validating" /\ q.pc = "m4" /\ CallInv(p)
    BY <1>1, <1>5, CallFacts DEF PermissionCheck, Execution, Statuses, CallInv,
       InFlight, Permitted, Unpermitted, MaxAttempts
  <2>2. exec'[e] \in {Cancelled(p), q, DecideM3(p)}
    BY <1>2, <1>5 DEF PermissionCheck
  <2>3. DecideM3(p).pc # "starting"
    <3> DEFINE y == [p EXCEPT !.decision = Decide(p.tool)]
               u == [y EXCEPT !.status = "awaiting_approval"]
               z == Emit(u, "permission_required")
    <3>1. y \in Execution
      BY ZenonT(60), <2>1, CallFacts DEF Decide, Decisions, Execution, Inv, TypeOK
    <3>2. u \in Execution
      BY <3>1 DEF Execution, Statuses
    <3>3. z \in Execution
      BY <3>2, EmitLemma DEF Events
    <3>4. /\ [y EXCEPT !.pc = "loop"].pc = "loop"
          /\ [z EXCEPT !.pc = "awaiting"].pc = "awaiting"
      BY <3>1, <3>3 DEF Execution
    <3>5. DecideM3(p) \in {Denied(y), [y EXCEPT !.pc = "loop"],
                           [z EXCEPT !.pc = "awaiting"], Denied(z)}
      BY DEF DecideM3
    <3> QED
      BY <3>1, <3>3, <3>4, <3>5, PcLemma
  <2> QED
    BY <1>1, <2>1, <2>2, <2>3, PcLemma
<1>6. CASE CallTool(e)
  BY <1>1, <1>6, <1>2 DEF CallTool, Execution
<1>7. CASE M4Answers(e)
  <2> DEFINE a == [x EXCEPT !.decision = "allow", !.pc = "loop"]
             d == [x EXCEPT !.decision = "deny"]
  <2>1. a \in Execution /\ d \in Execution /\ a.pc = "loop"
    BY <1>1 DEF Execution, InFlight, Permitted, Granted
  <2>2. exec'[e] \in {Emit(a, "permission_granted"), Denied(d)}
    BY <1>2, <1>7 DEF M4Answers, M4Allows, M4Denies
  <2> HIDE DEF a, d
  <2>3. /\ Emit(a, "permission_granted").pc = "loop"
        /\ Denied(d).pc = "returned"
    BY <2>1, PcLemma
  <2> QED
    BY <2>2, <2>3
<1>8. CASE UserAnswers(e)
  <2>1. PICK approved \in BOOLEAN, scope \in {"once", "session"} :
               ApprovalAnswered(e, approved, scope)
    BY <1>8 DEF UserAnswers
  <2> DEFINE d == IF scope = "session" THEN "approved_session"
                                       ELSE "approved_once"
             y == [x EXCEPT !.pc = "loop", !.decision = d]
  <2>2. y.pc = "loop"
    BY <1>1 DEF Execution
  <2>3. exec'[e] \in {Cancelled(x), y, Denied(x)}
    BY <1>2, <2>1 DEF ApprovalAnswered
  <2> QED
    BY <1>1, <2>2, <2>3, PcLemma
<1>9. CASE ToolSettles(e)
  <2> DEFINE s == [x EXCEPT !.armed = FALSE]
             r == [s EXCEPT !.pc = "loop", !.attempt = @ + 1]
  <2>1. s \in Execution /\ r.pc = "loop"
    BY <1>1 DEF Execution
  <2>2. exec'[e] \in {Finish(s), Cancelled(s), Settle(s, "completed"), r}
    BY <1>2, <1>9 DEF ToolSettles, ToolReturns, ToolThrows
  <2>3. /\ Finish(s).pc = "returned" /\ Cancelled(s).pc = "returned"
        /\ Settle(s, "completed").pc = "returned"
    <3> HIDE DEF s
    <3> QED
      BY <2>1, PcLemma
  <2> QED
    BY <2>1, <2>2, <2>3
<1>10. CASE PermissionThrows(e) \/ ReportProgress(e) \/ Cancel(e)
  BY <1>1, <1>2, <1>10, PcLemma DEF PermissionThrows, ReportProgress, Cancel
<1>11. CASE TimerFires(e) \/ CallerAborts(e)
  <2> DEFINE t == [x EXCEPT !.armed = FALSE, !.timedOut = TRUE]
             c == [x EXCEPT !.caller = TRUE]
  <2>1. t \in Execution /\ c \in Execution /\ t.pc = x.pc /\ c.pc = x.pc
    BY <1>1 DEF Execution
  <2>2. exec'[e] \in {Abort(t, "timeout"), Abort(c, "caller")}
    BY <1>2, <1>11 DEF TimerFires, CallerAborts
  <2> HIDE DEF t, c
  <2>3. Abort(t, "timeout").pc = x.pc /\ Abort(c, "caller").pc = x.pc
    BY <2>1, PcLemma
  <2> QED
    BY <2>2, <2>3
<1> QED
  BY <1>3, <1>4, <1>5, <1>6, <1>7, <1>8, <1>9, <1>10, <1>11
     DEF Executing, Runs

\* No attempt of a tool starts once its call is aborted, by its caller, by
\* cancel(), by its timer or by dispose().
THEOREM NoAttemptOnceAborted == Spec => NoAttemptAfterAbort
<1> DEFINE Starts(e) == exec[e].pc # "starting" /\ exec'[e].pc = "starting"
           Step == \A e \in Execs : Starts(e) => ~Aborted(exec[e])
<1>1. Inv /\ [Next]_vars => Step
  <2> SUFFICES ASSUME Inv, [Next]_vars, NEW e \in Execs, Starts(e)
               PROVE  ~Aborted(exec[e])
    OBVIOUS
  <2>1. exec \in [Execs -> Execution]
    BY DEF Inv, TypeOK
  <2>2. ASSUME NEW f \in Execs, Executing(f)
        PROVE  f = e
    <3> SUFFICES ASSUME f # e PROVE exec'[e] = exec[e]
      OBVIOUS
    <3>1. (\E y : Becomes(f, y)) \/ (\E y : exec' = [exec EXCEPT ![f] = y])
      BY <2>2 DEF Executing, Calls, Execute, Runs, Resolve, InputRejected,
         PermissionCheck, LoopHead, BackoffEnds, CallTool, M4Answers, M4Allows,
         M4Denies, UserAnswers, ApprovalAnswered, PermissionThrows,
         ToolSettles, ToolReturns, ToolThrows, ReportProgress, TimerFires,
         Cancel, CallerAborts
    <3> QED
      BY <2>1, <3>1 DEF Becomes
  <2>3. ~Dispose
    <3> SUFFICES ASSUME Dispose PROVE exec'[e].pc = exec[e].pc
      OBVIOUS
    <3> DEFINE y == [exec[e] EXCEPT !.armed = FALSE]
    <3>1. y \in Execution /\ y.pc = exec[e].pc
      BY ZenonT(60), <2>1 DEF Execution
    <3>2. exec'[e] \in {Abort(y, "dispose"), exec[e]}
      BY DEF Dispose
    <3> HIDE DEF y
    <3>3. Abort(y, "dispose").pc = y.pc
      BY <3>1, PcLemma
    <3> QED
      BY <3>1, <3>2, <3>3
  <2>4. ~Configuring /\ ~UNCHANGED vars
    BY DEF Configuring, SetEnabled, SetPolicy, ResetSession, vars
  <2>5. Executing(e)
    BY <2>2, <2>3, <2>4 DEF Next
  <2>6. LoopHead(e) \/ BackoffEnds(e)
    BY <2>5, StartsLemma
  <2>7. CASE LoopHead(e)
    <3>1. exec'[e] = Cancelled(exec[e]) \/ ~Aborted(exec[e])
      BY <2>1, <2>7 DEF LoopHead, Becomes
    <3> QED
      BY <2>1, <3>1, PcLemma
  <2>8. CASE BackoffEnds(e)
    <3>1. exec'[e] = Cancelled(exec[e]) \/ exec[e].abort = "none"
      BY <2>1, <2>8 DEF BackoffEnds, Becomes
    <3>2. exec[e].abort = "none"
      BY <2>1, <3>1, PcLemma
    <3> QED
      BY <2>8, <3>2 DEF BackoffEnds, Inv, CallInv, Aborted
  <2> QED
    BY <2>6, <2>7, <2>8
<1> QED
  BY <1>1, SpecInv, PTL DEF Spec, NoAttemptAfterAbort
-----------------------------------------------------------------------------
(* The executor implements the contract.                                      *)

\* What the contract sees of a call.
Limit(x)   == IF x.pc \in {"idle", "refused"} THEN 0 ELSE MaxAttempts(x)
Outcome(x) == IF x.pc \in {"returned", "refused"} THEN x.status ELSE "none"

View(x) == <<Stage(x), Limit(x), x.calls, Outcome(x)>>

\* The steps the contract allows a call that goes from x to y.
Submitted(x, y) ==
    /\ Stage(x) = "new" /\ Stage(y) = "open"
    /\ Limit(y) \in {1, 1 + MaxRetries}
    /\ y.calls = x.calls /\ Outcome(y) = Outcome(x)

PermittedTo(x, y) ==
    /\ Stage(x) = "open" /\ Stage(y) = "permitted"
    /\ Limit(y) = Limit(x) /\ y.calls = x.calls /\ Outcome(y) = Outcome(x)

RanOnce(x, y) ==
    /\ Stage(x) = "permitted" /\ Stage(y) = "permitted"
    /\ x.calls < Limit(x) /\ y.calls = x.calls + 1
    /\ Limit(y) = Limit(x) /\ Outcome(y) = Outcome(x)

ClosedUnrun(x, y) ==
    /\ Stage(x) \in {"new", "open"} /\ Stage(y) = "closed"
    /\ Outcome(y) \in {"denied", "failed", "cancelled", "none"}
    /\ Limit(y) = Limit(x) /\ y.calls = x.calls

ClosedPermitted(x, y) ==
    /\ Stage(x) = "permitted" /\ Stage(y) = "closed"
    /\ \/ Outcome(y) = "cancelled"
       \/ x.calls > 0 /\ Outcome(y) \in {"completed", "failed", "timed_out"}
    /\ Limit(y) = Limit(x) /\ y.calls = x.calls

CallStep(x, y) ==
    \/ View(y) = View(x)
    \/ Submitted(x, y) \/ PermittedTo(x, y) \/ RanOnce(x, y)
    \/ ClosedUnrun(x, y) \/ ClosedPermitted(x, y)

\* A step of one call that the contract allows, the other calls standing still,
\* is a step of the contract.
LEMMA CallStepIsContractStep ==
    ASSUME NEW e \in Execs, NEW y, exec \in [Execs -> Execution],
           exec' = [exec EXCEPT ![e] = y], CallStep(exec[e], y)
    PROVE  [Contract!CNext]_(Contract!cvars)
<1> DEFINE x == exec[e]
           st == [f \in Execs |-> Stage(exec[f])]
           li == [f \in Execs |-> IF exec[f].pc \in {"idle", "refused"} THEN 0
                                  ELSE MaxAttempts(exec[f])]
           ru == [f \in Execs |-> exec[f].calls]
           ou == [f \in Execs |-> IF exec[f].pc \in {"returned", "refused"}
                                  THEN exec[f].status ELSE "none"]
<1>0. \A f \in Execs : exec'[f] = IF f = e THEN y ELSE exec[f]
  OBVIOUS
<1>1. /\ st' = [st EXCEPT ![e] = Stage(y)]
      /\ li' = [li EXCEPT ![e] = Limit(y)]
      /\ ru' = [ru EXCEPT ![e] = y.calls]
      /\ ou' = [ou EXCEPT ![e] = Outcome(y)]
  <2>1. st' = [st EXCEPT ![e] = Stage(y)]
    <3>1. st' = [f \in Execs |-> Stage(exec'[f])]
      BY DEF Stage
    <3>2. \A f \in Execs : Stage(exec'[f]) = IF f = e THEN Stage(y) ELSE st[f]
      BY <1>0
    <3> QED
      BY <3>1, <3>2
  <2>2. li' = [li EXCEPT ![e] = Limit(y)]
    BY <1>0 DEF Limit, MaxAttempts
  <2>3. ru' = [ru EXCEPT ![e] = y.calls]
    BY <1>0
  <2>4. ou' = [ou EXCEPT ![e] = Outcome(y)]
    BY <1>0 DEF Outcome
  <2> QED
    BY <2>1, <2>2, <2>3, <2>4
<1>2. /\ st[e] = Stage(x) /\ li[e] = Limit(x) /\ ru[e] = x.calls
      /\ ou[e] = Outcome(x)
  BY DEF Limit, Outcome
<1>3. /\ st = [st EXCEPT ![e] = st[e]] /\ li = [li EXCEPT ![e] = li[e]]
      /\ ru = [ru EXCEPT ![e] = ru[e]] /\ ou = [ou EXCEPT ![e] = ou[e]]
  OBVIOUS
<1>4. CASE View(y) = View(x)
  BY <1>1, <1>2, <1>3, <1>4 DEF View, Contract!cvars
<1>5. CASE Submitted(x, y)
  <2>1. Contract!Submit(e, Limit(y))
    BY <1>1, <1>2, <1>3, <1>5 DEF Submitted, Contract!Submit
  <2> QED
    BY <2>1, <1>5 DEF Submitted, Contract!CNext
<1>6. CASE PermittedTo(x, y)
  <2>1. Contract!Permit(e)
    BY <1>1, <1>2, <1>3, <1>6 DEF PermittedTo, Contract!Permit
  <2> QED
    BY <2>1 DEF Contract!CNext
<1>7. CASE RanOnce(x, y)
  <2>1. Contract!Run(e)
    BY <1>1, <1>2, <1>3, <1>7 DEF RanOnce, Contract!Run
  <2> QED
    BY <2>1 DEF Contract!CNext
<1>8. CASE ClosedUnrun(x, y)
  <2>1. Contract!CloseUnpermitted(e, Outcome(y))
    BY <1>1, <1>2, <1>3, <1>8 DEF ClosedUnrun, Contract!CloseUnpermitted
  <2>2. Outcome(y) \in Contract!Outcomes
    BY <1>8 DEF ClosedUnrun, Contract!Outcomes
  <2> QED
    BY <2>1, <2>2 DEF Contract!CNext
<1>9. CASE ClosedPermitted(x, y)
  <2>1. Contract!ClosePermitted(e, Outcome(y))
    BY <1>1, <1>2, <1>3, <1>9 DEF ClosedPermitted, Contract!ClosePermitted
  <2>2. Outcome(y) \in Contract!Outcomes
    BY <1>9 DEF ClosedPermitted, Contract!Outcomes
  <2> QED
    BY <2>1, <2>2 DEF Contract!CNext
<1> QED
  BY <1>4, <1>5, <1>6, <1>7, <1>8, <1>9 DEF CallStep

\* What the contract sees of a call at each of its points.
LEMMA ViewLemma ==
    ASSUME NEW x
    PROVE  /\ x.pc = "idle" => Stage(x) = "new" /\ Limit(x) = 0
           /\ x.pc \in Unpermitted => Stage(x) = "open"
           /\ x.pc \in Permitted => Stage(x) = "permitted"
           /\ x.pc \in Closed => Stage(x) = "closed"
           /\ x.pc \in InFlight \cup {"returned", "thrown"}
                => Limit(x) = MaxAttempts(x)
           /\ x.pc = "refused" => Limit(x) = 0
           /\ x.pc \in {"returned", "refused"} => Outcome(x) = x.status
           /\ x.pc \in InFlight \cup {"idle", "thrown"} => Outcome(x) = "none"
<1>1. x.pc = "idle" => Stage(x) = "new"
  BY DEF Stage, Unpermitted, Permitted
<1>2. x.pc \in Unpermitted => Stage(x) = "open"
  BY DEF Stage, Unpermitted, Permitted
<1>3. x.pc \in Permitted => Stage(x) = "permitted"
  BY DEF Stage, Unpermitted, Permitted
<1>4. x.pc \in Closed => Stage(x) = "closed"
  BY DEF Stage, Unpermitted, Permitted, Closed
<1> QED
  BY <1>1, <1>2, <1>3, <1>4
     DEF Limit, Outcome, InFlight, Unpermitted, Permitted

\* emit() and an abort change nothing the contract sees.
LEMMA QuietLemma ==
    ASSUME NEW x \in Execution
    PROVE  /\ \A type : /\ Emit(x, type).pc = x.pc
                        /\ Emit(x, type).status = x.status
                        /\ Emit(x, type).calls = x.calls
                        /\ Emit(x, type).tool = x.tool
           /\ \A why : /\ Abort(x, why).pc = x.pc
                       /\ Abort(x, why).status = x.status
                       /\ Abort(x, why).calls = x.calls
                       /\ Abort(x, why).tool = x.tool
<1>1. \A type : Emit(x, type) = x
        \/ Emit(x, type) = [x EXCEPT !.emitted = @ \cup {type}]
  BY DEF Emit
<1>2. \A why : Abort(x, why) = x \/ Abort(x, why) = [x EXCEPT !.abort = why]
  BY DEF Abort
<1> QED
  BY <1>1, <1>2 DEF Execution

\* Settling shows the contract its status, and neither runs nor swaps the tool.
LEMMA SettledLemma ==
    ASSUME NEW x \in Execution, NEW st \in TerminalStatuses
    PROVE  /\ Settle(x, st).pc = "returned"
           /\ Settle(x, st).status = st
           /\ Settle(x, st).calls = x.calls
           /\ Settle(x, st).tool = x.tool
<1> DEFINE y == [x EXCEPT !.status = st]
           z == Emit(y, st)
<1>1. y \in Execution /\ y.status = st /\ y.calls = x.calls /\ y.tool = x.tool
  BY DEF Execution, Statuses
<1>2. z \in Execution
  BY <1>1, EmitLemma DEF Events
<1>3. z.status = st /\ z.calls = x.calls /\ z.tool = x.tool
  <2> HIDE DEF y
  <2> QED
    BY <1>1, QuietLemma
<1>4. Settle(x, st) = AsResult(z)
  BY DEF Settle
<1> HIDE DEF z
<1> QED
  BY <1>2, <1>3, <1>4 DEF AsResult, Execution

\* A call that stays on its side of the permission check, or at its point with
\* its status, shows the contract nothing.
LEMMA StaysLemma ==
    ASSUME NEW x, NEW y, y.calls = x.calls, y.tool = x.tool,
           \/ y.pc = x.pc /\ y.status = x.status
           \/ x.pc \in Unpermitted /\ y.pc \in Unpermitted
           \/ x.pc \in Permitted /\ y.pc \in Permitted
    PROVE  CallStep(x, y)
<1>1. MaxAttempts(y) = MaxAttempts(x)
  BY DEF MaxAttempts
<1>2. CASE y.pc = x.pc /\ y.status = x.status
  <2>1. Stage(y) = Stage(x)
    BY <1>2 DEF Stage
  <2>2. Limit(y) = Limit(x) /\ Outcome(y) = Outcome(x)
    BY <1>1, <1>2 DEF Limit, Outcome
  <2> QED
    BY <2>1, <2>2 DEF View, CallStep
<1>3. CASE \/ x.pc \in Unpermitted /\ y.pc \in Unpermitted
           \/ x.pc \in Permitted /\ y.pc \in Permitted
  <2>1. /\ Stage(y) = Stage(x)
        /\ Limit(y) = MaxAttempts(y) /\ Limit(x) = MaxAttempts(x)
        /\ Outcome(y) = "none" /\ Outcome(x) = "none"
    BY <1>3, ViewLemma DEF InFlight
  <2> QED
    BY <1>1, <2>1 DEF View, CallStep
<1> QED
  BY <1>2, <1>3

\* A call that passes the permission check.
LEMMA PassesLemma ==
    ASSUME NEW x, NEW y, x.pc \in Unpermitted, y.pc \in Permitted,
           y.calls = x.calls, y.tool = x.tool
    PROVE  CallStep(x, y)
<1>1. MaxAttempts(y) = MaxAttempts(x)
  BY DEF MaxAttempts
<1>2. /\ Stage(x) = "open" /\ Stage(y) = "permitted"
      /\ Limit(y) = MaxAttempts(y) /\ Limit(x) = MaxAttempts(x)
      /\ Outcome(y) = "none" /\ Outcome(x) = "none"
  BY ViewLemma DEF InFlight
<1> QED
  BY <1>1, <1>2 DEF PermittedTo, CallStep

\* A call that is closed before it was permitted: refused, failed, cancelled,
\* or left by an exception.
LEMMA ClosesUnrunLemma ==
    ASSUME NEW x, NEW z \in Execution, NEW y, x.pc \in Unpermitted,
           z.calls = x.calls, z.tool = x.tool, ~z.timedOut,
           y \in {Finish(z), Cancelled(z), Denied(z), Throw(z)}
    PROVE  CallStep(x, y)
<1>1. CASE y = Throw(z)
  <2>1. y.pc = "thrown" /\ y.calls = x.calls /\ y.tool = x.tool
    BY <1>1 DEF Throw, Execution
  <2> QED
    BY <2>1, ViewLemma DEF InFlight, Closed, MaxAttempts, ClosedUnrun, CallStep
<1>2. CASE y # Throw(z)
  <2>1. PICK st \in {"failed", "cancelled", "denied"} : y = Settle(z, st)
    BY <1>2 DEF Finish, Cancelled, Denied
  <2>2. /\ y.pc = "returned" /\ y.status = st
        /\ y.calls = x.calls /\ y.tool = x.tool
    BY <2>1, SettledLemma DEF TerminalStatuses
  <2> QED
    BY <2>2, ViewLemma DEF InFlight, Closed, MaxAttempts, ClosedUnrun, CallStep
<1> QED
  BY <1>1, <1>2

\* A call that is closed once it was permitted: unless it is cancelled, its tool
\* has been run.
LEMMA ClosesLemma ==
    ASSUME NEW x, NEW z \in Execution, NEW y, x.pc \in Permitted,
           z.calls = x.calls, z.tool = x.tool,
           \/ y = Cancelled(z)
           \/ x.calls > 0 /\ y \in {Finish(z), Settle(z, "completed")}
    PROVE  CallStep(x, y)
<1>1. PICK st \in TerminalStatuses :
          /\ y = Settle(z, st)
          /\ \/ st = "cancelled"
             \/ x.calls > 0 /\ st \in {"completed", "failed", "timed_out"}
  BY DEF Finish, Cancelled, TerminalStatuses
<1>2. /\ y.pc = "returned" /\ y.status = st
      /\ y.calls = x.calls /\ y.tool = x.tool
  BY <1>1, SettledLemma
<1> QED
  BY <1>1, <1>2, ViewLemma
     DEF InFlight, Closed, MaxAttempts, ClosedPermitted, CallStep

\* A new call: refused by a disposed service, or opened with its limit.
LEMMA CallsStep ==
    ASSUME Inv, NEW e \in Execs, Calls(e)
    PROVE  CallStep(exec[e], exec'[e])
<1> DEFINE x == exec[e]
<1>1. PICK t \in Tools, channel \in BOOLEAN, preAborted \in BOOLEAN :
             Execute(e, t, channel, preAborted)
  BY DEF Calls
<1> DEFINE b == [Blank(t) EXCEPT !.channel = channel, !.caller = preAborted]
           r == [b EXCEPT !.pc = "refused", !.status = "failed"]
           o == [b EXCEPT !.pc = "requested"]
<1>2. b \in Execution
  <2> DEFINE k == Blank(t)
  <2>1. k \in Execution
    BY BlankLemma
  <2> HIDE DEF k
  <2>2. [k EXCEPT !.channel = channel, !.caller = preAborted] \in Execution
    BY <2>1 DEF Execution
  <2> QED
    BY <2>2 DEF k
<1>3. b.calls = 0
  BY DEF Blank
<1>4. x.pc = "idle" /\ x.calls = 0
  BY <1>1, CallFacts DEF Execute, CallInv
<1>5. Stage(x) = "new" /\ Limit(x) = 0 /\ Outcome(x) = "none"
  BY <1>4, ViewLemma
<1>6. exec'[e] = r \/ exec'[e] = Emit(o, "requested")
  BY <1>1 DEF Execute, Inv, TypeOK
<1>7. CASE exec'[e] = r
  <2>1. r.pc = "refused" /\ r.status = "failed" /\ r.calls = 0
    BY <1>2, <1>3 DEF Execution
  <2> HIDE DEF r
  <2>2. Stage(r) = "closed" /\ Limit(r) = 0 /\ Outcome(r) = "failed"
    BY <2>1, ViewLemma DEF Closed
  <2> QED
    BY <1>4, <1>5, <1>7, <2>1, <2>2 DEF ClosedUnrun, CallStep
<1>8. CASE exec'[e] = Emit(o, "requested")
  <2>1. o \in Execution /\ o.pc = "requested" /\ o.calls = 0
    BY <1>2, <1>3 DEF Execution, InFlight, Unpermitted
  <2> HIDE DEF o
  <2> DEFINE y == Emit(o, "requested")
  <2>2. y.pc = "requested" /\ y.calls = 0
    BY <2>1, QuietLemma
  <2> HIDE DEF y
  <2>3. /\ Stage(y) = "open" /\ Limit(y) = MaxAttempts(y)
        /\ Outcome(y) = "none"
    BY <2>2, ViewLemma DEF Unpermitted, InFlight
  <2>4. Limit(y) \in {1, 1 + MaxRetries}
    BY <2>3 DEF MaxAttempts
  <2> QED
    BY <1>4, <1>5, <1>8, <2>2, <2>3, <2>4 DEF y, Submitted, CallStep
<1> QED
  BY <1>6, <1>7, <1>8

\* What execute() does on the way to the permission check.
LEMMA UnpermittedStep ==
    ASSUME Inv, NEW e \in Execs,
           Resolve(e) \/ InputRejected(e) \/ PermissionCheck(e)
    PROVE  CallStep(exec[e], exec'[e])
<1> DEFINE x == exec[e]
<1>1. x \in Execution /\ CallInv(x) /\ exec \in [Execs -> Execution]
  BY CallFacts DEF Inv, TypeOK
<1>2. \A y : Becomes(e, y) => exec'[e] = y
  BY <1>1 DEF Becomes
<1>3. x.pc \in {"requested", "validating"} /\ x.pc \in Unpermitted
  BY DEF Resolve, InputRejected, PermissionCheck, Unpermitted
<1>4. x.calls = 0 /\ ~x.timedOut
  BY <1>1, <1>3 DEF CallInv, Execution
<1>5. CASE Resolve(e) \/ InputRejected(e)
  <2> DEFINE v == [x EXCEPT !.status = "validating"]
             w == [x EXCEPT !.pc = "validating", !.status = "validating"]
  <2>1. /\ v \in Execution /\ v.calls = x.calls /\ v.tool = x.tool
        /\ ~v.timedOut
    BY <1>1, <1>4 DEF Execution, Statuses
  <2>2. w.pc \in Unpermitted /\ w.calls = x.calls /\ w.tool = x.tool
    BY <1>1 DEF Execution, Unpermitted
  <2>3. exec'[e] \in {Finish(x), Cancelled(v), w}
    BY <1>2, <1>5 DEF Resolve, InputRejected
  <2> HIDE DEF v, w
  <2>4. CASE exec'[e] = Finish(x)
    BY <1>1, <1>3, <1>4, <2>4, ClosesUnrunLemma
  <2>5. CASE exec'[e] = Cancelled(v)
    BY <1>3, <2>1, <2>5, ClosesUnrunLemma
  <2>6. CASE exec'[e] = w
    BY <1>3, <2>2, <2>6, StaysLemma
  <2> QED
    BY <2>3, <2>4, <2>5, <2>6
<1>6. CASE PermissionCheck(e)
  <2> DEFINE p == [x EXCEPT !.status = "permission_check"]
             q == [p EXCEPT !.pc = "m4"]
             y == [p EXCEPT !.decision = Decide(p.tool)]
             l == [y EXCEPT !.pc = "loop"]
             u == [y EXCEPT !.status = "awaiting_approval"]
             z == Emit(u, "permission_required")
             a == [z EXCEPT !.pc = "awaiting"]
  <2>1. /\ p \in Execution /\ p.calls = x.calls /\ p.tool = x.tool
        /\ ~p.timedOut
    BY <1>1, <1>4 DEF Execution, Statuses
  <2>2. q.pc \in Unpermitted /\ q.calls = x.calls /\ q.tool = x.tool
    BY <1>1 DEF Execution, Unpermitted
  <2>3. y \in Execution
    <3> HIDE DEF p
    <3> QED
      BY ZenonT(60), <2>1, CallFacts DEF Decide, Decisions, Execution, Inv, TypeOK
  <2>4. y.calls = x.calls /\ y.tool = x.tool /\ ~y.timedOut
    BY <2>1 DEF Execution
  <2>5. l.pc \in Permitted /\ l.calls = x.calls /\ l.tool = x.tool
    <3> HIDE DEF y
    <3> QED
      BY <2>3, <2>4 DEF Execution, Permitted
  <2>6. /\ u \in Execution /\ u.calls = x.calls /\ u.tool = x.tool
        /\ ~u.timedOut
    <3> HIDE DEF y
    <3> QED
      BY <2>3, <2>4 DEF Execution, Statuses
  <2>7. /\ z \in Execution /\ z.calls = x.calls /\ z.tool = x.tool
        /\ ~z.timedOut
    <3> HIDE DEF u
    <3>1. z \in Execution /\ z.calls = x.calls /\ z.tool = x.tool
      BY <2>6, EmitLemma, QuietLemma DEF Events
    <3>2. z = u \/ z = [u EXCEPT !.emitted = @ \cup {"permission_required"}]
      BY DEF Emit
    <3> QED
      BY <2>6, <3>1, <3>2 DEF Execution
  <2>8. a.pc \in Unpermitted /\ a.calls = x.calls /\ a.tool = x.tool
    <3> HIDE DEF z
    <3> QED
      BY <2>7 DEF Execution, Unpermitted
  <2>9. DecideM3(p) \in {Denied(y), l, a, Denied(z)}
    BY DEF DecideM3
  <2>10. exec'[e] \in {Cancelled(p), q, Denied(y), l, a, Denied(z)}
    <3>1. exec'[e] \in {Cancelled(p), q, DecideM3(p)}
      BY <1>2, <1>6 DEF PermissionCheck
    <3> HIDE DEF p, q, y, l, a, z
    <3> QED
      BY <2>9, <3>1
  <2> HIDE DEF p, q, y, l, u, z, a
  <2>11. CASE exec'[e] = Cancelled(p)
    BY <1>3, <2>1, <2>11, ClosesUnrunLemma
  <2>12. CASE exec'[e] = q
    BY <1>3, <2>2, <2>12, StaysLemma
  <2>13. CASE exec'[e] = Denied(y)
    BY <1>3, <2>3, <2>4, <2>13, ClosesUnrunLemma
  <2>14. CASE exec'[e] = l
    BY <1>3, <2>5, <2>14, PassesLemma
  <2>15. CASE exec'[e] = a
    BY <1>3, <2>8, <2>15, StaysLemma
  <2>16. CASE exec'[e] = Denied(z)
    BY <1>3, <2>7, <2>16, ClosesUnrunLemma
  <2> QED
    BY <2>10, <2>11, <2>12, <2>13, <2>14, <2>15, <2>16
<1> QED
  BY <1>5, <1>6

\* The answers of the M4 pipeline and of the host.
LEMMA AnswerStep ==
    ASSUME Inv, NEW e \in Execs,
           M4Answers(e) \/ UserAnswers(e) \/ PermissionThrows(e)
    PROVE  CallStep(exec[e], exec'[e])
<1> DEFINE x == exec[e]
<1>1. x \in Execution /\ CallInv(x) /\ exec \in [Execs -> Execution]
  BY CallFacts DEF Inv, TypeOK
<1>2. \A y : Becomes(e, y) => exec'[e] = y
  BY <1>1 DEF Becomes
<1>3. x.pc \in Unpermitted
  BY DEF M4Answers, M4Allows, M4Denies, UserAnswers, ApprovalAnswered,
     PermissionThrows, Unpermitted
<1>4. x.calls = 0 /\ ~x.timedOut
  BY <1>1, <1>3 DEF CallInv, Execution
<1>5. CASE M4Answers(e)
  <2> DEFINE a == [x EXCEPT !.decision = "allow", !.pc = "loop"]
             d == [x EXCEPT !.decision = "deny"]
             g == Emit(a, "permission_granted")
  <2>1. /\ a \in Execution /\ a.pc \in Permitted
        /\ a.calls = x.calls /\ a.tool = x.tool
    BY <1>1 DEF Execution, InFlight, Permitted, Granted
  <2>2. /\ d \in Execution /\ ~d.timedOut
        /\ d.calls = x.calls /\ d.tool = x.tool
    BY <1>1, <1>4 DEF Execution
  <2>3. exec'[e] \in {g, Denied(d)}
    BY <1>2, <1>5 DEF M4Answers, M4Allows, M4Denies
  <2> HIDE DEF a, d
  <2>4. g.pc \in Permitted /\ g.calls = x.calls /\ g.tool = x.tool
    BY <2>1, QuietLemma
  <2> HIDE DEF g
  <2>5. CASE exec'[e] = g
    BY <1>3, <2>4, <2>5, PassesLemma
  <2>6. CASE exec'[e] = Denied(d)
    BY <1>3, <2>2, <2>6, ClosesUnrunLemma
  <2> QED
    BY <2>3, <2>5, <2>6
<1>6. CASE UserAnswers(e)
  <2>1. PICK approved \in BOOLEAN, scope \in {"once", "session"} :
               ApprovalAnswered(e, approved, scope)
    BY <1>6 DEF UserAnswers
  <2> DEFINE d == IF scope = "session" THEN "approved_session"
                                       ELSE "approved_once"
             y == [x EXCEPT !.pc = "loop", !.decision = d]
  <2>2. y.pc \in Permitted /\ y.calls = x.calls /\ y.tool = x.tool
    BY <1>1 DEF Execution, Permitted
  <2>3. exec'[e] \in {Cancelled(x), y, Denied(x)}
    BY <1>2, <2>1 DEF ApprovalAnswered
  <2> HIDE DEF y
  <2>4. CASE exec'[e] = y
    BY <1>3, <2>2, <2>4, PassesLemma
  <2>5. CASE exec'[e] \in {Cancelled(x), Denied(x)}
    BY <1>1, <1>3, <1>4, <2>5, ClosesUnrunLemma
  <2> QED
    BY <2>3, <2>4, <2>5
<1>7. CASE PermissionThrows(e)
  <2>1. exec'[e] = Throw(x)
    BY <1>2, <1>7 DEF PermissionThrows
  <2> QED
    BY <1>1, <1>3, <1>4, <2>1, ClosesUnrunLemma
<1> QED
  BY <1>5, <1>6, <1>7

\* The retry loop: every attempt it starts is within the limit of the call.
LEMMA LoopStep ==
    ASSUME Inv, NEW e \in Execs,
           LoopHead(e) \/ BackoffEnds(e) \/ CallTool(e)
    PROVE  CallStep(exec[e], exec'[e])
<1> DEFINE x == exec[e]
<1>1. x \in Execution /\ CallInv(x) /\ exec \in [Execs -> Execution]
  BY CallFacts DEF Inv, TypeOK
<1>2. \A y : Becomes(e, y) => exec'[e] = y
  BY <1>1 DEF Becomes
<1>3. x.pc \in {"loop", "backoff", "starting"} /\ x.pc \in Permitted
  BY DEF LoopHead, BackoffEnds, CallTool, Permitted
<1>4. CASE LoopHead(e) \/ BackoffEnds(e)
  <2> DEFINE b == [x EXCEPT !.pc = "backoff"]
             r == [x EXCEPT !.pc = "starting", !.status = "running"]
             s == Emit(r, "started")
  <2>1. b.pc \in Permitted /\ b.calls = x.calls /\ b.tool = x.tool
    BY <1>1 DEF Execution, Permitted
  <2>2. /\ r \in Execution /\ r.pc \in Permitted
        /\ r.calls = x.calls /\ r.tool = x.tool
    BY <1>1 DEF Execution, InFlight, Permitted, Statuses
  <2>3. exec'[e] \in {Cancelled(x), b, s}
    BY <1>2, <1>4 DEF LoopHead, BackoffEnds
  <2> HIDE DEF b, r
  <2>4. s.pc \in Permitted /\ s.calls = x.calls /\ s.tool = x.tool
    BY <2>2, QuietLemma
  <2> HIDE DEF s
  <2>5. CASE exec'[e] \in {b, s}
    BY <1>3, <2>1, <2>4, <2>5, StaysLemma
  <2>6. CASE exec'[e] = Cancelled(x)
    BY <1>1, <1>3, <2>6, ClosesLemma
  <2> QED
    BY <2>3, <2>5, <2>6
<1>5. CASE CallTool(e)
  <2> DEFINE y == [x EXCEPT !.pc = "executing", !.armed = TRUE, !.calls = @ + 1]
  <2>1. exec'[e] = y
    BY <1>2, <1>5 DEF CallTool
  <2>2. y.pc \in Permitted /\ y.calls = x.calls + 1 /\ y.tool = x.tool
    BY <1>1 DEF Execution, Permitted
  <2> HIDE DEF y
  <2>3. x.calls < MaxAttempts(x)
    BY <1>1, <1>3, <1>5 DEF CallTool, CallInv
  <2>4. /\ Stage(x) = "permitted" /\ Stage(y) = "permitted"
        /\ Limit(x) = MaxAttempts(x) /\ Limit(y) = MaxAttempts(y)
        /\ Outcome(x) = "none" /\ Outcome(y) = "none"
    BY <1>3, <2>2, ViewLemma DEF InFlight
  <2>5. MaxAttempts(y) = MaxAttempts(x)
    BY <2>2 DEF MaxAttempts
  <2> QED
    BY <2>1, <2>2, <2>3, <2>4, <2>5 DEF RanOnce, CallStep
<1> QED
  BY <1>4, <1>5

\* The tool settles: the call is closed or goes round the loop again.
LEMMA SettlesStep ==
    ASSUME Inv, NEW e \in Execs, ToolSettles(e)
    PROVE  CallStep(exec[e], exec'[e])
<1> DEFINE x == exec[e]
           s == [x EXCEPT !.armed = FALSE]
           r == [s EXCEPT !.pc = "loop", !.attempt = @ + 1]
<1>1. x \in Execution /\ CallInv(x) /\ exec \in [Execs -> Execution]
  BY CallFacts DEF Inv, TypeOK
<1>2. \A y : Becomes(e, y) => exec'[e] = y
  BY <1>1 DEF Becomes
<1>3. s \in Execution /\ s.pc = x.pc /\ s.calls = x.calls /\ s.tool = x.tool
  BY <1>1 DEF Execution
<1>4. r.pc \in Permitted /\ r.calls = x.calls /\ r.tool = x.tool
  BY <1>1 DEF Execution, Permitted
<1>5. /\ x.pc = "executing"
      /\ exec'[e] \in {Finish(s), Cancelled(s), Settle(s, "completed"), r}
  BY <1>2, <1>3 DEF ToolSettles, ToolReturns, ToolThrows
<1>6. x.pc \in Permitted /\ x.calls > 0
  BY <1>1, <1>5 DEF Permitted, CallInv, Execution
<1> HIDE DEF s, r
<1>7. CASE exec'[e] = r
  BY <1>4, <1>6, <1>7, StaysLemma
<1>8. CASE exec'[e] = Cancelled(s)
  BY <1>3, <1>6, <1>8, ClosesLemma
<1>9. CASE exec'[e] \in {Finish(s), Settle(s, "completed")}
  BY <1>3, <1>6, <1>9, ClosesLemma
<1> QED
  BY <1>5, <1>7, <1>8, <1>9

\* Progress, a timer, cancel() and the caller's signal: nothing the contract
\* sees changes until execute() itself goes on.
LEMMA InterruptStep ==
    ASSUME Inv, NEW e \in Execs,
           \/ ReportProgress(e) \/ TimerFires(e) \/ Cancel(e) \/ CallerAborts(e)
    PROVE  CallStep(exec[e], exec'[e])
<1> DEFINE x == exec[e]
           t == [x EXCEPT !.armed = FALSE, !.timedOut = TRUE]
           c == [x EXCEPT !.caller = TRUE]
<1>1. x \in Execution /\ exec \in [Execs -> Execution]
  BY CallFacts DEF Inv, TypeOK
<1>2. \A y : Becomes(e, y) => exec'[e] = y
  BY <1>1 DEF Becomes
<1>3. /\ t \in Execution /\ t.pc = x.pc /\ t.status = x.status
      /\ t.calls = x.calls /\ t.tool = x.tool
  BY <1>1 DEF Execution
<1>4. /\ c \in Execution /\ c.pc = x.pc /\ c.status = x.status
      /\ c.calls = x.calls /\ c.tool = x.tool
  BY <1>1 DEF Execution
<1>5. exec'[e] \in {Emit(x, "progress"), Abort(t, "timeout"),
                    Abort(x, "cancel"), Abort(c, "caller")}
  BY <1>2 DEF ReportProgress, TimerFires, Cancel, CallerAborts
<1> HIDE DEF t, c
<1>6. /\ exec'[e].pc = x.pc /\ exec'[e].status = x.status
      /\ exec'[e].calls = x.calls /\ exec'[e].tool = x.tool
  BY <1>1, <1>3, <1>4, <1>5, QuietLemma
<1> QED
  BY <1>6, StaysLemma

LEMMA ExecutingStep ==
    ASSUME Inv, NEW e \in Execs, Executing(e)
    PROVE  CallStep(exec[e], exec'[e])
  BY CallsStep, UnpermittedStep, AnswerStep, LoopStep, SettlesStep,
     InterruptStep DEF Executing, Runs

\* dispose() only aborts: the calls it reaches close in steps of their own.
LEMMA DisposeIsQuiet ==
    ASSUME Inv, Dispose, NEW e \in Execs
    PROVE  /\ exec'[e].pc = exec[e].pc /\ exec'[e].status = exec[e].status
           /\ exec'[e].calls = exec[e].calls /\ exec'[e].tool = exec[e].tool
<1> DEFINE y == [exec[e] EXCEPT !.armed = FALSE]
<1>1. /\ y \in Execution /\ y.pc = exec[e].pc /\ y.status = exec[e].status
      /\ y.calls = exec[e].calls /\ y.tool = exec[e].tool
  BY CallFacts DEF Execution
<1>2. exec'[e] \in {Abort(y, "dispose"), exec[e]}
  BY DEF Dispose
<1> HIDE DEF y
<1> QED
  BY <1>1, <1>2, QuietLemma

\* A step of one call changes that call alone.
LEMMA OneCallMoves ==
    ASSUME Inv, NEW e \in Execs, Executing(e)
    PROVE  exec' = [exec EXCEPT ![e] = exec'[e]]
<1>1. (\E y : Becomes(e, y)) \/ (\E y : exec' = [exec EXCEPT ![e] = y])
  BY DEF Executing, Calls, Execute, Runs, Resolve, InputRejected,
     PermissionCheck, LoopHead, BackoffEnds, CallTool, M4Answers, M4Allows,
     M4Denies, UserAnswers, ApprovalAnswered, PermissionThrows,
     ToolSettles, ToolReturns, ToolThrows, ReportProgress, TimerFires,
     Cancel, CallerAborts
<1> QED
  BY <1>1 DEF Becomes, Inv, TypeOK

\* Every step of the executor is a step of the contract or a stutter.
LEMMA NextRefines ==
    ASSUME Inv, [Next]_vars
    PROVE  [Contract!CNext]_(Contract!cvars)
<1>1. exec \in [Execs -> Execution]
  BY DEF Inv, TypeOK
<1>2. CASE \E e \in Execs : Executing(e)
  <2>1. PICK e \in Execs : Executing(e)
    BY <1>2
  <2>2. exec' = [exec EXCEPT ![e] = exec'[e]]
    BY <2>1, OneCallMoves
  <2>3. CallStep(exec[e], exec'[e])
    BY <2>1, ExecutingStep
  <2> QED
    BY <1>1, <2>2, <2>3, CallStepIsContractStep
<1>3. CASE Dispose
  <2>1. exec' = [e \in Execs |-> exec'[e]]
    BY <1>3 DEF Dispose
  <2>2. \A e \in Execs :
          /\ exec'[e].pc = exec[e].pc /\ exec'[e].status = exec[e].status
          /\ exec'[e].calls = exec[e].calls /\ exec'[e].tool = exec[e].tool
    BY <1>3, DisposeIsQuiet
  <2>3. UNCHANGED Contract!cvars
    <3>1. \A e \in Execs : Stage(exec'[e]) = Stage(exec[e])
      BY <2>2 DEF Stage
    <3>2. UNCHANGED [e \in Execs |-> Stage(exec[e])]
      BY <3>1
    <3>3. UNCHANGED [e \in Execs |-> IF exec[e].pc \in {"idle", "refused"} THEN 0
                                     ELSE MaxAttempts(exec[e])]
      BY <2>2 DEF MaxAttempts
    <3>4. UNCHANGED [e \in Execs |-> exec[e].calls]
      BY <2>2
    <3>5. UNCHANGED [e \in Execs |-> IF exec[e].pc \in {"returned", "refused"}
                                     THEN exec[e].status ELSE "none"]
      BY <2>2
    <3> QED
      BY <3>2, <3>3, <3>4, <3>5 DEF Contract!cvars
  <2> QED
    BY <2>3
<1>4. CASE Configuring \/ UNCHANGED vars
  <2>1. exec' = exec
    BY <1>4 DEF Configuring, SetEnabled, SetPolicy, ResetSession, vars
  <2> QED
    BY <2>1 DEF Contract!cvars
<1> QED
  BY <1>2, <1>3, <1>4 DEF Next

\* Seen through Stage, the limit, the runs and the outcome of its calls, every
\* behaviour of execute() is one of ToolContract: a call is permitted before
\* its tool runs, the tool runs no more often than its declaration allows, and
\* the call closes once, with an outcome that never changes.
THEOREM Implements == Spec => ImplementsContract
<1>1. Init => Contract!CInit
  <2> SUFFICES ASSUME Init PROVE Contract!CInit
    OBVIOUS
  <2> DEFINE b == Blank(CHOOSE t \in Tools : TRUE)
  <2>1. b.pc = "idle" /\ b.calls = 0
    BY DEF Blank
  <2>2. \A e \in Execs : exec[e] = b
    BY DEF Init
  <2> HIDE DEF b
  <2>3. Stage(b) = "new"
    BY <2>1, ViewLemma
  <2>4. [e \in Execs |-> Stage(exec[e])] = [e \in Execs |-> "new"]
    BY <2>2, <2>3
  <2> QED
    BY <2>1, <2>2, <2>4 DEF Contract!CInit
<1>2. Inv /\ [Next]_vars => [Contract!CNext]_(Contract!cvars)
  BY NextRefines
<1> QED
  BY <1>1, <1>2, SpecInv, PTL DEF Spec, ImplementsContract, Contract!CSpec

\* What execute() has answered is final: however late its tool returns, its
\* timer fires, or somebody cancels, a call that has settled is not run again,
\* and its outcome does not change.
Settled ==
    \A e \in Execs : exec[e].pc \in Closed =>
        /\ exec'[e].pc \in Closed
        /\ exec'[e].calls = exec[e].calls
        /\ Outcome(exec'[e]) = Outcome(exec[e])

FinalOnceSettled == [][Settled]_vars

THEOREM SettledIsFinal == Spec => FinalOnceSettled
<1>1. Inv /\ Inv' /\ [Next]_vars => Settled
  <2> SUFFICES ASSUME Inv, Inv', [Next]_vars,
                      NEW e \in Execs, exec[e].pc \in Closed
               PROVE  /\ exec'[e].pc \in Closed
                      /\ exec'[e].calls = exec[e].calls
                      /\ Outcome(exec'[e]) = Outcome(exec[e])
    BY DEF Settled
  <2> DEFINE x == exec[e]
             y == exec'[e]
  <2>1. CallStep(x, y)
    <3>1. ASSUME NEW f \in Execs, Executing(f), f # e PROVE CallStep(x, y)
      <4>1. y = x
        BY <3>1, OneCallMoves DEF Inv, TypeOK
      <4> QED
        BY <4>1, StaysLemma
    <3>2. CASE Executing(e)
      BY <3>2, ExecutingStep
    <3>3. CASE Dispose
      BY <3>3, DisposeIsQuiet, StaysLemma
    <3>4. CASE Configuring \/ UNCHANGED vars
      <4>1. y = x
        BY <3>4 DEF Configuring, SetEnabled, SetPolicy, ResetSession, vars
      <4> QED
        BY <4>1, StaysLemma
    <3> QED
      BY <3>1, <3>2, <3>3, <3>4 DEF Next
  <2>2. Stage(x) = "closed"
    BY ViewLemma
  <2>3. View(y) = View(x)
    BY <2>1, <2>2 DEF CallStep, Submitted, PermittedTo, RanOnce, ClosedUnrun,
       ClosedPermitted
  <2>4. y.calls = x.calls /\ Outcome(y) = Outcome(x) /\ Stage(y) = "closed"
    BY <2>2, <2>3 DEF View
  <2>5. y.pc \in {"idle"} \cup InFlight \cup Closed
    BY DEF Inv, TypeOK, Execution
  <2>6. y.pc \in Closed
    BY <2>4, <2>5, ViewLemma DEF InFlight
  <2> QED
    BY <2>4, <2>6
<1> QED
  BY <1>1, SpecInv, PTL DEF Spec, FinalOnceSettled
=============================================================================
