----------------------------- MODULE TeamProofs -----------------------------
(* Proofs about the teams, for any roles, claims, runs and hosts: that one       *)
(* execute() of Orchestrator settles its tasks, keeps their files apart and can   *)
(* be stopped; and that the run of Team that may still write the record is the    *)
(* one in the slot while no command comes in the middle of a start.              *)
EXTENDS Orchestrator, Team, TLAPS, WellFoundedInduction


---------------------------------------------------------------------------
\* The order of the DAG.

\* The provers have no induction over tasks: a claim that fails for some task
\* fails for a smallest one.
LEMMA SmallestTask ==
  ASSUME NEW S, S \subseteq Tasks, S # {}
  PROVE  \E m \in S : \A x \in S : m <= x
<1> DEFINE Less == OpToRel(<, Nat)
<1>0. S \subseteq Nat
  BY OrchestratorConstants DEF Tasks
<1>1. \E m \in S : \A y \in S : ~(<<y, m>> \in Less)
  <2>1. IsWellFoundedOn(Less, Nat)
    BY NatLessThanWellFounded
  <2> HIDE DEF Less
  <2> QED BY <1>0, <2>1, WFMin
<1>2. \A a, b \in Nat : a < b => <<a, b>> \in Less
  BY DEF OpToRel
<1>3. \A a, b \in Nat : ~(a < b) => b <= a
  OBVIOUS
<1> HIDE DEF Less
<1> QED BY <1>0, <1>1, <1>2, <1>3

\* buildFromRoles() only depends backwards.
LEMMA DependenciesBefore ==
  ASSUME NEW t \in Tasks
  PROVE  Dependencies[t] \subseteq {d \in Tasks : d < t}
<1>1. Len(Roles) \in Nat
  BY OrchestratorConstants
<1>2. CASE IsComplex
  BY <1>1, <1>2, OrchestratorConstants DEF Dependencies, Prefix, Tasks
<1>3. CASE ~IsComplex
  BY <1>1, <1>3 DEF Dependencies, Tasks
<1> QED BY <1>2, <1>3

\* g is Upstream on the first n tasks.
Solves(g, n) ==
    g = [t \in 1..n |-> Dependencies[t] \cup UNION {g[d] : d \in Dependencies[t]}]

\* The recursion of Upstream has a solution, one task after the other ...
LEMMA UpstreamExists == \E g : Solves(g, Len(Roles))
<1>1. Len(Roles) \in Nat
  BY OrchestratorConstants
<1> DEFINE Bad == {n \in Tasks : ~\E g : Solves(g, n)}
<1>2. CASE Bad = {}
  <2>1. CASE Len(Roles) = 0
    <3>1. Solves([t \in {} |-> {}], 0)
      BY DEF Solves
    <3> QED BY <2>1, <3>1
  <2>2. CASE Len(Roles) # 0
    BY <1>1, <1>2, <2>2 DEF Tasks
  <2> QED BY <2>1, <2>2
<1>3. CASE Bad # {}
  <2>1. PICK n \in Bad : \A x \in Bad : n <= x
    BY <1>3, SmallestTask
  <2>2. n \in Tasks /\ n \in Nat /\ n > 0 /\ n - 1 \in Nat
    BY <1>1, <2>1 DEF Tasks
  <2>3. PICK g : Solves(g, n - 1)
    <3>1. CASE n = 1
      <4>1. Solves([t \in {} |-> {}], 0)
        BY DEF Solves
      <4> QED BY <3>1, <4>1
    <3>2. CASE n # 1
      <4>1. n - 1 \in Tasks /\ n - 1 \notin Bad
        BY <1>1, <2>1, <2>2, <3>2 DEF Tasks
      <4> QED BY <4>1
    <3> QED BY <3>1, <3>2
  <2> DEFINE h == [t \in 1..n |-> IF t = n
                     THEN Dependencies[n] \cup UNION {g[d] : d \in Dependencies[n]}
                     ELSE g[t]]
  <2>4. \A t \in 1..n : \A d \in Dependencies[t] : d \in 1..(n - 1) /\ h[d] = g[d]
    <3>1. 1..n \subseteq Tasks
      BY <1>1, <2>2 DEF Tasks
    <3> SUFFICES ASSUME NEW t \in 1..n, NEW d \in Dependencies[t]
                 PROVE  d \in 1..(n - 1) /\ h[d] = g[d]
      OBVIOUS
    <3>2. d \in Tasks /\ d < t
      BY <3>1, DependenciesBefore
    <3> QED BY <1>1, <2>2, <3>2 DEF Tasks
  <2>5. ASSUME NEW t \in 1..n
        PROVE  h[t] = Dependencies[t] \cup UNION {h[d] : d \in Dependencies[t]}
    <3>1. {h[d] : d \in Dependencies[t]} = {g[d] : d \in Dependencies[t]}
      <4> HIDE DEF h
      <4> QED BY <2>4
    <3>2. CASE t = n
      BY <3>1, <3>2
    <3>3. CASE t # n
      <4>1. t \in 1..(n - 1)
        BY <2>2, <3>3
      <4>2. h[t] = g[t]
        BY <3>3
      <4> HIDE DEF h
      <4>3. g[t] = Dependencies[t] \cup UNION {g[d] : d \in Dependencies[t]}
        BY <2>3, <4>1 DEF Solves
      <4> QED BY <3>1, <4>2, <4>3
    <3> QED BY <3>2, <3>3
  <2>6. Solves(h, n)
    <3>1. h = [t \in 1..n |-> h[t]]
      OBVIOUS
    <3> HIDE DEF h
    <3> QED BY <2>5, <3>1 DEF Solves
  <2> HIDE DEF h
  <2> QED BY <2>1, <2>6
<1> QED BY <1>2, <1>3

\* ... so that Upstream, which is chosen among the solutions, is one.
LEMMA UpstreamEquation ==
  ASSUME NEW t \in Tasks
  PROVE  Upstream[t] = Dependencies[t] \cup UNION {Upstream[d] : d \in Dependencies[t]}
<1> DEFINE P(g) == Solves(g, Len(Roles))
<1>1. Upstream = CHOOSE g : P(g)
  BY DEF Upstream, Solves, Tasks
<1>2. P(CHOOSE g : P(g))
  <2> HIDE DEF P
  <2>1. \E g : P(g)
    BY UpstreamExists DEF P
  <2> QED BY <2>1
<1>3. Solves(Upstream, Len(Roles))
  <2> HIDE DEF P
  <2>1. P(Upstream)
    BY <1>1, <1>2
  <2> QED BY <2>1 DEF P
<1> QED BY <1>3 DEF Solves, Tasks

LEMMA UpstreamFacts ==
  ASSUME NEW t \in Tasks
  PROVE  /\ Dependencies[t] \subseteq Upstream[t]
         /\ \A d \in Dependencies[t] : Upstream[d] \subseteq Upstream[t]
         /\ \A u \in Upstream[t] : u \in Dependencies[t]
                                   \/ \E d \in Dependencies[t] : u \in Upstream[d]
BY UpstreamEquation

LEMMA UpstreamBefore ==
  ASSUME NEW t \in Tasks
  PROVE  Upstream[t] \subseteq {d \in Tasks : d < t}
<1> DEFINE Bad == {x \in Tasks : ~(Upstream[x] \subseteq {d \in Tasks : d < x})}
<1>1. SUFFICES ASSUME Bad # {} PROVE FALSE
  OBVIOUS
<1>2. PICK x \in Bad : \A y \in Bad : x <= y
  BY <1>1, SmallestTask
<1>3. Tasks \subseteq Nat
  BY OrchestratorConstants DEF Tasks
<1>4. \A d \in Dependencies[x] : d \in Tasks /\ d < x /\ Upstream[d] \subseteq {e \in Tasks : e < d}
  <2> SUFFICES ASSUME NEW d \in Dependencies[x]
               PROVE  d \in Tasks /\ d < x /\ Upstream[d] \subseteq {e \in Tasks : e < d}
    OBVIOUS
  <2>1. d \in Tasks /\ d < x
    BY DependenciesBefore
  <2>2. d \notin Bad
    <3> HIDE DEF Bad
    <3>1. x \in Tasks
      BY DEF Bad
    <3> QED BY <1>2, <1>3, <2>1, <3>1
  <2> QED BY <2>1, <2>2
<1> QED BY <1>2, <1>3, <1>4, UpstreamFacts

---------------------------------------------------------------------------
\* The agents: the map holds first attempts only, and they belong to tasks whose
\* executeTask() has not settled.
Agenda ==
    /\ \A t \in Tasks : activeAgents[t] # 0 =>
          activeAgents[t] = 1 /\ t \in executing /\ retryCount[t] = 0
    /\ \A t \in executing : status[t] \in {"running", "cancelled"}
    /\ \A t \in Tasks : status[t] = "running" => t \in executing \/ disposed
    /\ \A t \in Tasks : status[t] = "pending" => retryCount[t] = 0
    /\ phase # "running" => executing = {}

\* Who was told, or cancelled, without a cancellation of the team?
Cancelling ==
    /\ ~aborted => \A a \in told : a[2] = 1 /\ retryCount[a[1]] = 1
    /\ \A t \in Tasks : status[t] = "cancelled" => aborted
    /\ listening => ~aborted
    /\ disposed => aborted
    /\ phase = "rejected" => disposed
    /\ aborted => InMap = {}

\* What has run had its dependencies; what a failure reaches does not wait; what is
\* blocked was reached by one.
Ordered ==
    /\ \A t \in Tasks : t \in executing \/ status[t] \in {"running", "completed", "failed"}
          => \A d \in Dependencies[t] : status[d] = "completed"
    /\ \A t, q \in Tasks : status[t] = "failed" /\ t \in Upstream[q] => status[q] # "pending"
    /\ \A q \in Tasks : status[q] = "blocked" => \E t \in Upstream[q] : status[t] = "failed"

Holding == \A t \in heldLocks : status[t] = "running"

DAGInv == TypeOK /\ Agenda /\ Cancelling /\ Ordered

---------------------------------------------------------------------------
\* How a step settles a task: it is released unseen after dispose(), retried, or
\* ends with the statuses S.

Released(t) ==
    /\ disposed
    /\ executing' = executing \ {t}
    /\ UNCHANGED <<status, retryCount, activeAgents, heldLocks, conflicts>>

Retried(t) ==
    /\ ~disposed /\ retryCount[t] = 0
    /\ retryCount' = [retryCount EXCEPT ![t] = 1]
    /\ status' = [status EXCEPT ![t] = "running"]
    /\ activeAgents' = [activeAgents EXCEPT ![t] = 0]
    /\ Locks(status')
    /\ UNCHANGED executing

Concluded(t) ==
    /\ ~disposed
    /\ \E S \in {[status EXCEPT ![t] = "completed"], FailedBy(t)}
          \cup (IF aborted THEN {[status EXCEPT ![t] = "cancelled"]} ELSE {}) : Settled(t, S)

\* What the agents of t did meanwhile: its current agent has ended, or was told.
AgentsOf(t) ==
    /\ t \in executing
    /\ working' \subseteq working \cup {<<t, 2>>}
    /\ \/ told' = told
       \/ activeAgents[t] # 0 /\ Retried(t) /\ told' = told \cup {<<t, activeAgents[t]>>}
    /\ \/ Current(t) \notin working' \ told'
       \/ activeAgents[t] # 0 /\ <<t, activeAgents[t]>> \in told'
       \/ activeAgents[t] = 0
    /\ UNCHANGED <<aborted, disposed, phase, outcome, listening>>

Attempt(t) == AgentsOf(t) /\ (Released(t) \/ Retried(t) \/ Concluded(t))

LEMMA TellsOnce ==
  ASSUME DAGInv, NEW t \in Tasks, Current(t) \in told
  PROVE  aborted
BY DEF DAGInv, Cancelling, Current, TypeOK

LEMMA Attempts ==
  ASSUME DAGInv, NEW t \in Tasks, Completes(t) \/ Fails(t) \/ Aborts(t) \/ TimesOut(t)
  PROVE  Attempt(t)
<1>0. retryCount[t] \in 0..1 /\ activeAgents[t] \in 0..2 /\ status \in [Tasks -> TaskStatus]
  BY DEF DAGInv, TypeOK
<1>1. Catch(t) => Released(t) \/ Retried(t) \/ Concluded(t)
  <2>1. CASE disposed
    BY <2>1 DEF Catch, Released
  <2>2. CASE ~disposed /\ retryCount[t] = 0
    BY <2>2 DEF Catch, Retried
  <2>3. CASE ~disposed /\ retryCount[t] = 1
    BY <2>3 DEF Catch, Concluded
  <2> QED BY <1>0, <2>1, <2>2, <2>3
<1>2. Retry(t) \subseteq {<<t, 2>>}
  BY DEF Retry
<1>3. CASE Completes(t)
  <2>1. AgentsOf(t)
    BY <1>3 DEF Completes, AgentsOf
  <2>2. Released(t) \/ Retried(t) \/ Concluded(t)
    BY <1>1, <1>3 DEF Completes, Concluded
  <2> QED BY <2>1, <2>2 DEF Attempt
<1>4. CASE Fails(t)
  <2>1. Retry(t) # {} => Current(t) = <<t, 1>>
    BY <1>0 DEF Retry, Current
  <2>2. AgentsOf(t)
    BY <1>2, <1>4, <2>1 DEF Fails, AgentsOf, Current
  <2> QED BY <1>1, <1>4, <2>2 DEF Attempt, Fails
<1>5. CASE Aborts(t)
  <2>1. aborted
    BY <1>5, TellsOnce DEF Aborts
  <2>2. AgentsOf(t)
    BY <1>5 DEF Aborts, AgentsOf
  <2>3. Released(t) \/ Retried(t) \/ Concluded(t)
    BY <1>1, <1>5, <2>1 DEF Aborts, Concluded
  <2> QED BY <2>2, <2>3 DEF Attempt
<1>6. CASE TimesOut(t)
  <2>1. activeAgents[t] # 0 => Retried(t)
    <3>1. activeAgents[t] # 0 => ~disposed /\ retryCount[t] = 0
      BY DEF DAGInv, Agenda, Cancelling, InMap
    <3>2. Catch(t)
      BY <1>6 DEF TimesOut
    <3>3. ~disposed /\ retryCount[t] = 0 => Retried(t)
      BY <3>2 DEF Catch, Retried
    <3> QED BY <3>1, <3>3
  <2>2. AgentsOf(t)
    BY <1>2, <1>6, <2>1 DEF TimesOut, AgentsOf
  <2> QED BY <1>1, <1>6, <2>2 DEF Attempt, TimesOut
<1> QED BY <1>3, <1>4, <1>5, <1>6

---------------------------------------------------------------------------
\* Types of an execution.

LEMMA FailedByTyped ==
  ASSUME NEW t \in Tasks, status \in [Tasks -> TaskStatus]
  PROVE  FailedBy(t) \in [Tasks -> TaskStatus]
BY DEF FailedBy, TaskStatus

LEMMA LocksTyped ==
  ASSUME heldLocks \subseteq Tasks, conflicts \subseteq Tasks, NEW S, Locks(S)
  PROVE  heldLocks' \subseteq Tasks /\ conflicts' \subseteq Tasks
BY DEF Locks

LEMMA OutcomeTyped ==
  ASSUME NEW S PROVE Outcome(S) \in {"none", "COMPLETED", "FAILED", "CANCELLED", "BLOCKED"}
BY DEF Outcome

LEMMA AttemptTypes ==
  ASSUME TypeOK, NEW t \in Tasks, Attempt(t) PROVE TypeOK'
<1>1. working' \subseteq Agents /\ told' \subseteq Agents
  <2>1. activeAgents[t] # 0 => activeAgents[t] \in {1, 2}
    BY DEF TypeOK
  <2> QED BY <2>1 DEF TypeOK, Attempt, AgentsOf, Agents
<1>2. UNCHANGED <<aborted, disposed, phase, outcome, listening>>
  BY DEF Attempt, AgentsOf
<1>3. /\ status' \in [Tasks -> TaskStatus] /\ retryCount' \in [Tasks -> 0..1]
      /\ executing' \subseteq Tasks /\ activeAgents' \in [Tasks -> 0..2]
      /\ heldLocks' \subseteq Tasks /\ conflicts' \subseteq Tasks
  <2>1. CASE Released(t)
    BY <2>1 DEF TypeOK, Released
  <2>2. CASE Retried(t)
    BY <2>2, LocksTyped DEF TypeOK, Retried, TaskStatus
  <2>3. CASE Concluded(t)
    <3>1. PICK S : S \in [Tasks -> TaskStatus] /\ Settled(t, S)
      <4>1. FailedBy(t) \in [Tasks -> TaskStatus]
        BY FailedByTyped DEF TypeOK
      <4>2. /\ [status EXCEPT ![t] = "completed"] \in [Tasks -> TaskStatus]
            /\ [status EXCEPT ![t] = "cancelled"] \in [Tasks -> TaskStatus]
        BY DEF TypeOK, TaskStatus
      <4> QED BY <2>3, <4>1, <4>2 DEF Concluded
    <3> QED BY <3>1, LocksTyped DEF TypeOK, Settled
  <2> QED BY <2>1, <2>2, <2>3 DEF Attempt
<1> QED BY <1>1, <1>2, <1>3 DEF TypeOK

LEMMA LoopTypes ==
  ASSUME TypeOK, Loop PROVE TypeOK'
<1>1. CASE disposed
  BY <1>1 DEF TypeOK, Loop
<1>2. ASSUME ~disposed, NEW S, S \in [Tasks -> TaskStatus], End(S) PROVE TypeOK'
  BY <1>2, LocksTyped, OutcomeTyped DEF TypeOK, Loop, End
<1>3. ASSUME ~disposed, NEW batch \in SUBSET Tasks, Launch(batch) PROVE TypeOK'
  <2>1. working' \subseteq Agents
    BY <1>3 DEF TypeOK, Launch, Agents
  <2>2. status' \in [Tasks -> TaskStatus] /\ activeAgents' \in [Tasks -> 0..2]
    BY <1>3 DEF TypeOK, Launch, TaskStatus
  <2> QED BY <1>3, <2>1, <2>2, LocksTyped DEF TypeOK, Loop, Launch
<1>4. [t \in Tasks |-> IF aborted /\ ~IsComplete /\ status[t] = "pending"
                       THEN "cancelled" ELSE status[t]] \in [Tasks -> TaskStatus]
  BY DEF TypeOK, TaskStatus
<1> QED BY <1>1, <1>2, <1>3, <1>4 DEF Loop

LEMMA CancelTypes ==
  ASSUME TypeOK, CancelAgents, disposed' \in BOOLEAN PROVE TypeOK'
<1>1. told' \subseteq Agents
  <2>1. \A t \in InMap : activeAgents[t] \in {1, 2}
    BY DEF TypeOK, InMap
  <2> QED BY <2>1 DEF TypeOK, CancelAgents, Agents, InMap
<1>2. status' \in [Tasks -> TaskStatus] /\ activeAgents' \in [Tasks -> 0..2]
  BY DEF TypeOK, CancelAgents, TaskStatus
<1> QED BY <1>1, <1>2 DEF TypeOK, CancelAgents

LEMMA Steps ==
  ASSUME DAGInv, Next
  PROVE  \/ Loop
         \/ \E t \in Tasks : Attempt(t)
         \/ \E a \in Agents : EndsUnheard(a)
         \/ CancelAgents /\ disposed' \in {TRUE, disposed}
BY Attempts DEF Next, Cancel, Dispose

LEMMA DAGTypeStep ==
  ASSUME DAGInv, [Next]_vars PROVE TypeOK'
<1>1. CASE UNCHANGED vars
  BY <1>1 DEF DAGInv, TypeOK, vars
<1>2. ASSUME NEW a \in Agents, EndsUnheard(a) PROVE TypeOK'
  BY <1>2 DEF DAGInv, TypeOK, EndsUnheard
<1>3. CASE CancelAgents /\ disposed' \in {TRUE, disposed}
  <2>1. disposed' \in BOOLEAN
    BY <1>3 DEF DAGInv, TypeOK
  <2> QED BY <1>3, <2>1, CancelTypes DEF DAGInv
<1> QED BY <1>1, <1>2, <1>3, Steps, LoopTypes, AttemptTypes DEF DAGInv

---------------------------------------------------------------------------
\* What a step does to the statuses, case by case.

\* In every attempt only t and tasks that wait change their status.
LEMMA ConcludedStatus ==
  ASSUME DAGInv, NEW t \in Tasks, t \in executing, Concluded(t)
  PROVE  /\ status' \in [Tasks -> TaskStatus]
         /\ status'[t] \in {"completed", "failed", "cancelled"}
         /\ status'[t] = "cancelled" => aborted
         /\ status'[t] = "failed" => \A q \in Tasks : t \in Upstream[q] => status'[q] # "pending"
         /\ \A q \in Tasks \ {t} : status'[q] # status[q] =>
               /\ status[q] = "pending" /\ status'[q] = "blocked"
               /\ status'[t] = "failed" /\ t \in Upstream[q]
         /\ executing' = executing \ {t}
         /\ activeAgents' = [activeAgents EXCEPT ![t] = 0]
         /\ retryCount' = retryCount /\ Locks(status')
<1>0. status \in [Tasks -> TaskStatus]
  BY DEF DAGInv, TypeOK
<1>1. PICK S \in {[status EXCEPT ![t] = "completed"], FailedBy(t)}
          \cup (IF aborted THEN {[status EXCEPT ![t] = "cancelled"]} ELSE {}) : Settled(t, S)
  BY DEF Concluded
<1>2. /\ status' = S /\ executing' = executing \ {t}
      /\ activeAgents' = [activeAgents EXCEPT ![t] = 0]
      /\ retryCount' = retryCount /\ Locks(status')
  BY <1>1 DEF Settled
<1>3. status[t] # "pending"
  BY DEF DAGInv, Agenda
<1>4. CASE S = FailedBy(t)
  <2>1. \A q \in Tasks : S[q] = IF q = t THEN "failed"
                     ELSE IF t \in Upstream[q] /\ status[q] = "pending" THEN "blocked"
                     ELSE status[q]
    BY <1>4 DEF FailedBy
  <2>2. S \in [Tasks -> TaskStatus]
    BY <1>0, <1>4, FailedByTyped
  <2> QED BY <1>2, <1>3, <2>1, <2>2
<1>5. CASE S = [status EXCEPT ![t] = "completed"]
  BY <1>0, <1>2, <1>5 DEF TaskStatus
<1>6. CASE aborted /\ S = [status EXCEPT ![t] = "cancelled"]
  BY <1>0, <1>2, <1>6 DEF TaskStatus
<1> QED BY <1>1, <1>4, <1>5, <1>6

LEMMA RetriedStatus ==
  ASSUME DAGInv, NEW t \in Tasks, t \in executing, Retried(t)
  PROVE  /\ status'[t] = "running" /\ status[t] \in {"running", "cancelled"}
         /\ \A q \in Tasks \ {t} : status'[q] = status[q]
         /\ ~aborted => status' = status
BY DEF DAGInv, TypeOK, Agenda, Cancelling, Retried

\* The end of the loop: what waits is cancelled if the team is.
Ends == \E S : /\ executing = {} /\ phase = "running" /\ ~disposed
               /\ S = [t \in Tasks |-> IF aborted /\ ~IsComplete /\ status[t] = "pending"
                                       THEN "cancelled" ELSE status[t]]
               /\ IsComplete \/ aborted \/ {t \in Tasks : Ready(t)} = {}
               /\ End(S)
               /\ UNCHANGED <<aborted, disposed, listening>>

Launches == \E batch \in SUBSET {t \in Tasks : Ready(t)} :
               /\ executing = {} /\ phase = "running" /\ ~disposed /\ ~aborted
               /\ Launch(batch)
               /\ UNCHANGED <<aborted, disposed, listening>>

Rejects == /\ disposed /\ phase' = "rejected" /\ executing = {}
           /\ UNCHANGED <<status, retryCount, executing, working, told, activeAgents,
                          outcome, heldLocks, conflicts, aborted, disposed, listening>>

LEMMA Loops == Loop => Ends \/ Launches \/ Rejects
<1> SUFFICES ASSUME Loop PROVE Ends \/ Launches \/ Rejects
  OBVIOUS
<1> DEFINE ready == {t \in Tasks : Ready(t)}
           batch == {t \in ready : Cardinality({q \in ready : q < t}) < MaxConcurrency}
<1>1. CASE disposed
  BY <1>1 DEF Loop, Rejects
<1>2. CASE ~disposed /\ (IsComplete \/ aborted \/ ready = {})
  BY <1>2 DEF Loop, Ends
<1>3. CASE ~disposed /\ ~(IsComplete \/ aborted \/ ready = {})
  <2>1. Launch(batch) /\ batch \in SUBSET {t \in Tasks : Ready(t)}
    BY <1>3 DEF Loop
  <2> HIDE DEF batch
  <2> QED BY <1>3, <2>1 DEF Loop, Launches
<1> QED BY <1>1, <1>2, <1>3

---------------------------------------------------------------------------
LEMMA AgendaAttempt ==
  ASSUME DAGInv, NEW t \in Tasks, Attempt(t) PROVE Agenda'
<1>0. t \in executing /\ UNCHANGED <<aborted, disposed, phase>>
      /\ activeAgents \in [Tasks -> 0..2] /\ retryCount \in [Tasks -> 0..1]
  BY DEF Attempt, AgentsOf, DAGInv, TypeOK
<1>1. CASE Released(t)
  <2>1. \A q \in Tasks : activeAgents[q] = 0
    BY <1>1 DEF DAGInv, Cancelling, InMap, Released
  <2> QED BY <1>0, <1>1, <2>1 DEF DAGInv, Agenda, Released
<1>2. CASE Retried(t)
  BY <1>0, <1>2, RetriedStatus DEF DAGInv, Agenda, Retried
<1>3. CASE Concluded(t)
  <2>1. \A q \in Tasks : status'[q] \in {"running", "pending"} => q # t /\ status'[q] = status[q]
    BY <1>0, <1>3, ConcludedStatus
  <2>2. \A q \in executing' : q # t /\ status'[q] = status[q]
    BY <1>0, <1>3, ConcludedStatus DEF DAGInv, TypeOK, Agenda
  <2>3. executing' = executing \ {t} /\ retryCount' = retryCount
        /\ activeAgents' = [activeAgents EXCEPT ![t] = 0]
    BY <1>0, <1>3, ConcludedStatus
  <2> QED BY <1>0, <2>1, <2>2, <2>3 DEF DAGInv, Agenda
<1> QED BY <1>1, <1>2, <1>3 DEF Attempt

LEMMA AgendaStep ==
  ASSUME DAGInv, [Next]_vars PROVE Agenda'
<1>1. CASE UNCHANGED vars
  BY <1>1 DEF DAGInv, Agenda, vars
<1>2. ASSUME NEW a \in Agents, EndsUnheard(a) PROVE Agenda'
  BY <1>2 DEF DAGInv, Agenda, EndsUnheard
<1>3. CASE CancelAgents /\ disposed' \in {TRUE, disposed}
  <2>1. \A t \in Tasks : status'[t] = IF activeAgents[t] # 0 THEN "cancelled" ELSE status[t]
    BY <1>3 DEF CancelAgents, InMap
  <2> QED BY <1>3, <2>1 DEF DAGInv, Agenda, CancelAgents, TypeOK
<1>4. CASE Ends
  <2>1. \A t \in Tasks : status'[t] \in {"running", "pending"} => status'[t] = status[t]
    BY <1>4 DEF Ends, End
  <2> QED BY <1>4, <2>1 DEF DAGInv, Agenda, Ends, End
<1>5. CASE Launches
  <2>1. PICK batch \in SUBSET {t \in Tasks : Ready(t)} :
           /\ executing = {} /\ phase = "running" /\ ~disposed
           /\ Launch(batch) /\ UNCHANGED <<aborted, disposed, listening>>
    BY <1>5 DEF Launches
  <2>2. \A t \in batch : status[t] = "pending" /\ t \in Tasks
    BY <2>1 DEF Ready
  <2> QED BY <2>1, <2>2 DEF DAGInv, Agenda, Launch
<1>6. CASE Rejects
  BY <1>6 DEF DAGInv, Agenda, Rejects
<1> QED BY <1>1, <1>2, <1>3, <1>4, <1>5, <1>6, Steps, Loops, AgendaAttempt

LEMMA CancellingAttempt ==
  ASSUME DAGInv, NEW t \in Tasks, Attempt(t) PROVE Cancelling'
<1>0. /\ t \in executing /\ UNCHANGED <<aborted, disposed, listening>>
      /\ activeAgents \in [Tasks -> 0..2] /\ retryCount \in [Tasks -> 0..1]
      /\ told \subseteq Agents
  BY DEF Attempt, AgentsOf, DAGInv, TypeOK
<1>1. aborted => InMap' = {}
  <2>1. \A q \in Tasks : aborted => activeAgents[q] = 0
    BY DEF DAGInv, Cancelling, InMap
  <2>2. \A q \in Tasks : aborted => activeAgents'[q] = 0
    <3>1. Concluded(t) => activeAgents' = [activeAgents EXCEPT ![t] = 0]
      BY <1>0, ConcludedStatus
    <3> QED BY <1>0, <2>1, <3>1 DEF Attempt, Released, Retried
  <2> QED BY <2>2 DEF InMap
<1>2. ~aborted => \A a \in told' : a[2] = 1 /\ retryCount'[a[1]] = 1
  <2>1. \A q \in Tasks : retryCount[q] = 1 => retryCount'[q] = 1
    <3>1. Concluded(t) => retryCount' = retryCount
      BY <1>0, ConcludedStatus
    <3> QED BY <1>0, <3>1 DEF Attempt, Released, Retried
  <2>2. activeAgents[t] # 0 /\ Retried(t) => retryCount'[t] = 1 /\ activeAgents[t] = 1
    BY <1>0 DEF DAGInv, Agenda, Retried
  <2>3. \A a \in told : a[1] \in Tasks
    BY <1>0 DEF Agents
  <2> QED BY <2>1, <2>2, <2>3 DEF DAGInv, Cancelling, Attempt, AgentsOf
<1>3. \A q \in Tasks : status'[q] = "cancelled" => aborted
  <2>1. CASE Released(t)
    BY <2>1 DEF Released, DAGInv, Cancelling
  <2>2. CASE Retried(t)
    BY <1>0, <2>2, RetriedStatus DEF DAGInv, Cancelling
  <2>3. CASE Concluded(t)
    BY <1>0, <2>3, ConcludedStatus DEF DAGInv, Cancelling
  <2> QED BY <2>1, <2>2, <2>3 DEF Attempt
<1>4. phase' = phase
  BY DEF Attempt, AgentsOf
<1> QED BY <1>0, <1>1, <1>2, <1>3, <1>4 DEF DAGInv, Cancelling

LEMMA CancellingStep ==
  ASSUME DAGInv, [Next]_vars PROVE Cancelling'
<1>1. CASE UNCHANGED vars
  BY <1>1 DEF DAGInv, Cancelling, InMap, vars
<1>2. ASSUME NEW a \in Agents, EndsUnheard(a) PROVE Cancelling'
  BY <1>2 DEF DAGInv, Cancelling, InMap, EndsUnheard
<1>3. CASE CancelAgents /\ disposed' \in {TRUE, disposed}
  BY <1>3 DEF DAGInv, Cancelling, CancelAgents, InMap
<1>4. CASE Ends
  <2>1. \A t \in Tasks : status'[t] = "cancelled" => aborted
    BY <1>4 DEF DAGInv, Cancelling, Ends, End
  <2> QED BY <1>4, <2>1 DEF DAGInv, Cancelling, InMap, Ends, End
<1>5. CASE Launches
  <2>1. PICK batch \in SUBSET Tasks : /\ ~aborted /\ Launch(batch)
                                     /\ UNCHANGED <<aborted, disposed, listening>>
    BY <1>5 DEF Launches
  <2> QED BY <2>1 DEF DAGInv, Cancelling, Launch
<1>6. CASE Rejects
  BY <1>6 DEF DAGInv, Cancelling, InMap, Rejects
<1> QED BY <1>1, <1>2, <1>3, <1>4, <1>5, <1>6, Steps, Loops, CancellingAttempt

\* A status that says what became of a task is kept.
LEMMA Kept ==
  ASSUME DAGInv, [Next]_vars, NEW t \in Tasks,
         status[t] \in {"completed", "failed", "blocked"}
  PROVE  status'[t] = status[t]
<1>1. CASE UNCHANGED vars
  BY <1>1 DEF vars
<1>2. ASSUME NEW a \in Agents, EndsUnheard(a) PROVE status'[t] = status[t]
  BY <1>2 DEF EndsUnheard
<1>3. CASE CancelAgents
  BY <1>3 DEF CancelAgents, InMap, DAGInv, Agenda
<1>4. CASE Ends
  BY <1>4 DEF Ends, End
<1>5. CASE Launches
  BY <1>5 DEF Launches, Launch, Ready
<1>6. CASE Rejects
  BY <1>6 DEF Rejects
<1>7. ASSUME NEW q \in Tasks, Attempt(q) PROVE status'[t] = status[t]
  <2>1. q \in executing /\ q # t
    BY <1>7 DEF Attempt, AgentsOf, DAGInv, Agenda
  <2> QED BY <1>7, <2>1, ConcludedStatus, RetriedStatus DEF Attempt, Released
<1> QED BY <1>1, <1>2, <1>3, <1>4, <1>5, <1>6, <1>7, Steps, Loops

\* Statuses that a step newly gives.
Began(t) == ~(t \in executing \/ status[t] \in {"running", "completed", "failed"})
            /\ (t \in executing' \/ status'[t] \in {"running", "completed", "failed"})

LEMMA BeganReady ==
  ASSUME DAGInv, [Next]_vars, NEW t \in Tasks, Began(t)
  PROVE  \A d \in Dependencies[t] : status[d] = "completed"
<1>1. CASE UNCHANGED vars
  BY <1>1 DEF vars, Began
<1>2. ASSUME NEW a \in Agents, EndsUnheard(a) PROVE FALSE
  BY <1>2 DEF EndsUnheard, Began
<1>3. CASE CancelAgents
  BY <1>3 DEF CancelAgents, Began
<1>4. CASE Ends
  BY <1>4 DEF Ends, End, Began
<1>5. CASE Launches
  BY <1>5 DEF Launches, Launch, Ready, Began
<1>6. CASE Rejects
  BY <1>6 DEF Rejects, Began
<1>7. ASSUME NEW q \in Tasks, Attempt(q) PROVE FALSE
  <2>1. q \in executing /\ q # t
    BY <1>7 DEF Attempt, AgentsOf, Began
  <2>2. executing' \subseteq executing /\ t \notin executing'
    BY <1>7, <2>1, ConcludedStatus DEF Attempt, Released, Retried, Began
  <2>3. status'[t] = status[t] \/ status'[t] = "blocked"
    BY <1>7, <2>1, ConcludedStatus, RetriedStatus DEF Attempt, Released
  <2> QED BY <2>2, <2>3 DEF Began
<1> QED BY <1>1, <1>2, <1>3, <1>4, <1>5, <1>6, <1>7, Steps, Loops

\* What a failure reaches does not wait, and what is blocked was reached.
LEMMA NewlyFailed ==
  ASSUME DAGInv, [Next]_vars, NEW t \in Tasks, status[t] # "failed", status'[t] = "failed"
  PROVE  \A q \in Tasks : t \in Upstream[q] => status'[q] # "pending"
<1>1. CASE UNCHANGED vars
  BY <1>1 DEF vars
<1>2. ASSUME NEW a \in Agents, EndsUnheard(a) PROVE FALSE
  BY <1>2 DEF EndsUnheard
<1>3. ~CancelAgents
  BY DEF CancelAgents
<1>4. ~Ends
  BY DEF Ends, End
<1>5. ~Launches
  BY DEF Launches, Launch
<1>6. ~Rejects
  BY DEF Rejects
<1>7. ASSUME NEW q \in Tasks, Attempt(q)
      PROVE \A p \in Tasks : t \in Upstream[p] => status'[p] # "pending"
  <2>1. q \in executing
    BY <1>7 DEF Attempt, AgentsOf
  <2>2. Concluded(q) /\ q = t
    BY <1>7, <2>1, ConcludedStatus, RetriedStatus DEF Attempt, Released
  <2> QED BY <2>1, <2>2, ConcludedStatus
<1> QED BY <1>1, <1>2, <1>3, <1>4, <1>5, <1>6, <1>7, Steps, Loops

LEMMA NewlyBlocked ==
  ASSUME DAGInv, [Next]_vars, NEW q \in Tasks, status[q] # "blocked", status'[q] = "blocked"
  PROVE  \E t \in Tasks : t \in Upstream[q] /\ status'[t] = "failed"
<1>1. CASE UNCHANGED vars
  BY <1>1 DEF vars
<1>2. ASSUME NEW a \in Agents, EndsUnheard(a) PROVE FALSE
  BY <1>2 DEF EndsUnheard
<1>3. ~CancelAgents
  BY DEF CancelAgents
<1>4. ~Ends
  BY DEF Ends, End
<1>5. ~Launches
  BY DEF Launches, Launch
<1>6. ~Rejects
  BY DEF Rejects
<1>7. ASSUME NEW t \in Tasks, Attempt(t)
      PROVE \E p \in Tasks : p \in Upstream[q] /\ status'[p] = "failed"
  <2>1. t \in executing
    BY <1>7 DEF Attempt, AgentsOf
  <2>2. Concluded(t) /\ q # t
    BY <1>7, <2>1, ConcludedStatus, RetriedStatus DEF Attempt, Released
  <2> QED BY <2>1, <2>2, ConcludedStatus
<1> QED BY <1>1, <1>2, <1>3, <1>4, <1>5, <1>6, <1>7, Steps, Loops

\* No task waits again.
LEMMA WaitsOnce ==
  ASSUME DAGInv, [Next]_vars, NEW q \in Tasks, status'[q] = "pending"
  PROVE  status[q] = "pending"
<1>1. CASE UNCHANGED vars
  BY <1>1 DEF vars
<1>2. ASSUME NEW a \in Agents, EndsUnheard(a) PROVE status[q] = "pending"
  BY <1>2 DEF EndsUnheard
<1>3. CASE CancelAgents
  BY <1>3 DEF CancelAgents
<1>4. CASE Ends
  BY <1>4 DEF Ends, End
<1>5. CASE Launches
  BY <1>5 DEF Launches, Launch
<1>6. CASE Rejects
  BY <1>6 DEF Rejects
<1>7. ASSUME NEW t \in Tasks, Attempt(t) PROVE status[q] = "pending"
  <2>1. t \in executing
    BY <1>7 DEF Attempt, AgentsOf
  <2> QED BY <1>7, <2>1, ConcludedStatus, RetriedStatus DEF Attempt, Released
<1> QED BY <1>1, <1>2, <1>3, <1>4, <1>5, <1>6, <1>7, Steps, Loops

LEMMA OrderedStep ==
  ASSUME DAGInv, [Next]_vars PROVE Ordered'
<1>1. ASSUME NEW t \in Tasks, t \in executing' \/ status'[t] \in {"running", "completed", "failed"},
             NEW d \in Dependencies[t]
      PROVE  status'[d] = "completed"
  <2>1. d \in Tasks
    BY DependenciesBefore
  <2>2. status[d] = "completed"
    BY <1>1, BeganReady DEF Began, DAGInv, Ordered
  <2> QED BY <2>1, <2>2, Kept
<1>2. ASSUME NEW t \in Tasks, NEW q \in Tasks, status'[t] = "failed", t \in Upstream[q]
      PROVE  status'[q] # "pending"
  <2>1. CASE status[t] = "failed"
    BY <1>2, <2>1, WaitsOnce DEF DAGInv, Ordered
  <2> QED BY <1>2, <2>1, NewlyFailed
<1>3. ASSUME NEW q \in Tasks, status'[q] = "blocked"
      PROVE  \E t \in Upstream[q] : status'[t] = "failed"
  <2>1. CASE status[q] = "blocked"
    <3>1. PICK t \in Upstream[q] : status[t] = "failed"
      BY <2>1 DEF DAGInv, Ordered
    <3>2. t \in Tasks
      BY UpstreamBefore
    <3> QED BY <3>1, <3>2, Kept
  <2> QED BY <1>3, <2>1, NewlyBlocked
<1> QED BY <1>1, <1>2, <1>3 DEF Ordered

LEMMA InitDAG == Init => DAGInv
<1> SUFFICES ASSUME Init PROVE DAGInv
  OBVIOUS
<1>1. TypeOK
  <2>1. /\ status \in [Tasks -> TaskStatus] /\ retryCount \in [Tasks -> 0..1]
        /\ activeAgents \in [Tasks -> 0..2]
    BY DEF Init, TaskStatus
  <2> QED BY <2>1 DEF Init, TypeOK
<1>2. \A t \in Tasks : status[t] = "pending" /\ activeAgents[t] = 0 /\ retryCount[t] = 0
  BY DEF Init
<1>3. executing = {} /\ told = {} /\ phase = "running" /\ ~aborted /\ ~disposed
  BY DEF Init
<1> QED BY <1>1, <1>2, <1>3 DEF DAGInv, Agenda, Cancelling, InMap, Ordered

LEMMA DAGStep == DAGInv /\ [Next]_vars => DAGInv'
<1> SUFFICES ASSUME DAGInv, [Next]_vars PROVE DAGInv'
  OBVIOUS
<1>1. TypeOK' BY DAGTypeStep
<1>2. Agenda' BY AgendaStep
<1>3. Cancelling' BY CancellingStep
<1>4. Ordered' BY OrderedStep
<1> QED BY <1>1, <1>2, <1>3, <1>4 DEF DAGInv

LEMMA DAGInvariant == Spec => []DAGInv
BY InitDAG, DAGStep, PTL DEF Spec

\* Tasks, agents and locks of an execute() keep their types.
THEOREM ExecutionTypes == Spec => []TypeOK
<1>1. DAGInv => TypeOK
  BY DEF DAGInv
<1> QED BY <1>1, DAGInvariant, PTL

---------------------------------------------------------------------------
\* Every task settles.

\* While nothing is executing, a task that waits without being ready waits behind
\* one that was cancelled.
LEMMA NothingStuck ==
  ASSUME DAGInv, executing = {}, ~disposed, ~aborted, {t \in Tasks : Ready(t)} = {}
  PROVE  IsComplete
<1> DEFINE Waiting == {t \in Tasks : status[t] = "pending"}
<1>0. status \in [Tasks -> TaskStatus] /\ Tasks \subseteq Nat
  BY OrchestratorConstants DEF DAGInv, TypeOK, Tasks
<1>1. \A t \in Tasks : status[t] \notin {"running", "cancelled"}
  BY DEF DAGInv, Agenda, Cancelling
<1>2. CASE Waiting = {}
  BY <1>0, <1>1, <1>2 DEF IsComplete, TaskStatus, Terminal
<1>3. CASE Waiting # {}
  <2>1. PICK w \in Waiting : \A x \in Waiting : w <= x
    BY <1>3, SmallestTask
  <2>2. w \in Tasks /\ status[w] = "pending"
    BY <2>1
  <2>3. PICK d \in Dependencies[w] : status[d] # "completed"
    BY <2>2 DEF Ready
  <2>4. d \in Tasks /\ d < w
    BY <2>2, DependenciesBefore
  <2>5. status[d] # "pending"
    <3>1. d \notin Waiting
      <4> HIDE DEF Waiting
      <4> QED BY <1>0, <2>1, <2>2, <2>4
    <3> QED BY <2>4, <3>1
  <2>6. status[d] \in {"failed", "blocked"}
    BY <1>0, <1>1, <2>3, <2>4, <2>5 DEF TaskStatus
  <2>7. d \in Upstream[w] /\ Upstream[d] \subseteq Upstream[w]
    BY <2>2, UpstreamFacts
  <2>8. PICK t \in Upstream[w] : status[t] = "failed"
    BY <2>4, <2>6, <2>7 DEF DAGInv, Ordered
  <2>9. t \in Tasks
    BY <2>2, UpstreamBefore
  <2> QED BY <2>2, <2>8, <2>9 DEF DAGInv, Ordered
<1> QED BY <1>2, <1>3

LEMMA EndsSettled ==
  ASSUME DAGInv, DAGInv', Ends PROVE EveryTaskSettles'
<1>0. status' \in [Tasks -> TaskStatus] /\ UNCHANGED aborted
  BY DEF DAGInv, TypeOK, Ends
<1>1. \A t \in Tasks : status'[t] = IF aborted /\ ~IsComplete /\ status[t] = "pending"
                                     THEN "cancelled" ELSE status[t]
  BY DEF Ends, End
<1>2. IsComplete'
  <2>1. CASE IsComplete
    BY <1>1, <2>1 DEF IsComplete
  <2>2. CASE ~IsComplete /\ ~aborted
    <3>1. {t \in Tasks : Ready(t)} = {} /\ executing = {} /\ ~disposed
      BY <2>2 DEF Ends
    <3> QED BY <2>2, <3>1, NothingStuck
  <2>3. CASE ~IsComplete /\ aborted
    <3>1. \A t \in Tasks : status[t] # "running"
      BY DEF DAGInv, Agenda, Ends
    <3>2. \A t \in Tasks : status[t] \in TaskStatus
      BY DEF DAGInv, TypeOK
    <3> QED BY <1>1, <2>3, <3>1, <3>2 DEF IsComplete, TaskStatus, Terminal
  <2> QED BY <2>1, <2>2, <2>3
<1>3. \A t \in Tasks : status'[t] \in {"completed", "failed"} =>
         \A d \in Dependencies[t] : status'[d] = "completed"
  BY DEF DAGInv, Ordered
<1>4. outcome' = Outcome(status')
  BY DEF Ends, End
<1>5. CASE aborted
  <2>1. outcome' = "CANCELLED"
    BY <1>4, <1>5 DEF Outcome
  <2> QED BY <1>0, <1>2, <1>3, <1>5, <2>1 DEF EveryTaskSettles
<1>6. CASE ~aborted /\ \E t \in Tasks : status'[t] \in {"failed", "blocked"}
  <2>1. outcome' = "FAILED"
    BY <1>4, <1>6 DEF Outcome
  <2>2. PICK q \in Tasks : status'[q] \in {"failed", "blocked"}
    BY <1>6
  <2>3. \E t \in Tasks : status'[t] = "failed"
    <3>1. CASE status'[q] = "failed"
      BY <3>1
    <3>2. CASE status'[q] = "blocked"
      <4>1. \E t \in Upstream[q] : status'[t] = "failed"
        BY <3>2 DEF DAGInv, Ordered
      <4> QED BY <4>1, UpstreamBefore
    <3> QED BY <2>2, <3>1, <3>2
  <2> QED BY <1>2, <1>3, <2>1, <2>3 DEF EveryTaskSettles
<1>7. CASE ~aborted /\ ~\E t \in Tasks : status'[t] \in {"failed", "blocked"}
  <2>1. \A t \in Tasks : status'[t] # "cancelled"
    BY <1>0, <1>7 DEF DAGInv, Cancelling
  <2>2. \A t \in Tasks : status'[t] = "completed"
    BY <1>2, <1>7, <2>1 DEF IsComplete, Terminal
  <2>3. outcome' = "COMPLETED"
    BY <1>4, <1>7, <2>2 DEF Outcome
  <2> QED BY <1>2, <1>3, <2>2, <2>3 DEF EveryTaskSettles
<1> QED BY <1>5, <1>6, <1>7

\* Nothing is changed after the end, but that a disposal counts as cancellation.
LEMMA StaysSettled ==
  ASSUME DAGInv, EveryTaskSettles, phase = "ended", [Next]_vars
  PROVE  EveryTaskSettles'
<1>1. executing = {} /\ InMap = {}
  BY DEF DAGInv, Agenda, InMap
<1>2. /\ \A t \in Tasks : status'[t] = status[t]
      /\ outcome' = outcome /\ (aborted => aborted')
  <2>1. CASE UNCHANGED vars
    BY <2>1 DEF vars
  <2>2. ASSUME NEW a \in Agents, EndsUnheard(a)
        PROVE  UNCHANGED <<status, outcome, aborted>>
    BY <2>2 DEF EndsUnheard
  <2>3. CASE CancelAgents
    BY <1>1, <2>3 DEF CancelAgents
  <2>4. ~Loop
    BY DEF Loop
  <2>5. ASSUME NEW t \in Tasks, Attempt(t) PROVE FALSE
    BY <1>1, <2>5 DEF Attempt, AgentsOf
  <2> QED BY <2>1, <2>2, <2>3, <2>4, <2>5, Steps
<1>3. IsComplete' /\ \A t \in Tasks : status'[t] \in {"completed", "failed"} =>
         \A d \in Dependencies[t] : status'[d] = "completed"
  <2>1. \A t \in Tasks : \A d \in Dependencies[t] : d \in Tasks
    BY DependenciesBefore
  <2> QED BY <1>2, <2>1 DEF EveryTaskSettles, IsComplete
<1> QED BY <1>2, <1>3 DEF EveryTaskSettles

LEMMA SettlesStep == DAGInv /\ DAGInv' /\ EveryTaskSettles /\ [Next]_vars => EveryTaskSettles'
<1> SUFFICES ASSUME DAGInv, DAGInv', EveryTaskSettles, [Next]_vars PROVE EveryTaskSettles'
  OBVIOUS
<1>1. CASE phase = "ended"
  BY <1>1, StaysSettled
<1>2. CASE phase # "ended" /\ phase' = "ended"
  <2>1. Ends
    <3>1. CASE UNCHANGED vars
      BY <1>2, <3>1 DEF vars
    <3>2. ASSUME NEW a \in Agents, EndsUnheard(a) PROVE FALSE
      BY <1>2, <3>2 DEF EndsUnheard
    <3>3. ASSUME NEW t \in Tasks, Attempt(t) PROVE FALSE
      BY <1>2, <3>3 DEF Attempt, AgentsOf
    <3> QED BY <1>2, <3>1, <3>2, <3>3, Steps, Loops DEF CancelAgents, Launches, Launch, Rejects
  <2> QED BY <2>1, EndsSettled
<1>3. CASE phase' # "ended"
  BY <1>3 DEF EveryTaskSettles
<1> QED BY <1>1, <1>2, <1>3

\* When execute() reports, every task is settled, ran only on completed
\* dependencies, and the report says what became of them.
THEOREM TasksSettle == Spec => []EveryTaskSettles
<1>1. Init => EveryTaskSettles
  BY DEF Init, EveryTaskSettles
<1> QED BY <1>1, DAGInvariant, SettlesStep, PTL DEF Spec

---------------------------------------------------------------------------
\* The first agent of a task.

LEMMA FirstAgentsStep == DAGInv /\ FirstAgentsReachable /\ [Next]_vars => FirstAgentsReachable'
<1> SUFFICES ASSUME DAGInv, FirstAgentsReachable, [Next]_vars, NEW t \in Tasks,
                    <<t, 1>> \in working' \ told'
             PROVE  activeAgents'[t] = 1
  BY DEF FirstAgentsReachable
<1>1. <<t, 1>> \in working \ told => activeAgents[t] = 1
  BY DEF FirstAgentsReachable
<1>2. CASE UNCHANGED vars
  BY <1>1, <1>2 DEF vars
<1>3. ASSUME NEW a \in Agents, EndsUnheard(a) PROVE activeAgents'[t] = 1
  BY <1>1, <1>3 DEF EndsUnheard
<1>4. ~CancelAgents
  <2> SUFFICES ASSUME CancelAgents PROVE FALSE
    OBVIOUS
  <2>1. <<t, 1>> \in working \ told
    BY DEF CancelAgents
  <2>2. t \in InMap /\ activeAgents[t] = 1
    BY <1>1, <2>1 DEF InMap
  <2>3. <<t, 1>> \in told'
    BY <2>2 DEF CancelAgents
  <2> QED BY <2>3
<1>5. CASE Ends
  BY <1>1, <1>5 DEF Ends, End
<1>6. CASE Launches
  <2>1. PICK batch : Launch(batch)
    BY <1>6 DEF Launches
  <2>2. told' = told /\ activeAgents'[t] = IF t \in batch THEN 1 ELSE activeAgents[t]
    BY <2>1 DEF Launch
  <2>3. <<t, 1>> \in working \/ t \in batch
    BY <2>1 DEF Launch
  <2> QED BY <1>1, <2>2, <2>3
<1>7. CASE Rejects
  BY <1>1, <1>7 DEF Rejects
<1>8. ASSUME NEW q \in Tasks, Attempt(q) PROVE activeAgents'[t] = 1
  <2>1. <<t, 1>> \in working \ told
    BY <1>8 DEF Attempt, AgentsOf
  <2>2. activeAgents[t] = 1 /\ retryCount[t] = 0
    BY <1>1, <2>1 DEF DAGInv, Agenda
  <2>3. t # q
    BY <1>8, <2>2 DEF Attempt, AgentsOf, Current
  <2>4. activeAgents' \in {activeAgents, [activeAgents EXCEPT ![q] = 0]}
    BY <1>8, ConcludedStatus DEF Attempt, AgentsOf, Released, Retried
  <2> QED BY <2>2, <2>3, <2>4 DEF DAGInv, TypeOK
<1> QED BY <1>2, <1>3, <1>4, <1>5, <1>6, <1>7, <1>8, Steps, Loops

\* A timeout or a cancellation reaches the first agent of every task.
THEOREM FirstAgentsAreReached == Spec => []FirstAgentsReachable
<1>1. Init => FirstAgentsReachable
  BY DEF Init, FirstAgentsReachable
<1> QED BY <1>1, DAGInvariant, FirstAgentsStep, PTL DEF Spec

---------------------------------------------------------------------------
\* The files.

\* What has started has all it depends on, directly or not, behind it.
LEMMA UpstreamDone ==
  ASSUME DAGInv, NEW t \in Tasks, status[t] \in {"running", "completed"}
  PROVE  \A u \in Upstream[t] : status[u] = "completed"
<1> DEFINE Bad == {x \in Tasks : /\ status[x] \in {"running", "completed"}
                                 /\ \E u \in Upstream[x] : status[u] # "completed"}
<1>1. SUFFICES ASSUME Bad # {} PROVE FALSE
  OBVIOUS
<1>2. PICK x \in Bad : \A y \in Bad : x <= y
  BY <1>1, SmallestTask
<1>3. x \in Tasks /\ status[x] \in {"running", "completed"} /\ Tasks \subseteq Nat
  BY <1>2, OrchestratorConstants DEF Tasks
<1>4. PICK u \in Upstream[x] : status[u] # "completed"
  BY <1>2
<1>5. \A d \in Dependencies[x] : d \in Tasks /\ d < x /\ status[d] = "completed"
  BY <1>3, DependenciesBefore DEF DAGInv, Ordered
<1>6. PICK d \in Dependencies[x] : u \in Upstream[d]
  BY <1>3, <1>4, <1>5, UpstreamFacts
<1>7. d \in Bad
  BY <1>4, <1>5, <1>6
<1>8. d \in Nat /\ x \in Nat /\ d < x /\ x <= d
  <2> HIDE DEF Bad
  <2> QED BY <1>2, <1>3, <1>5, <1>6, <1>7
<1> QED BY <1>8

LEMMA RunningApart ==
  ASSUME DAGInv, NEW s \in Tasks, NEW t \in Tasks, s # t,
         status[s] = "running", status[t] = "running"
  PROVE  Declared(s) \cap Declared(t) = {}
<1>1. s \notin Upstream[t] /\ t \notin Upstream[s]
  BY UpstreamDone
<1> QED BY <1>1, OrchestratorConstants

LockInv ==
    /\ Holding
    /\ ~listening => heldLocks = {}
    /\ conflicts = {}
    /\ listening => \A t \in Tasks :
         status[t] = "running" /\ Declared(t) # {} => t \in heldLocks

\* An event that starts nothing takes no lock.
LEMMA NothingAsked ==
  ASSUME DAGInv, LockInv, Locks(status'), listening' = listening,
         \A t \in Tasks : status'[t] = "running" => status[t] = "running" \/ ~listening,
         \A t \in Tasks : status'[t] = "pending" => status[t] = "pending",
         status' \in [Tasks -> TaskStatus]
  PROVE  LockInv'
<1>1. CASE ~listening
  BY <1>1 DEF LockInv, Locks, Holding
<1>2. CASE listening
  <2>1. \A t \in Tasks : status'[t] = "running" /\ Declared(t) # {} => t \in heldLocks
    BY <1>2 DEF LockInv
  <2>2. /\ heldLocks' = {t \in heldLocks : status'[t] \notin Terminal}
        /\ conflicts' = {}
    BY <1>2, <2>1 DEF Locks, LockInv
  <2>3. Holding'
    <3>1. \A t \in heldLocks' : t \in Tasks /\ status[t] = "running"
          /\ status'[t] \in TaskStatus \ Terminal
      BY <2>2 DEF LockInv, Holding, DAGInv, TypeOK
    <3> QED BY <3>1 DEF Holding, TaskStatus, Terminal
  <2> QED BY <1>2, <2>1, <2>2, <2>3 DEF LockInv, Terminal
<1> QED BY <1>1, <1>2

LEMMA LockStep == DAGInv /\ DAGInv' /\ LockInv /\ [Next]_vars => LockInv'
<1> SUFFICES ASSUME DAGInv, DAGInv', LockInv, [Next]_vars PROVE LockInv'
  OBVIOUS
<1>0. /\ status' \in [Tasks -> TaskStatus]
      /\ \A t \in Tasks : status'[t] = "pending" => status[t] = "pending"
  BY WaitsOnce DEF DAGInv, TypeOK
<1>1. CASE UNCHANGED vars
  BY <1>1 DEF LockInv, Holding, vars
<1>2. ASSUME NEW a \in Agents, EndsUnheard(a) PROVE LockInv'
  BY <1>2 DEF LockInv, Holding, EndsUnheard
<1>3. CASE CancelAgents
  BY <1>3 DEF LockInv, Holding, CancelAgents
<1>4. CASE Ends
  <2>1. \A t \in Tasks : status'[t] = "running" => status[t] = "running"
    BY <1>4 DEF Ends, End
  <2>2. Locks(status') /\ listening' = listening
    BY <1>4 DEF Ends, End
  <2> QED BY <1>0, <2>1, <2>2, NothingAsked
<1>5. CASE Launches
  <2>1. PICK batch \in SUBSET Tasks : Launch(batch)
    BY <1>5 DEF Launches
  <2>2. Locks(status') /\ listening' = listening /\ executing = {} /\ ~disposed
    BY <1>5, <2>1 DEF Launches, Launch
  <2>3. heldLocks = {}
    BY <2>2 DEF LockInv, Holding, DAGInv, TypeOK, Agenda
  <2>4. CASE ~listening
    BY <2>2, <2>3, <2>4 DEF LockInv, Holding, Locks
  <2>5. CASE listening
    <3>1. \A t \in Tasks : ~Contended(t)
      BY <2>3 DEF Contended
    <3>2. /\ heldLocks' = {t \in Tasks : status'[t] = "running" /\ Declared(t) # {}}
          /\ conflicts' = {}
      BY <2>2, <2>3, <2>5, <3>1 DEF Locks, LockInv
    <3> QED BY <2>2, <2>5, <3>2 DEF LockInv, Holding
  <2> QED BY <2>4, <2>5
<1>6. CASE Rejects
  BY <1>6 DEF LockInv, Holding, Rejects
<1>7. ASSUME NEW t \in Tasks, Attempt(t) PROVE LockInv'
  <2>1. t \in executing /\ listening' = listening /\ (listening => ~aborted)
    BY <1>7 DEF Attempt, AgentsOf, DAGInv, Cancelling
  <2>2. CASE Released(t)
    BY <2>1, <2>2 DEF LockInv, Holding, Released
  <2>3. CASE Retried(t)
    <3>1. Locks(status') /\ (listening => status' = status)
      BY <2>1, <2>3, RetriedStatus DEF Retried
    <3> QED BY <1>0, <2>1, <3>1, NothingAsked
  <2>4. CASE Concluded(t)
    <3>1. Locks(status')
          /\ \A q \in Tasks : status'[q] = "running" => status[q] = "running"
      BY <2>1, <2>4, ConcludedStatus
    <3> QED BY <1>0, <2>1, <3>1, NothingAsked
  <2> QED BY <1>7, <2>2, <2>3, <2>4 DEF Attempt
<1> QED BY <1>1, <1>2, <1>3, <1>4, <1>5, <1>6, <1>7, Steps, Loops

\* No task runs without its files, no two hold the same one, and execute() leaves
\* none of them held.
THEOREM ClaimsAreApart == Spec => []NoClaimContended
<1>1. Init => LockInv
  BY DEF Init, LockInv, Holding
<1>2. DAGInv /\ LockInv /\ EveryTaskSettles => NoClaimContended
  <2>1. ASSUME DAGInv, LockInv, NEW s \in heldLocks, NEW t \in heldLocks, s # t
        PROVE  Declared(s) \cap Declared(t) = {}
    <3>1. s \in Tasks /\ t \in Tasks /\ status[s] = "running" /\ status[t] = "running"
      BY <2>1 DEF LockInv, Holding, DAGInv, TypeOK
    <3> QED BY <2>1, <3>1, RunningApart
  <2>2. ASSUME DAGInv, LockInv, EveryTaskSettles, phase # "running"
        PROVE  heldLocks = {}
    <3>1. CASE phase = "ended"
      BY <2>2, <3>1 DEF LockInv, Holding, EveryTaskSettles, IsComplete, Terminal,
         DAGInv, TypeOK
    <3>2. CASE phase = "rejected"
      BY <2>2, <3>2 DEF LockInv, DAGInv, Cancelling
    <3> QED BY <2>2, <3>1, <3>2 DEF DAGInv, TypeOK
  <2> QED BY <2>1, <2>2 DEF LockInv, NoClaimContended
<1> QED BY <1>1, <1>2, DAGInvariant, TasksSettle, LockStep, PTL DEF Spec

---------------------------------------------------------------------------
\* The runs of a team.

Live == {r \in Working : ~run[r].settled}

\* A start in preparation is alone.
StartIsAlone ==
    /\ \A q, r \in Starting : q = r
    /\ Starting # {} => slot = None /\ ~closed /\ record # None /\ Live = {}

\* So is a run that was not settled: only dispose() takes it out of the slot.
LiveIsAlone ==
    /\ \A q, r \in Live : q = r
    /\ \A r \in Live : record = "running" /\ (closed \/ slot = r)
    /\ slot # None => slot \in Live

\* Only a run that went to work is settled, or in the slot.
Fresh ==
    \A r \in Runs : run[r].step \in {"unused", "starting"} => ~run[r].settled /\ slot # r

Inv == TeamTypeOK /\ Fresh /\ (~raced => StartIsAlone /\ LiveIsAlone)

-----------------------------------------------------------------------------
\* The initial state has no run.
LEMMA InitInv == TeamInit => Inv
<1> SUFFICES ASSUME TeamInit PROVE Inv
  OBVIOUS
<1>1. \A r \in Runs : run[r].step = "unused"
  BY DEF TeamInit
<1>2. Starting = {} /\ Live = {} /\ slot = None
  BY <1>1 DEF TeamInit, Starting, Live, Working
<1>3. TeamTypeOK
  <2>1. hosts \in 0..MaxHosts
    BY TeamConstants DEF TeamInit
  <2> QED
    BY <2>1 DEF TeamInit, TeamTypeOK
<1>4. Fresh
  BY TeamConstants DEF TeamInit, Fresh
<1> QED
  BY <1>2, <1>3, <1>4 DEF Inv, StartIsAlone, LiveIsAlone

\* Every step keeps the types.
LEMMA TypeStep == TeamTypeOK /\ [TeamNext]_teamVars => TeamTypeOK'
<1> SUFFICES ASSUME TeamTypeOK, [TeamNext]_teamVars PROVE TeamTypeOK'
  OBVIOUS
<1> USE TeamConstants DEF TeamTypeOK, Statuses
<1>1. CASE CreateTeam
  BY <1>1 DEF CreateTeam
<1>2. ASSUME NEW r \in Runs, StartTeam(r) PROVE TeamTypeOK'
  BY <1>2 DEF StartTeam
<1>3. ASSUME NEW r \in Runs, Go(r) PROVE TeamTypeOK'
  BY <1>3 DEF Go, Persisted
<1>4. CASE CancelTeam
  BY <1>4 DEF CancelTeam, Persisted
<1>5. ASSUME NEW r \in Runs, NEW verdict \in {"completed", "failed"}, RunEnds(r, verdict)
      PROVE  TeamTypeOK'
  BY <1>5 DEF RunEnds, Persisted
<1>6. CASE RemoveTeam
  BY <1>6 DEF RemoveTeam
<1>7. CASE DisposeService
  BY <1>7 DEF DisposeService
<1>8. CASE RestartHost
  <2>1. hosts' \in 0..MaxHosts
    <3>1. hosts < MaxHosts /\ hosts' = hosts + 1
      BY <1>8 DEF RestartHost
    <3>2. hosts \in 0..MaxHosts
      OBVIOUS
    <3> HIDE DEF TeamTypeOK
    <3> QED
      BY <3>1, <3>2
  <2>2. run' \in [Runs -> [step : {"unused", "starting", "working", "over"},
                          settled : BOOLEAN]]
    <3>1. \A r \in Runs : [run[r] EXCEPT !.step = "over", !.settled = TRUE]
                          \in [step : {"unused", "starting", "working", "over"},
                              settled : BOOLEAN]
      OBVIOUS
    <3> QED
      BY <1>8, <3>1 DEF RestartHost
  <2> QED
    BY <1>8, <2>1, <2>2 DEF RestartHost
<1>9. CASE UNCHANGED teamVars
  BY <1>9 DEF teamVars
<1> QED
  BY <1>1, <1>2, <1>3, <1>4, <1>5, <1>6, <1>7, <1>8, <1>9 DEF TeamNext

\* Every step that comes in the middle of no start keeps runs alone.
LEMMA AloneStep ==
    ASSUME Inv, [TeamNext]_teamVars, TeamTypeOK', ~raced'
    PROVE  (StartIsAlone /\ LiveIsAlone)'
<1> USE TeamConstants DEF Inv, TeamTypeOK
<1>1. CASE CreateTeam
  <2>1. Starting' = {} /\ Live' = {} /\ Starting = {} /\ Live = {} /\ slot' = slot /\ ~raced
    BY <1>1 DEF CreateTeam, Starting, Live, Working
  <2> QED
    BY <2>1 DEF StartIsAlone, LiveIsAlone
<1>2. ASSUME NEW r \in Runs, StartTeam(r) PROVE (StartIsAlone /\ LiveIsAlone)'
  <2>1. ~raced /\ Starting = {} /\ slot = None /\ slot' = None /\ ~closed /\ ~closed'
        /\ record' = record /\ record # None
    BY <1>2 DEF StartTeam, StartAsked, RetryAsked
  <2>2. Live = {}
    BY <2>1 DEF LiveIsAlone, Live, Working
  <2>3. \A q \in Runs : run'[q] = IF q = r THEN [run[r] EXCEPT !.step = "starting"] ELSE run[q]
    BY <1>2 DEF StartTeam
  <2>4. Starting' = {r} /\ Live' = {}
    BY <2>1, <2>2, <2>3 DEF Starting, Live, Working
  <2> QED
    BY <2>1, <2>4 DEF StartIsAlone, LiveIsAlone
<1>3. ASSUME NEW r \in Runs, Go(r) PROVE (StartIsAlone /\ LiveIsAlone)'
  <2>1. ~raced /\ r \in Starting
    BY <1>3 DEF Go, Starting
  <2>2. Starting = {r} /\ Live = {} /\ slot = None /\ ~closed /\ record # None
    BY <2>1 DEF StartIsAlone
  <2>3. \A q \in Runs : run'[q] = IF q = r THEN [run[r] EXCEPT !.step = "working"] ELSE run[q]
    BY <1>3 DEF Go
  <2>4. Starting' = {}
    BY <2>2, <2>3 DEF Starting
  <2>5. Live' \subseteq {r}
    BY <2>2, <2>3 DEF Live, Working
  <2>6. slot' = r /\ record' = "running" /\ ~closed'
    BY <1>3, <2>2 DEF Go, Persisted
  <2>7. r \in Live'
    BY <1>3, <2>3 DEF Go, Fresh, Live, Working
  <2> QED
    BY <2>4, <2>5, <2>6, <2>7 DEF StartIsAlone, LiveIsAlone
<1>4. CASE CancelTeam
  <2>1. ~raced /\ Starting = {} /\ slot' = None /\ slot \in Runs
    BY <1>4 DEF CancelTeam
  <2>2. Live = {slot}
    BY <1>4, <2>1 DEF CancelTeam, LiveIsAlone
  <2>3. \A q \in Runs : run'[q] = IF q = slot THEN [run[slot] EXCEPT !.settled = TRUE]
                                               ELSE run[q]
    BY <1>4, <2>1 DEF CancelTeam
  <2>4. Starting' = {} /\ Live' = {}
    BY <2>1, <2>2, <2>3 DEF Starting, Live, Working
  <2> QED
    BY <2>1, <2>4 DEF StartIsAlone, LiveIsAlone
<1>5. ASSUME NEW r \in Runs, NEW verdict \in {"completed", "failed"}, RunEnds(r, verdict)
      PROVE  (StartIsAlone /\ LiveIsAlone)'
  <2>1. ~raced /\ r \in Working /\ closed' = closed
    BY <1>5 DEF RunEnds, Working
  <2>2. \A q \in Runs : run'[q] = IF q = r THEN [run[r] EXCEPT !.step = "over", !.settled = TRUE]
                                            ELSE run[q]
    BY <1>5 DEF RunEnds
  <2>3. Starting' = Starting /\ Live' = Live \ {r}
    BY <2>1, <2>2 DEF Starting, Live, Working
  <2>4. CASE run[r].settled
    <3>1. r \notin Live /\ slot' = slot /\ record' = record
      BY <1>5, <2>4 DEF RunEnds, Live
    <3> QED
      BY <2>1, <2>3, <3>1 DEF StartIsAlone, LiveIsAlone
  <2>5. CASE ~run[r].settled
    <3>1. Live = {r}
      BY <2>1, <2>5 DEF Live, LiveIsAlone, Working
    <3>2. Starting' = {} /\ Live' = {} /\ slot' = None
      BY <1>5, <2>1, <2>3, <2>5, <3>1 DEF RunEnds, StartIsAlone
    <3> QED
      BY <3>2 DEF StartIsAlone, LiveIsAlone
  <2> QED
    BY <2>4, <2>5
<1>6. CASE RemoveTeam
  <2>1. ~raced /\ Starting = {} /\ slot = None /\ slot' = None /\ ~closed
    BY <1>6 DEF RemoveTeam
  <2>2. Live = {}
    BY <2>1 DEF LiveIsAlone, Live, Working
  <2>3. Starting' = {} /\ Live' = {}
    BY <1>6, <2>1, <2>2 DEF RemoveTeam, Starting, Live, Working
  <2> QED
    BY <2>1, <2>3 DEF StartIsAlone, LiveIsAlone
<1>7. CASE DisposeService
  <2>1. ~raced /\ Starting = {} /\ slot' = None /\ closed' /\ record' = record
    BY <1>7 DEF DisposeService
  <2>2. Starting' = {} /\ Live' = Live
    BY <1>7, <2>1 DEF DisposeService, Starting, Live, Working
  <2> QED
    BY <2>1, <2>2 DEF StartIsAlone, LiveIsAlone
<1>8. CASE RestartHost
  <2>1. \A q \in Runs : run'[q].step \notin {"starting", "working"}
    BY <1>8 DEF RestartHost, Starting, Working
  <2>2. Starting' = {} /\ Live' = {} /\ slot' = None
    BY <1>8, <2>1 DEF RestartHost, Starting, Live, Working
  <2> QED
    BY <2>2 DEF StartIsAlone, LiveIsAlone
<1>9. CASE UNCHANGED teamVars
  BY <1>9 DEF teamVars, StartIsAlone, LiveIsAlone, Starting, Live, Working
<1> QED
  BY <1>1, <1>2, <1>3, <1>4, <1>5, <1>6, <1>7, <1>8, <1>9 DEF TeamNext

\* Every step leaves the runs that have not begun unsettled.
LEMMA FreshStep == TeamTypeOK /\ Fresh /\ [TeamNext]_teamVars => Fresh'
<1> SUFFICES ASSUME TeamTypeOK, Fresh, [TeamNext]_teamVars, NEW q \in Runs,
                    run'[q].step \in {"unused", "starting"}
             PROVE  ~run'[q].settled /\ slot' # q
  BY DEF Fresh
<1> USE TeamConstants DEF TeamTypeOK, Fresh
<1>1. CASE CreateTeam \/ RemoveTeam \/ DisposeService \/ UNCHANGED teamVars
  BY <1>1 DEF CreateTeam, RemoveTeam, DisposeService, teamVars
<1>2. ASSUME NEW r \in Runs, StartTeam(r) PROVE ~run'[q].settled /\ slot' # q
  BY <1>2 DEF StartTeam
<1>3. ASSUME NEW r \in Runs, Go(r) PROVE ~run'[q].settled /\ slot' # q
  BY <1>3 DEF Go
<1>4. CASE CancelTeam
  <2>1. slot \in Runs
    BY <1>4 DEF CancelTeam
  <2> QED
    BY <1>4, <2>1 DEF CancelTeam
<1>5. ASSUME NEW r \in Runs, NEW verdict \in {"completed", "failed"}, RunEnds(r, verdict)
      PROVE  ~run'[q].settled /\ slot' # q
  BY <1>5 DEF RunEnds
<1>6. CASE RestartHost
  BY <1>6 DEF RestartHost, Starting, Working
<1> QED
  BY <1>1, <1>2, <1>3, <1>4, <1>5, <1>6 DEF TeamNext

LEMMA NextInv == Inv /\ [TeamNext]_teamVars => Inv'
<1> SUFFICES ASSUME Inv, [TeamNext]_teamVars PROVE Inv'
  OBVIOUS
<1>1. TeamTypeOK'
  BY TypeStep DEF Inv
<1>2. ~raced' => (StartIsAlone /\ LiveIsAlone)'
  BY <1>1, AloneStep
<1>3. Fresh'
  BY FreshStep DEF Inv
<1> QED
  BY <1>1, <1>2, <1>3 DEF Inv

\* Inv holds in every reachable state.
THEOREM Invariance == TeamSpec => []Inv
BY InitInv, NextInv, PTL DEF TeamSpec

\* Every variable of the service keeps its type.
THEOREM TypeCorrect == TeamSpec => []TeamTypeOK
<1>1. Inv => TeamTypeOK
  BY DEF Inv
<1> QED
  BY <1>1, Invariance, PTL

\* cancelTeam() and removeTeam() find the run that may still write the record.
THEOREM Reachable == TeamSpec => []RunIsReachable
<1>1. Inv => RunIsReachable
  BY TeamConstants DEF Inv, RunIsReachable, LiveIsAlone, Live
<1> QED
  BY <1>1, Invariance, PTL

\* A cancelled team stays cancelled until it is started again or removed.
THEOREM CancellationIsKept == TeamSpec => CancellationHolds
<1>1. ASSUME Inv, [TeamNext]_teamVars, ~raced, record = "cancelled", record' # record,
             record' # None, \A r \in Runs : ~Go(r)
      PROVE  FALSE
  <2> USE DEF Inv, TeamTypeOK, LiveIsAlone, Live, Working
  <2>1. ASSUME NEW r \in Runs, NEW verdict \in {"completed", "failed"}, RunEnds(r, verdict)
        PROVE  FALSE
    BY <1>1, <2>1 DEF RunEnds
  <2> QED
    BY <1>1, <2>1 DEF TeamNext, teamVars, CreateTeam, StartTeam, CancelTeam, RemoveTeam, DisposeService, RestartHost, None
<1>2. Inv /\ [TeamNext]_teamVars => [~raced => StaysCancelled]_teamVars
  BY <1>1 DEF StaysCancelled
<1> QED
  BY <1>2, Invariance, PTL DEF TeamSpec, CancellationHolds
=============================================================================
