-------------------------- MODULE SchedulerProofs --------------------------
(* Proofs about Scheduler, for any schedules, slots, history and length of day: *)
(* its types, the concurrency bound and that no occurrence triggers two runs.   *)
EXTENDS Scheduler, TLAPS, WellFoundedInduction, FiniteSetTheorems

\* Entries in the queue are not at work, those at work are counted.
Slots ==
    /\ queue \cap executing = {}
    /\ activeRuns = Cardinality(executing)
    /\ \A r \in queue \cup executing : record[r] \in Record

\* What a definition promises: its next run lies after every occurrence that has
\* triggered a run, and so does every run that would be computed from its last one.
Ahead(D) ==
    \A s \in Schedules : D[s] # NoSchedule =>
        /\ D[s].enabled /\ D[s].next = Never => D[s].plan.kind = "once"
        /\ \A x \in fired : x[1] = s =>
              /\ D[s].next # Never => x[2] < D[s].next
              /\ D[s].last # Never => x[2] <= D[s].last

Past == \A x \in fired : x[2] <= now /\ x[3] <= made

SInv == TypeOK /\ Slots /\ Past /\ Ahead(schedules) /\ Ahead(disk) /\ NoOccurrenceTwice

---------------------------------------------------------------------------
\* Numbers of runs.

LEMMA Smallest ==
  ASSUME NEW S, S \subseteq Nat, S # {}
  PROVE  \E m \in S : \A x \in S : m <= x
<1> DEFINE Less == OpToRel(<, Nat)
<1>1. \E m \in S : \A y \in S : ~(<<y, m>> \in Less)
  <2>1. IsWellFoundedOn(Less, Nat)
    BY NatLessThanWellFounded
  <2> HIDE DEF Less
  <2> QED BY <2>1, WFMin
<1>2. \A a, b \in Nat : a < b => <<a, b>> \in Less
  BY DEF OpToRel
<1>3. \A a, b \in Nat : ~(a < b) => b <= a
  OBVIOUS
<1> HIDE DEF Less
<1> QED BY <1>1, <1>2, <1>3

LEMMA Largest ==
  ASSUME NEW n \in Nat, NEW S, S \subseteq 1..n, S # {}
  PROVE  \E m \in S : \A x \in S : x <= m
<1> DEFINE T == {n - x : x \in S}
<1>1. T \subseteq Nat /\ T # {}
  <2>1. \A x \in S : n - x \in Nat
    OBVIOUS
  <2> QED BY <2>1
<1>2. PICK k \in T : \A y \in T : k <= y
  <2> HIDE DEF T
  <2> QED BY <1>1, Smallest
<1>3. PICK m \in S : k = n - m
  BY <1>2
<1>4. \A x \in S : n - m <= n - x
  BY <1>2, <1>3
<1> QED BY <1>3, <1>4

LEMMA FiniteRuns ==
  ASSUME NEW n \in Nat, NEW S, S \subseteq 1..n
  PROVE  IsFiniteSet(S) /\ Cardinality(S) \in Nat
<1>1. IsFiniteSet(1..n)
  BY FS_Interval
<1>2. IsFiniteSet(S)
  BY <1>1, FS_Subset
<1> QED BY <1>2, FS_CardinalityType

\* Those with fewer than k before them are at most k.
LEMMA FirstFew ==
  ASSUME NEW n \in Nat, NEW F, F \subseteq 1..n, NEW k \in Nat,
         NEW L, L \subseteq F, \A r \in L : Cardinality(Before(F, r)) < k
  PROVE  Cardinality(L) <= k
<1>1. CASE L = {}
  BY <1>1, FS_EmptySet
<1>2. CASE L # {}
  <2>1. PICK m \in L : \A x \in L : x <= m
    BY <1>2, Largest
  <2>2. L \ {m} \subseteq Before(F, m)
    BY <2>1 DEF Before
  <2>3. Before(F, m) \subseteq 1..n /\ IsFiniteSet(Before(F, m)) /\ IsFiniteSet(L)
        /\ Cardinality(L) \in Nat /\ Cardinality(Before(F, m)) \in Nat
    <3>1. Before(F, m) \subseteq 1..n
      BY DEF Before
    <3> QED BY <3>1, FiniteRuns
  <2>4. Cardinality(L \ {m}) <= Cardinality(Before(F, m))
    BY <2>2, <2>3, FS_Subset
  <2>5. Cardinality(L \ {m}) = Cardinality(L) - 1
    BY <2>1, <2>3, FS_RemoveElement
  <2>6. Cardinality(Before(F, m)) < k
    BY <2>1
  <2> QED BY <2>3, <2>4, <2>5, <2>6
<1> QED BY <1>1, <1>2

\* Pumping fills the slots and no more.
LEMMA PumpFills ==
  ASSUME NEW n \in 0..MaxRuns, NEW q, q \subseteq 1..n, NEW going, going \subseteq 1..n,
         q \cap going = {}, NEW from, NEW rec \in [Runs -> Record \cup {NoRecord}],
         \A r \in q \cup going : rec[r] \in Record,
         NEW busy, busy = Cardinality(going), busy <= MaxConcurrent,
         Pump(q, rec, from, going, busy)
  PROVE  /\ record' \in [Runs -> Record \cup {NoRecord}]
         /\ queue' \subseteq 1..n /\ executing' \subseteq 1..n
         /\ activeRuns' \in 0..MaxConcurrent
         /\ Slots'
<1> DEFINE found == {r \in q : r >= from /\ rec[r].status = "queued"}
           L == Launches(q, rec, from, busy)
<1>0. n \in Nat /\ MaxConcurrent \in Nat /\ 1..n \subseteq Runs
  BY SchedulerConstants DEF Runs
<1>1. IsFiniteSet(going) /\ busy \in Nat
  BY <1>0, FiniteRuns
<1>2. L \subseteq found /\ found \subseteq 1..n /\ L \subseteq q
      /\ \A r \in L : Cardinality(Before(found, r)) < MaxConcurrent - busy
  BY DEF Launches
<1>3. MaxConcurrent - busy \in Nat
  BY <1>0, <1>1
<1>4. Cardinality(L) <= MaxConcurrent - busy /\ IsFiniteSet(L) /\ Cardinality(L) \in Nat
  <2> HIDE DEF L, found
  <2>1. L \subseteq 1..n
    BY <1>2
  <2> QED BY <1>0, <1>2, <1>3, <2>1, FirstFew, FiniteRuns
<1>5. Cardinality(going \cup L) = busy + Cardinality(L)
  <2> HIDE DEF L, found
  <2>1. going \cap L = {}
    BY <1>2
  <2>2. Cardinality(going \cup L) = Cardinality(going) + Cardinality(L) - Cardinality(going \cap L)
    BY <1>1, <1>4, FS_Union
  <2>3. Cardinality(going \cap L) = 0
    BY <2>1, FS_EmptySet
  <2> HIDE DEF L, found
  <2>4. busy = Cardinality(going) /\ busy \in Nat /\ Cardinality(L) \in Nat
    BY <1>1, <1>4
  <2> QED BY <2>2, <2>3, <2>4
<1>6. queue' \subseteq q /\ queue' \cap L = {}
  <2>1. \A r \in found : Cardinality(Before(found, r)) \in Nat
    <3> HIDE DEF found
    <3> QED BY <1>0, <1>2, FiniteRuns DEF Before
  <2>2. queue' = {r \in q : Cardinality(Before(found, r)) >= MaxConcurrent - busy}
    BY DEF Pump, Remaining
  <2> HIDE DEF L, found
  <2>3. ASSUME NEW r \in L PROVE r \notin queue'
    <3>1. Cardinality(Before(found, r)) \in Nat
          /\ Cardinality(Before(found, r)) < MaxConcurrent - busy
      BY <1>2, <2>1
    <3>2. ~(Cardinality(Before(found, r)) >= MaxConcurrent - busy)
      BY <1>3, <3>1
    <3> QED BY <2>2, <3>2
  <2> QED BY <2>2, <2>3
<1>7. /\ record' = Running(rec, L) /\ executing' = going \cup L
      /\ activeRuns' = busy + Cardinality(L)
  BY DEF Pump
<1> HIDE DEF L
<1>8. \A r \in L : [rec[r] EXCEPT !.status = "running", !.attempt = 1] \in Record
  BY <1>2 DEF Record, Statuses
<1>9. \A r \in Runs : record'[r] = IF r \in L
                                  THEN [rec[r] EXCEPT !.status = "running", !.attempt = 1]
                                  ELSE rec[r]
  BY <1>7 DEF Running
<1>10. record' \in [Runs -> Record \cup {NoRecord}]
  BY <1>7, <1>8 DEF Running
<1>11. \A r \in queue' \cup executing' : record'[r] \in Record
  BY <1>0, <1>2, <1>6, <1>7, <1>8, <1>9
<1> QED BY <1>0, <1>1, <1>2, <1>4, <1>5, <1>6, <1>7, <1>10, <1>11 DEF Slots

---------------------------------------------------------------------------
\* When a schedule runs next.

LEMMA Remainder ==
  ASSUME NEW a \in Nat
  PROVE  a % Day \in 0..(Day - 1) /\ a % Day <= a
BY SchedulerConstants, SMT

LEMMA DailyIsLater ==
  ASSUME NEW at \in Nat, NEW after \in Nat
  PROVE  NextDaily(at, after) \in Nat /\ NextDaily(at, after) > after
<1>1. /\ at % Day \in 0..(Day - 1) /\ after % Day \in 0..(Day - 1) /\ after % Day <= after
      /\ Day \in Nat
  BY Remainder, SchedulerConstants
<1> QED BY <1>1 DEF NextDaily

LEMMA NextRun ==
  ASSUME NEW plan \in Plans, NEW enabled \in BOOLEAN, NEW last \in Time, NEW after \in Nat
  PROVE  LET next == NextRunAt(plan, enabled, last, after)
         IN  /\ next \in Time
             /\ enabled /\ next = Never => plan.kind = "once"
             /\ next # Never => \/ next > after
                                \/ last # Never /\ next > last
<1>1. /\ plan.kind \in {"once", "every", "daily"} /\ plan.at \in Nat
      /\ plan.kind = "every" => plan.at > 0
  BY SchedulerConstants DEF Plan
<1>2. CASE ~enabled
  BY <1>2 DEF NextRunAt, Time, Never
<1>3. CASE enabled /\ plan.kind = "once"
  BY <1>1, <1>3 DEF NextRunAt, Time, Never
<1>4. CASE enabled /\ plan.kind = "every"
  BY <1>1, <1>4 DEF NextRunAt, Time, Never
<1>5. CASE enabled /\ plan.kind = "daily"
  BY <1>1, <1>5, DailyIsLater DEF NextRunAt, Time, Never
<1> QED BY <1>1, <1>2, <1>3, <1>4, <1>5

LEMMA RanNowIsLater ==
  ASSUME NEW def \in Definition, now \in Nat
  PROVE  LET ran == RanNow(def)
         IN  /\ ran \in Definition /\ ran # NoSchedule
             /\ ran.plan = def.plan /\ ran.enabled = def.enabled /\ ran.last = now
             /\ ran.enabled /\ ran.next = Never => ran.plan.kind = "once"
             /\ ran.next # Never => ran.next > now
<1> DEFINE next == NextRunAt(def.plan, def.enabled, now, now)
<1>1. def.plan \in Plans /\ def.enabled \in BOOLEAN /\ now \in Time
  BY DEF Definition, Time
<1>2. /\ next \in Time
      /\ def.enabled /\ next = Never => def.plan.kind = "once"
      /\ next # Never => next > now
  BY <1>1, NextRun
<1>3. RanNow(def) = [def EXCEPT !.last = now, !.next = next]
  BY DEF RanNow
<1> HIDE DEF next
<1>4. RanNow(def) \in Definition
  BY <1>1, <1>2, <1>3 DEF Definition
<1>5. RanNow(def) # NoSchedule
  <2>1. now # Never
    BY DEF Never
  <2>2. "last" \in DOMAIN RanNow(def)
    BY <1>4 DEF Definition
  <2> QED BY <2>2 DEF NoSchedule
<1> QED BY <1>2, <1>3, <1>4, <1>5 DEF Definition

\* upsert() keeps the bookkeeping.
LEMMA UpsertedIsLater ==
  ASSUME NEW plan \in Plans, NEW enabled \in BOOLEAN,
         NEW old \in Definition \cup {NoSchedule}, now \in Nat
  PROVE  LET def == Upserted(plan, enabled, old)
         IN  /\ def \in Definition
             /\ def.enabled /\ def.next = Never => def.plan.kind = "once"
             /\ def.last # Never => old # NoSchedule /\ def.last = old.last
             /\ def.next # Never => \/ def.next > now
                                    \/ def.last # Never /\ def.next > def.last
<1> DEFINE last == IF old = NoSchedule THEN Never ELSE old.last
           next == NextRunAt(plan, enabled, last, now)
<1>1. last \in Time
  BY DEF Time, Definition
<1>2. /\ next \in Time
      /\ enabled /\ next = Never => plan.kind = "once"
      /\ next # Never => \/ next > now
                         \/ last # Never /\ next > last
  <2> HIDE DEF last
  <2> QED BY <1>1, NextRun
<1>3. Upserted(plan, enabled, old) = [plan |-> plan, enabled |-> enabled, last |-> last, next |-> next]
  BY DEF Upserted
<1>4. last # Never => old # NoSchedule /\ last = old.last
  OBVIOUS
<1> HIDE DEF last, next
<1> QED BY <1>1, <1>2, <1>3, <1>4 DEF Definition

---------------------------------------------------------------------------
\* A tick.

LEMMA CutTyped ==
  ASSUME oldest \in 1..(MaxRuns + 1), NEW skipped, skipped \subseteq Runs
  PROVE  Cut(skipped) \in 1..(MaxRuns + 1)
<1> DEFINE over == {r \in skipped : r - oldest + 1 > HistoryMax}
           first == CHOOSE r \in over : \A x \in over : r <= x
<1>0. /\ MaxRuns \in Nat /\ HistoryMax \in Nat /\ HistoryKeep \in Nat
      /\ HistoryKeep > 0 /\ HistoryKeep <= HistoryMax
  BY SchedulerConstants
<1>1. CASE over = {}
  BY <1>1 DEF Cut
<1>2. CASE over # {}
  <2>1. \E r \in over : \A x \in over : r <= x
    <3>0. Runs \subseteq Nat
      BY DEF Runs
    <3>1. over \subseteq Nat
      BY <3>0
    <3> HIDE DEF over
    <3> QED BY <1>2, <3>1, Smallest
  <2>2. first \in over
    <3> HIDE DEF over
    <3> QED BY <2>1
  <2>3. first \in 1..MaxRuns /\ first - oldest + 1 > HistoryMax
    BY <2>2 DEF Runs
  <2>4. Cut(skipped) = first - HistoryKeep + 1
    BY <1>2 DEF Cut
  <2> HIDE DEF first
  <2> QED BY <1>0, <2>3, <2>4
<1> QED BY <1>1, <1>2

Definitions == [Schedules -> Definition \cup {NoSchedule}]

LEMMA DueIsAhead ==
  ASSUME NEW D \in Definitions, Ahead(D), NEW s \in Schedules, Due(D[s]), now \in Nat
  PROVE  /\ D[s] \in Definition /\ D[s] # NoSchedule
         /\ D[s].next # Never /\ Occurrence(D[s]) = D[s].next
         /\ D[s].next \in Nat /\ D[s].next <= now
         /\ \A x \in fired : x[1] = s => x[2] < D[s].next
<1>1. D[s].enabled /\ Occurrence(D[s]) # Never /\ Occurrence(D[s]) <= now
  BY DEF Due
<1>2. D[s] # NoSchedule /\ D[s] \in Definition
  BY <1>1 DEF NoSchedule, Definitions
<1>3. D[s].next # Never
  <2> SUFFICES ASSUME D[s].next = Never PROVE FALSE
    OBVIOUS
  <2>1. D[s].plan.kind = "once" /\ D[s].plan.at \in Nat
    BY <1>1, <1>2, SchedulerConstants DEF Ahead, Definition, Plan
  <2>2. Occurrence(D[s]) = NextRunAt(D[s].plan, D[s].enabled, D[s].last, now)
    BY DEF Occurrence
  <2>3. Occurrence(D[s]) = IF D[s].plan.at > now THEN D[s].plan.at ELSE Never
    BY <1>1, <2>1, <2>2 DEF NextRunAt
  <2> QED BY <1>1, <2>1, <2>3
<1>4. Occurrence(D[s]) = D[s].next
  BY <1>3 DEF Occurrence
<1>5. D[s].next \in Nat
  BY <1>2, <1>3 DEF Definition, Time
<1> QED BY <1>1, <1>2, <1>3, <1>4, <1>5 DEF Ahead

\* What a step keeps, whatever it does to the definitions and to the queue.
Kept ==
    /\ made' \in 0..MaxRuns
    /\ schedules' \in Definitions
    /\ record' \in [Runs -> Record \cup {NoRecord}]
    /\ oldest' \in 1..(MaxRuns + 1)
    /\ queue' \subseteq 1..made' /\ executing' \subseteq 1..made'
    /\ activeRuns' \in 0..MaxConcurrent
    /\ fired' \subseteq Schedules \X Nat \X Runs
    /\ Slots' /\ Past' /\ NoOccurrenceTwice'
    /\ Ahead(schedules)'

LEMMA NewRuns ==
  ASSUME NEW m \in Nat, NEW k \in Nat
  PROVE  /\ (m + 1)..(m + k) \subseteq 1..(m + k)
         /\ \A r \in (m + 1)..(m + k) : r > m /\ r <= m + k
         /\ IsFiniteSet((m + 1)..(m + k)) /\ Cardinality((m + 1)..(m + k)) = k
<1>1. IsFiniteSet((m + 1)..(m + k))
      /\ Cardinality((m + 1)..(m + k)) = IF m + 1 > m + k THEN 0 ELSE m + k - (m + 1) + 1
  <2>1. m + 1 \in Int /\ m + k \in Int
    OBVIOUS
  <2> QED BY <2>1, FS_Interval
<1> QED BY <1>1

LEMMA Tick ==
  ASSUME SInv, NEW D \in Definitions, Ahead(D), TickOver(D), now' = now
  PROVE  Kept
<1> DEFINE due == {s \in Schedules : Due(D[s])}
           skip == {s \in due : Missed(D[s]) /\ D[s].plan.policy = "skip"}
           new == (made + 1)..(made + Cardinality(due))
<1>0. /\ made \in 0..MaxRuns /\ made \in Nat /\ now \in Nat /\ MaxRuns \in Nat
      /\ IsFiniteSet(due) /\ Cardinality(due) \in Nat
  <2>1. IsFiniteSet(due) /\ Cardinality(due) \in Nat
    BY SchedulerConstants, FS_Subset, FS_CardinalityType
  <2> QED BY <2>1, SchedulerConstants DEF SInv, TypeOK
<1>1. /\ made' = made + Cardinality(due) /\ made' \in 0..MaxRuns
      /\ schedules' = [s \in Schedules |-> IF s \in due THEN RanNow(D[s]) ELSE D[s]]
  BY <1>0 DEF TickOver
<1>2. PICK of \in [new -> due] :
         /\ \A s \in due : \E r \in new : of[r] = s
         /\ oldest' = Cut({r \in new : of[r] \in skip})
         /\ fired' = fired \cup {<<of[r], Occurrence(D[of[r]]), r>> : r \in new}
         /\ Pump(queue \cup {r \in new : of[r] \notin skip},
                 [r \in Runs |-> IF r \notin new THEN record[r]
                                 ELSE IF of[r] \in skip
                                 THEN Skipped(of[r], D[of[r]].plan)
                                 ELSE Queued(of[r], D[of[r]].plan)],
                 oldest', executing, activeRuns)
  BY DEF TickOver
<1>3. /\ new \subseteq 1..made' /\ new \subseteq Runs
      /\ \A r \in new : r > made /\ r <= made'
  <2>1. /\ new \subseteq 1..(made + Cardinality(due))
        /\ \A r \in new : r > made /\ r <= made + Cardinality(due)
    <3> HIDE DEF due
    <3> QED BY <1>0, NewRuns
  <2>2. made + Cardinality(due) <= MaxRuns
    BY DEF TickOver
  <2> HIDE DEF due, new
  <2> QED BY <1>0, <1>1, <2>1, <2>2 DEF Runs
<1>4. \A q, r \in new : of[q] = of[r] => q = r
  <2>1. IsFiniteSet(new) /\ Cardinality(new) = Cardinality(due)
    <3> HIDE DEF due
    <3> QED BY <1>0, NewRuns
  <2>2. of \in Surjection(new, due)
    BY <1>2 DEF Surjection
  <2>3. of \in Injection(new, due)
    <3> HIDE DEF new, due
    <3> QED BY <2>1, <2>2, FS_SurjSameCardinalityImpliesInj
  <2> QED BY <2>3 DEF Injection, IsInjective
<1>5. \A s \in due : /\ s \in Schedules /\ D[s] \in Definition /\ Occurrence(D[s]) = D[s].next
                     /\ D[s].next \in Nat /\ D[s].next <= now
                     /\ \A x \in fired : x[1] = s => x[2] < D[s].next
  BY <1>0, DueIsAhead
<1> HIDE DEF due, skip, new
<1>6. \A r \in new : of[r] \in Schedules /\ D[of[r]] \in Definition
  BY <1>2, <1>5
<1>7. schedules' \in Definitions
  <2>1. \A s \in Schedules : schedules'[s] \in Definition \cup {NoSchedule}
    BY <1>0, <1>1, <1>5, RanNowIsLater DEF Definitions
  <2> QED BY <1>1, <2>1 DEF Definitions
<1>8. oldest' \in 1..(MaxRuns + 1)
  BY <1>2, <1>3, CutTyped DEF SInv, TypeOK
<1>9. /\ record' \in [Runs -> Record \cup {NoRecord}]
      /\ queue' \subseteq 1..made' /\ executing' \subseteq 1..made'
      /\ activeRuns' \in 0..MaxConcurrent
      /\ Slots'
  <2> DEFINE q == queue \cup {r \in new : of[r] \notin skip}
             rec == [r \in Runs |-> IF r \notin new THEN record[r]
                                    ELSE IF of[r] \in skip
                                    THEN Skipped(of[r], D[of[r]].plan)
                                    ELSE Queued(of[r], D[of[r]].plan)]
  <2>1. \A r \in new : /\ Skipped(of[r], D[of[r]].plan) \in Record
                       /\ Queued(of[r], D[of[r]].plan) \in Record
    <3>1. \A s \in Schedules, p \in Plans : Skipped(s, p) \in Record /\ Queued(s, p) \in Record
      BY SchedulerConstants DEF Skipped, Queued, Record, Statuses, Plan
    <3> QED BY <1>6, <3>1 DEF Definition
  <2>2. \A r \in Runs : /\ r \in new => rec[r] \in Record
                        /\ r \notin new => rec[r] = record[r]
    BY <2>1
  <2>3. rec \in [Runs -> Record \cup {NoRecord}]
    BY <2>1 DEF SInv, TypeOK
  <2>4. queue \subseteq 1..made /\ executing \subseteq 1..made /\ queue \cap executing = {}
        /\ \A r \in queue \cup executing : record[r] \in Record
    BY DEF SInv, TypeOK, Slots
  <2>5. 1..made \subseteq 1..made' /\ 1..made' \subseteq Runs
    BY <1>0, <1>1 DEF Runs
  <2>6. \A r \in new : r \notin 1..made
    BY <1>0, <1>3
  <2>7. /\ q \subseteq 1..made' /\ executing \subseteq 1..made' /\ q \cap executing = {}
    BY <1>3, <2>4, <2>5, <2>6
  <2>8. \A r \in q \cup executing : rec[r] \in Record
    BY <1>3, <2>2, <2>4, <2>5
  <2>9. Pump(q, rec, oldest', executing, activeRuns)
    BY <1>2
  <2>10. activeRuns = Cardinality(executing) /\ activeRuns <= MaxConcurrent
    BY SchedulerConstants DEF SInv, TypeOK, Slots
  <2> HIDE DEF q, rec
  <2> QED BY <1>1, <2>3, <2>7, <2>8, <2>9, <2>10, PumpFills
<1>10. \A x \in fired' : \/ x \in fired
                         \/ \E r \in new : x = <<of[r], D[of[r]].next, r>>
  BY <1>2, <1>5
<1>11. fired' \subseteq Schedules \X Nat \X Runs
  <2>1. \A r \in new : <<of[r], D[of[r]].next, r>> \in Schedules \X Nat \X Runs
    BY <1>2, <1>3, <1>5
  <2> QED BY <1>10, <2>1 DEF SInv, TypeOK
<1>12. Past'
  <2>1. \A r \in new : D[of[r]].next <= now /\ r <= made'
    BY <1>2, <1>3, <1>5
  <2>2. \A x \in fired : x[2] <= now /\ x[3] <= made'
    <3>1. \A x \in fired : x[3] \in Nat
      BY DEF SInv, TypeOK, Runs
    <3> QED BY <1>0, <1>1, <3>1 DEF SInv, Past
  <2> QED BY <1>10, <2>1, <2>2 DEF Past
<1>13. NoOccurrenceTwice'
  <2> SUFFICES ASSUME NEW x \in fired', NEW y \in fired', x[1] = y[1], x[2] = y[2]
               PROVE  x = y
    BY DEF NoOccurrenceTwice
  <2>1. \A a \in fired, r \in new : ~(a[1] = of[r] /\ a[2] = D[of[r]].next)
    <3> SUFFICES ASSUME NEW a \in fired, NEW r \in new, a[1] = of[r], a[2] = D[of[r]].next
                 PROVE  FALSE
      OBVIOUS
    <3>1. of[r] \in due
      BY <1>2
    <3>2. a[2] < D[of[r]].next /\ D[of[r]].next \in Nat
      BY <1>5, <3>1
    <3> QED BY <3>2
  <2>2. CASE x \in fired /\ y \in fired
    BY <2>2 DEF SInv, NoOccurrenceTwice
  <2>3. CASE x \in fired /\ y \notin fired
    BY <1>10, <2>1, <2>3
  <2>4. CASE x \notin fired /\ y \in fired
    BY <1>10, <2>1, <2>4
  <2>5. CASE x \notin fired /\ y \notin fired
    BY <1>4, <1>10, <2>5
  <2> QED BY <2>2, <2>3, <2>4, <2>5
<1>14. Ahead(schedules)'
  <2> SUFFICES ASSUME NEW s \in Schedules, schedules'[s] # NoSchedule
               PROVE  /\ schedules'[s].enabled /\ schedules'[s].next = Never
                         => schedules'[s].plan.kind = "once"
                      /\ \A x \in fired' : x[1] = s =>
                            /\ schedules'[s].next # Never => x[2] < schedules'[s].next
                            /\ schedules'[s].last # Never => x[2] <= schedules'[s].last
    BY DEF Ahead
  <2>1. \A x \in fired' : x[2] \in Nat /\ x[2] <= now
    BY <1>11, <1>12 DEF Past
  <2>2. CASE s \in due
    <3>1. schedules'[s] = RanNow(D[s]) /\ D[s] \in Definition
      BY <1>1, <1>5, <2>2
    <3>2. /\ RanNow(D[s]).last = now
          /\ RanNow(D[s]).enabled /\ RanNow(D[s]).next = Never => RanNow(D[s]).plan.kind = "once"
          /\ RanNow(D[s]).next # Never => RanNow(D[s]).next > now
          /\ RanNow(D[s]).next # Never => RanNow(D[s]).next \in Nat
      BY <1>0, <3>1, RanNowIsLater DEF Definition, Time
    <3> QED BY <1>0, <2>1, <3>1, <3>2
  <2>3. CASE s \notin due
    <3>1. schedules'[s] = D[s]
      BY <1>1, <2>3
    <3>2. \A x \in fired' : x[1] = s => x \in fired
      BY <1>2, <1>10, <2>3
    <3> QED BY <3>1, <3>2 DEF Ahead
  <2> QED BY <2>2, <2>3
<1> QED BY <1>1, <1>7, <1>8, <1>9, <1>11, <1>12, <1>13, <1>14 DEF Kept

---------------------------------------------------------------------------
\* The other steps.

LEMMA SameRuns ==
  ASSUME SInv, UNCHANGED <<runVars, fired, now>>, schedules' \in Definitions, Ahead(schedules')
  PROVE  Kept
<1>1. Slots'
  BY DEF SInv, Slots, runVars
<1>2. Past' /\ NoOccurrenceTwice'
  BY DEF SInv, Past, NoOccurrenceTwice, runVars
<1>3. Ahead(schedules)'
  BY DEF Ahead
<1> QED BY <1>1, <1>2, <1>3 DEF Kept, SInv, TypeOK, runVars

LEMMA Starts ==
  ASSUME SInv, NEW D \in Definitions, Ahead(D), EnsureStarted(D), now' = now
  PROVE  Kept /\ started' \in BOOLEAN
<1>1. CASE started \/ \A s \in Schedules : ~D[s].enabled
  <2>1. schedules' = D /\ UNCHANGED <<started, runVars, fired>>
    BY <1>1 DEF EnsureStarted
  <2> QED BY <2>1, SameRuns DEF SInv, TypeOK
<1>2. CASE ~(started \/ \A s \in Schedules : ~D[s].enabled)
  <2>1. started' = TRUE /\ TickOver(D)
    BY <1>2 DEF EnsureStarted
  <2> QED BY <2>1, Tick
<1> QED BY <1>1, <1>2

LEMMA EditedIsAhead ==
  ASSUME SInv, NEW s \in Schedules, NEW plan \in Plans, NEW enabled \in BOOLEAN
  PROVE  LET D == [schedules EXCEPT ![s] = Upserted(plan, enabled, schedules[s])]
         IN  D \in Definitions /\ Ahead(D)
<1> DEFINE up == Upserted(plan, enabled, schedules[s])
           D == [schedules EXCEPT ![s] = up]
<1>1. schedules \in Definitions /\ now \in Nat
      /\ \A x \in fired : x[2] \in Nat /\ x[2] <= now
  BY SchedulerConstants DEF SInv, TypeOK, Definitions, Past
<1>2. schedules[s] \in Definition \cup {NoSchedule}
  BY <1>1 DEF Definitions
<1>3. /\ up \in Definition
      /\ up.enabled /\ up.next = Never => up.plan.kind = "once"
      /\ up.last # Never => schedules[s] # NoSchedule /\ up.last = schedules[s].last
      /\ up.next # Never => \/ up.next > now
                            \/ up.last # Never /\ up.next > up.last
  BY <1>1, <1>2, UpsertedIsLater
<1> HIDE DEF up
<1>4. D \in Definitions /\ D[s] = up /\ \A u \in Schedules : u # s => D[u] = schedules[u]
  BY <1>1, <1>3 DEF Definitions
<1>5. ASSUME NEW x \in fired, x[1] = s
      PROVE  /\ up.last # Never => x[2] <= up.last
             /\ up.next # Never => x[2] < up.next
  <2>1. up.last # Never => x[2] <= up.last
    BY <1>3, <1>5 DEF SInv, Ahead
  <2>2. up.next \in Time /\ up.last \in Time
    BY <1>3 DEF Definition
  <2> QED BY <1>1, <1>3, <2>1, <2>2 DEF Time, Never
<1>6. Ahead(D)
  <2> SUFFICES ASSUME NEW u \in Schedules, D[u] # NoSchedule
               PROVE  /\ D[u].enabled /\ D[u].next = Never => D[u].plan.kind = "once"
                      /\ \A x \in fired : x[1] = u =>
                            /\ D[u].next # Never => x[2] < D[u].next
                            /\ D[u].last # Never => x[2] <= D[u].last
    BY DEF Ahead
  <2>1. CASE u = s
    BY <1>3, <1>4, <1>5, <2>1
  <2>2. CASE u # s
    BY <1>4, <2>2 DEF SInv, Ahead
  <2> QED BY <2>1, <2>2
<1> QED BY <1>4, <1>6 DEF up

LEMMA RunsByHand ==
  ASSUME SInv, NEW s \in Schedules, RunNow(s)
  PROVE  Kept
<1> DEFINE ran == RanNow(schedules[s])
           new == made + 1
<1>1. /\ schedules \in Definitions /\ now \in Nat /\ made \in Nat /\ MaxRuns \in Nat
      /\ new \in 1..MaxRuns /\ made' = new /\ made' \in 0..MaxRuns
      /\ \A x \in fired : x[2] \in Nat /\ x[2] <= now /\ x[3] \in Nat /\ x[3] <= made
  BY SchedulerConstants DEF SInv, TypeOK, Definitions, Past, RunNow, Runs
<1>2. schedules[s] \in Definition
  BY <1>1 DEF Definitions, RunNow, NoSchedule
<1>3. /\ ran \in Definition /\ ran.last = now
      /\ ran.enabled /\ ran.next = Never => ran.plan.kind = "once"
      /\ ran.next # Never => ran.next > now
  BY <1>1, <1>2, RanNowIsLater
<1>4. schedules' = [schedules EXCEPT ![s] = ran] /\ UNCHANGED <<oldest, fired, now>>
  BY DEF RunNow
<1> HIDE DEF ran
<1>5. schedules' \in Definitions
  BY <1>1, <1>3, <1>4 DEF Definitions
<1>6. Ahead(schedules)'
  <2> SUFFICES ASSUME NEW u \in Schedules, schedules'[u] # NoSchedule
               PROVE  /\ schedules'[u].enabled /\ schedules'[u].next = Never
                         => schedules'[u].plan.kind = "once"
                      /\ \A x \in fired : x[1] = u =>
                            /\ schedules'[u].next # Never => x[2] < schedules'[u].next
                            /\ schedules'[u].last # Never => x[2] <= schedules'[u].last
    BY <1>4 DEF Ahead
  <2>1. CASE u = s
    <3>1. schedules'[u] = ran /\ ran.next \in Time
      BY <1>1, <1>3, <1>4, <2>1 DEF Definitions, Definition
    <3> QED BY <1>1, <1>3, <3>1 DEF Time, Never
  <2>2. CASE u # s
    <3>1. schedules'[u] = schedules[u]
      BY <1>1, <1>4, <2>2 DEF Definitions
    <3> QED BY <3>1 DEF SInv, Ahead
  <2> QED BY <2>1, <2>2
<1>7. /\ record' \in [Runs -> Record \cup {NoRecord}]
      /\ queue' \subseteq 1..made' /\ executing' \subseteq 1..made'
      /\ activeRuns' \in 0..MaxConcurrent
      /\ Slots'
  <2> DEFINE q == queue \cup {new}
             x == Queued(s, schedules[s].plan)
             rec == [record EXCEPT ![new] = x]
  <2>1. x \in Record
    <3>1. \A p \in Plans : Queued(s, p) \in Record
      BY SchedulerConstants DEF Queued, Record, Statuses, Plan
    <3> QED BY <1>2, <3>1 DEF Definition
  <2>2. record \in [Runs -> Record \cup {NoRecord}] /\ new \in Runs
    BY <1>1 DEF SInv, TypeOK, Runs
  <2> HIDE DEF x
  <2>3. rec \in [Runs -> Record \cup {NoRecord}]
        /\ \A r \in Runs : rec[r] = IF r = new THEN x ELSE record[r]
    BY <2>1, <2>2
  <2>4. queue \subseteq 1..made /\ executing \subseteq 1..made /\ queue \cap executing = {}
        /\ \A r \in queue \cup executing : record[r] \in Record
    BY DEF SInv, TypeOK, Slots
  <2>5. 1..made \subseteq 1..new /\ 1..new \subseteq Runs /\ new \notin 1..made /\ new \in 1..new
    BY <1>1 DEF Runs
  <2>6. q \subseteq 1..made' /\ executing \subseteq 1..made' /\ q \cap executing = {}
    BY <1>1, <2>4, <2>5
  <2>7. \A r \in q \cup executing : rec[r] \in Record
    BY <2>1, <2>3, <2>4, <2>5
  <2>8. Pump(q, rec, oldest, executing, activeRuns)
    BY DEF RunNow, x
  <2>9. activeRuns = Cardinality(executing) /\ activeRuns <= MaxConcurrent
    BY SchedulerConstants DEF SInv, TypeOK, Slots
  <2> HIDE DEF q, rec
  <2> QED BY <1>1, <2>3, <2>6, <2>7, <2>8, <2>9, PumpFills
<1>8. Past'
  BY <1>1, <1>4 DEF Past
<1>9. NoOccurrenceTwice'
  BY <1>4 DEF SInv, NoOccurrenceTwice
<1>10. oldest' \in 1..(MaxRuns + 1) /\ fired' \subseteq Schedules \X Nat \X Runs
  BY <1>4 DEF SInv, TypeOK
<1> QED BY <1>1, <1>5, <1>6, <1>7, <1>8, <1>9, <1>10 DEF Kept

\* What has settled gives its slot back.
LEMMA Settles ==
  ASSUME SInv, NEW r \in executing, NEW status \in Statuses, Finish(r, status),
         UNCHANGED <<schedules, made, oldest, fired, now>>
  PROVE  Kept
<1> DEFINE going == executing \ {r}
           rec == [record EXCEPT ![r].status = status]
<1>1. /\ made \in 0..MaxRuns /\ made \in Nat /\ MaxRuns \in Nat /\ MaxConcurrent \in Nat
      /\ executing \subseteq 1..made /\ queue \subseteq 1..made
      /\ queue \cap executing = {} /\ r \in Runs
      /\ record \in [Runs -> Record \cup {NoRecord}]
      /\ \A q \in queue \cup executing : record[q] \in Record
  BY SchedulerConstants DEF SInv, TypeOK, Slots, Runs
<1>2. activeRuns = Cardinality(executing) /\ activeRuns \in 0..MaxConcurrent
  BY DEF SInv, TypeOK, Slots
<1>3. activeRuns - 1 = Cardinality(going) /\ activeRuns - 1 <= MaxConcurrent
  <2>1. IsFiniteSet(executing)
    BY <1>1, FiniteRuns
  <2>2. Cardinality(going) = Cardinality(executing) - 1
    BY <2>1, FS_RemoveElement
  <2> QED BY <1>1, <1>2, <2>2
<1>4. [record[r] EXCEPT !.status = status] \in Record
  BY <1>1 DEF Record
<1>5. rec \in [Runs -> Record \cup {NoRecord}]
      /\ \A q \in Runs : rec[q] = IF q = r THEN [record[r] EXCEPT !.status = status] ELSE record[q]
  BY <1>1, <1>4
<1>6. \A q \in queue \cup going : rec[q] \in Record
  <2>1. 1..made \subseteq Runs
    BY <1>1 DEF Runs
  <2> HIDE DEF rec
  <2> QED BY <1>1, <1>4, <1>5, <2>1
<1>7. Pump(queue, rec, oldest, going, activeRuns - 1)
  BY DEF Finish
<1>8. going \subseteq 1..made /\ queue \cap going = {}
  BY <1>1
<1>9. /\ record' \in [Runs -> Record \cup {NoRecord}]
      /\ queue' \subseteq 1..made /\ executing' \subseteq 1..made
      /\ activeRuns' \in 0..MaxConcurrent
      /\ Slots'
  <2> HIDE DEF rec, going
  <2> QED BY <1>1, <1>3, <1>5, <1>6, <1>7, <1>8, PumpFills
<1>10. Past' /\ NoOccurrenceTwice' /\ Ahead(schedules)'
  BY DEF SInv, Past, NoOccurrenceTwice, Ahead
<1> QED BY <1>9, <1>10 DEF Kept, SInv, TypeOK, Definitions

LEMMA KeptIsEnough ==
  ASSUME SInv, Kept, now' = now, process' \in {"down", "up", "disposed"},
         edits' \in 0..MaxEdits, deaths' \in 0..MaxDeaths, started' \in BOOLEAN, disk' = schedules' \/ disk' = schedules \/ disk' = disk,
         \/ disk' = schedules'
         \/ fired' = fired
  PROVE  SInv'
<1>1. disk' \in Definitions
  BY DEF SInv, TypeOK, Kept, Definitions
<1>2. Ahead(disk)'
  <2>1. CASE disk' = schedules'
    BY <2>1 DEF Kept, Ahead
  <2>2. CASE fired' = fired /\ disk' # schedules'
    BY <2>2 DEF SInv, Ahead
  <2> QED BY <2>1, <2>2
<1>3. TypeOK'
  BY <1>1 DEF SInv, TypeOK, Kept, Definitions
<1> QED BY <1>2, <1>3 DEF SInv, Kept

LEMMA Bounds ==
  ASSUME SInv
  PROVE  /\ edits \in 0..MaxEdits /\ deaths \in 0..MaxDeaths
         /\ process \in {"down", "up", "disposed"} /\ started \in BOOLEAN
         /\ schedules \in Definitions /\ disk \in Definitions
         /\ edits < MaxEdits => edits + 1 \in 0..MaxEdits
         /\ deaths < MaxDeaths => deaths + 1 \in 0..MaxDeaths
         /\ now < MaxTime => now + 1 \in 0..MaxTime
BY SchedulerConstants DEF SInv, TypeOK, Definitions

LEMMA Step ==
  ASSUME SInv, [Next]_vars
  PROVE  SInv'
<1>1. ASSUME NEW s \in Schedules, NEW p \in Plans, NEW e \in BOOLEAN, Save(s, p, e)
      PROVE  SInv'
  <2>1. Kept /\ started' \in BOOLEAN
    BY <1>1, EditedIsAhead, Starts DEF Save
  <2> QED BY <1>1, <2>1, Bounds, KeptIsEnough DEF Save, Edit, Persist
<1>2. ASSUME NEW s \in Schedules, NEW e \in BOOLEAN, SetEnabled(s, e)
      PROVE  SInv'
  <2>1. schedules[s].plan \in Plans
    BY <1>2, Bounds DEF SetEnabled, Definitions, Definition
  <2>2. Kept /\ started' \in BOOLEAN
    BY <1>2, <2>1, EditedIsAhead, Starts DEF SetEnabled
  <2> QED BY <1>2, <2>2, Bounds, KeptIsEnough DEF SetEnabled, Edit, Persist
<1>3. ASSUME NEW s \in Schedules, Remove(s) PROVE SInv'
  <2>1. schedules' \in Definitions /\ Ahead(schedules')
    BY <1>3, Bounds DEF Remove, Definitions, SInv, Ahead
  <2>2. Kept
    BY <1>3, <2>1, SameRuns DEF Remove
  <2> QED BY <1>3, <2>2, Bounds, KeptIsEnough DEF Remove, Edit, Persist
<1>4. ASSUME NEW s \in Schedules, RunNow(s) PROVE SInv'
  BY <1>4, Bounds, RunsByHand, KeptIsEnough DEF RunNow, Persist
<1>5. CASE ProcessTick
  <2>1. Kept
    BY <1>5, Bounds, Tick DEF ProcessTick, SInv
  <2> QED BY <1>5, <2>1, Bounds, KeptIsEnough DEF ProcessTick, Persist
<1>6. ASSUME NEW r \in Runs, Succeeds(r) \/ Fails(r) PROVE SInv'
  <2>1. Kept
    BY <1>6, Settles DEF Succeeds, Fails, Statuses
  <2> QED BY <1>6, <2>1, Bounds, KeptIsEnough DEF Succeeds, Fails
<1>7. ASSUME NEW r \in Runs, Retries(r) PROVE SInv'
  <2>1. record[r] \in Record
    BY <1>7 DEF Retries, SInv, Slots
  <2>2. [record[r] EXCEPT !.status = "failed", !.attempt = @ + 1] \in Record
    <3>1. \A x \in Record : [x EXCEPT !.status = "failed"] \in Record
      BY DEF Record, Statuses
    <3>2. \A x \in Record : x.attempt + 1 \in Nat
      BY DEF Record
    <3>3. \A x \in Record, n \in Nat : [x EXCEPT !.attempt = n] \in Record
      BY DEF Record
    <3>4. [record[r] EXCEPT !.status = "failed", !.attempt = @ + 1]
             = [[record[r] EXCEPT !.status = "failed"] EXCEPT !.attempt = record[r].attempt + 1]
      BY <2>1 DEF Record
    <3> QED BY <2>1, <3>1, <3>2, <3>3, <3>4
  <2>3. record' \in [Runs -> Record \cup {NoRecord}]
    BY <1>7, <2>2 DEF Retries, SInv, TypeOK
  <2>4. \A q \in Runs : q # r => record'[q] = record[q]
    BY <1>7 DEF Retries, SInv, TypeOK
  <2>5. record'[r] \in Record
    BY <1>7, <2>2 DEF Retries, SInv, TypeOK
  <2>6. queue \cup executing \subseteq Runs
    BY SchedulerConstants DEF SInv, TypeOK, Runs
  <2>7. Slots'
    BY <1>7, <2>4, <2>5, <2>6 DEF SInv, Slots, Retries
  <2>8. Kept
    BY <1>7, <2>3, <2>7 DEF Kept, Retries, SInv, TypeOK, Past, NoOccurrenceTwice, Ahead, Definitions
  <2> QED BY <1>7, <2>8, Bounds, KeptIsEnough DEF Retries
<1>8. CASE Dispose
  <2>1. \A r \in Runs : record[r].status \in {"queued", "running"} =>
           [record[r] EXCEPT !.status = "cancelled"] \in Record
    <3>1. \A r \in Runs : record[r] \in Record \cup {NoRecord}
      BY DEF SInv, TypeOK
    <3>2. \A x \in Record : [x EXCEPT !.status = "cancelled"] \in Record
      BY DEF Record, Statuses
    <3> QED BY <3>1, <3>2 DEF NoRecord
  <2>2. record' \in [Runs -> Record \cup {NoRecord}]
        /\ \A r \in Runs : record[r] \in Record => record'[r] \in Record
    BY <1>8, <2>1 DEF Dispose, SInv, TypeOK
  <2>3. executing \subseteq Runs
    BY SchedulerConstants DEF SInv, TypeOK, Runs
  <2>4. Slots'
    BY <1>8, <2>2, <2>3 DEF SInv, Slots, Dispose
  <2>5. Kept
    BY <1>8, <2>2, <2>4 DEF Kept, Dispose, SInv, TypeOK, Past, NoOccurrenceTwice, Ahead, Definitions
  <2> QED BY <1>8, <2>5, Bounds, KeptIsEnough DEF Dispose
<1>9. CASE Die
  <2>1. schedules' \in Definitions /\ Ahead(schedules)'
    BY <1>9 DEF Die, Definitions, Ahead
  <2>2. Slots' /\ activeRuns' \in 0..MaxConcurrent
    BY <1>9, FS_EmptySet, SchedulerConstants DEF Die, Slots
  <2>3. made + 1 \in 1..(MaxRuns + 1)
    BY SchedulerConstants DEF SInv, TypeOK
  <2>4. Kept
    BY <1>9, <2>1, <2>2, <2>3 DEF Kept, Die, SInv, TypeOK, Past, NoOccurrenceTwice
  <2> QED BY <1>9, <2>4, Bounds, KeptIsEnough DEF Die
<1>10. CASE Activate
  <2>1. Kept /\ started' \in BOOLEAN
    BY <1>10, Bounds, Starts DEF Activate, SInv
  <2>2. fired' = fired \/ disk' = schedules'
    BY <1>10 DEF Activate, EnsureStarted, Persist
  <2> QED BY <1>10, <2>1, <2>2, Bounds, KeptIsEnough DEF Activate, Persist
<1>11. CASE Pass
  <2>1. TypeOK'
    BY <1>11, Bounds DEF Pass, SInv, TypeOK, runVars
  <2>2. now \in Nat /\ \A x \in fired : x[2] \in Nat
    BY SchedulerConstants DEF SInv, TypeOK
  <2>3. Past'
    BY <1>11, <2>2 DEF Pass, SInv, Past, runVars
  <2> QED BY <1>11, <2>1, <2>3 DEF Pass, SInv, Slots, Ahead, NoOccurrenceTwice, runVars
<1>12. CASE UNCHANGED vars
  BY <1>12 DEF vars, runVars, SInv, TypeOK, Slots, Past, Ahead, NoOccurrenceTwice
<1> QED BY <1>1, <1>2, <1>3, <1>4, <1>5, <1>6, <1>7, <1>8, <1>9, <1>10, <1>11, <1>12 DEF Next

LEMMA Start == Init => SInv
<1> SUFFICES ASSUME Init PROVE SInv
  OBVIOUS
<1>1. TypeOK
  <2>1. now \in 0..MaxTime /\ made \in 0..MaxRuns /\ oldest \in 1..(MaxRuns + 1)
        /\ activeRuns \in 0..MaxConcurrent /\ edits \in 0..MaxEdits /\ deaths \in 0..MaxDeaths
    BY SchedulerConstants DEF Init
  <2>2. schedules \in [Schedules -> Definition \cup {NoSchedule}]
        /\ disk \in [Schedules -> Definition \cup {NoSchedule}]
        /\ record \in [Runs -> Record \cup {NoRecord}]
    BY DEF Init
  <2>3. /\ process \in {"down", "up", "disposed"} /\ started \in BOOLEAN
        /\ queue \subseteq 1..made /\ executing \subseteq 1..made
        /\ fired \subseteq Schedules \X Nat \X Runs
    BY DEF Init
  <2> QED BY <2>1, <2>2, <2>3 DEF TypeOK
<1>2. Slots
  BY FS_EmptySet DEF Init, Slots
<1>3. Past /\ Ahead(schedules) /\ Ahead(disk) /\ NoOccurrenceTwice
  BY DEF Init, Past, Ahead, NoOccurrenceTwice
<1> QED BY <1>1, <1>2, <1>3 DEF SInv

LEMMA SchedulerInvariant == Spec => []SInv
<1>1. ASSUME SInv, [Next]_vars PROVE SInv'
  BY <1>1, Step
<1> QED BY <1>1, Start, PTL DEF Spec

\* Definitions, records and slots keep to their types.
THEOREM Types == Spec => []TypeOK
BY SchedulerInvariant, PTL DEF SInv

\* Never more than maxConcurrent runners are at work, and the counter is right.
THEOREM SlotsAreBounded == Spec => []BoundedConcurrency
<1>1. SInv => BoundedConcurrency
  BY SchedulerConstants DEF SInv, TypeOK, Slots, BoundedConcurrency
<1> QED BY <1>1, SchedulerInvariant, PTL

\* No occurrence of a schedule triggers two runs, over restarts as well.
THEOREM OccurrencesRunOnce == Spec => []NoOccurrenceTwice
<1>1. SInv => NoOccurrenceTwice
  BY DEF SInv
<1> QED BY <1>1, SchedulerInvariant, PTL
=============================================================================
