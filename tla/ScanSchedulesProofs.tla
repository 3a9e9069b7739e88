-------------------------- MODULE ScanSchedulesProofs --------------------------
(***************************************************************************)
(* Theorems about ScanSchedules, for any schedules and workers, any LIMIT, *)
(* any expressions and any number of edits and faults.                     *)
(***************************************************************************)
EXTENDS ScanSchedules, FiniteSetTheorems, SequenceTheorems, TLAPS

Copy == [id : Schedules, cron : Crons, next : Nat]

\* The loops hold copies of rows that were due when they were listed, no row
\* twice.
LoopsOK ==
  /\ due \in [Schedulers -> Seq(Copy)]
  /\ at \in [Schedulers -> Nat \ {0}]
  /\ \A r \in Schedulers :
    /\ \A i \in 1..Len(due[r]) : due[r][i].next <= now
    /\ \A i, j \in 1..Len(due[r]) : due[r][i].id = due[r][j].id => i = j

\* Nothing is known of a schedule before it is created, and none is created
\* again.
OnlyCreated ==
  \A k \in Schedules \ (rows \cup deleted) :
    /\ passes[k] = 0
    /\ \A r \in Schedulers : \A i \in 1..Len(due[r]) : due[r][i].id # k

\* Whether position i of a scheduler's list is still to be run.
Ahead(r, i) ==
  /\ pc[r] # "idle" /\ i \in 1..Len(due[r])
  /\ i > at[r] \/ (i = at[r] /\ pc[r] = "launch")

\* The schedulers that have run k and not yet marked it, and those that are
\* still to run it.
Marking(k) == {r \in Schedulers : pc[r] = "mark" /\ Item(r).id = k}
Waiting(k) == {r \in Schedulers : \E i \in 1..Len(due[r]) : Ahead(r, i) /\ due[r][i].id = k}

\* The runs of an existing schedule since it was marked are those of the
\* schedulers about to mark it, and of those that never will.  A deleted one
\* is not marked any more, but nobody lists it either.
RunsAreCounted ==
  \A k \in Schedules :
    IF k \in rows THEN passes[k] <= Cardinality(Marking(k)) + faults
                  ELSE passes[k] + Cardinality(Waiting(k)) <= Cardinality(Schedulers) + faults

\* Nobody but the scheduler itself outdates the copies it has still to run.
OwnCopiesAreFresh ==
  Cardinality(Schedulers) = 1 =>
    \A r \in Schedulers : \A i \in 1..Len(due[r]) :
      Ahead(r, i) => due[r][i].next = nextRun[due[r][i].id]

IInv == TypeOK /\ LoopsOK /\ OnlyCreated /\ RunsAreCounted /\ OwnCopiesAreFresh

USE ConstantsAssumption

-----------------------------------------------------------------------------
(* Listings.                                                               *)

\* A listing of the due rows, cut to the LIMIT and copied (ListDue): a list of
\* distinct rows, each of them due and copied as it is.
LEMMA ListedCopies ==
  ASSUME TypeOK, NEW q \in Listings, q # <<>>
  PROVE  LET l == Copies(FirstOf(q)) IN
         /\ l \in Seq(Copy) /\ Len(l) \in 1..Limit
         /\ \A i \in 1..Len(l) : /\ Due(l[i].id)
                                 /\ l[i].next = nextRun[l[i].id]
         /\ \A i, j \in 1..Len(l) : l[i].id = l[j].id => i = j
<1> DEFINE D == {k \in Schedules : Due(k)}
           n == IF Len(q) < Limit THEN Len(q) ELSE Limit
<1>1. IsFiniteSet(D) /\ Cardinality(D) \in Nat
  BY FS_Subset, FS_CardinalityType
<1>2. /\ q \in [1..Cardinality(D) -> D]
      /\ \A i, j \in 1..Cardinality(D) : i # j => q[i] # q[j]
  BY DEF Listings, SetToSeqs
<1> HIDE DEF D
<1>3. q \in Seq(D) /\ Len(q) = Cardinality(D) /\ Len(q) \in Nat \ {0}
  <2>1. q \in Seq(D) /\ Len(q) = Cardinality(D)
    BY <1>1, <1>2
  <2>2. Len(q) # 0
    BY <2>1, EmptySeq
  <2> QED BY <2>1, <2>2, <1>1
<1>4. n \in 1..Limit /\ n <= Len(q)
  BY <1>3
<1>5. FirstOf(q) = [i \in 1..n |-> q[i]]
  <2>1. FirstOf(q) = SubSeq(q, 1, n)
    BY DEF FirstOf
  <2> HIDE DEF n
  <2> QED BY <2>1, <1>3, <1>4
<1> HIDE DEF n
<1>6. Copies(FirstOf(q)) = [i \in 1..n |-> [id |-> q[i], cron |-> cron[q[i]], next |-> nextRun[q[i]]]]
  BY <1>5, <1>4 DEF Copies
<1>7. \A i \in 1..n : q[i] \in Schedules /\ Due(q[i])
  BY <1>2, <1>3, <1>4 DEF D
<1>8. Copies(FirstOf(q)) \in [1..n -> Copy]
  BY <1>6, <1>7 DEF TypeOK, Copy
<1>9. Copies(FirstOf(q)) \in Seq(Copy) /\ Len(Copies(FirstOf(q))) = n
  BY <1>8, <1>4
<1> QED BY <1>2, <1>3, <1>4, <1>6, <1>7, <1>9

-----------------------------------------------------------------------------
(* The loops.                                                              *)

\* A step leaves the loops alone, or changes that of one scheduler: it lists,
\* runs the schedule it is at, goes on to the next, or stops.
Lists(r) ==
  /\ pc[r] = "idle"
  /\ \E q \in Listings : q # <<>> /\ due' = [due EXCEPT ![r] = Copies(FirstOf(q))]
  /\ at' = [at EXCEPT ![r] = 1]
  /\ pc' = [pc EXCEPT ![r] = "launch"]

Runs(r) == pc[r] = "launch" /\ pc' = [pc EXCEPT ![r] = "mark"] /\ UNCHANGED <<due, at>>

GoesOn(r) ==
  /\ pc[r] = "mark" /\ at[r] < Len(due[r])
  /\ at' = [at EXCEPT ![r] = @ + 1]
  /\ pc' = [pc EXCEPT ![r] = "launch"]
  /\ UNCHANGED due

Stops(r) ==
  /\ pc[r] # "idle"
  /\ pc' = [pc EXCEPT ![r] = "idle"]
  /\ due' = [due EXCEPT ![r] = <<>>]
  /\ at' = [at EXCEPT ![r] = 1]

LEMMA MarkedGoesOnOrStops ==
  ASSUME NEW r \in Schedulers, pc[r] = "mark", NextSchedule(r)
  PROVE  GoesOn(r) \/ Stops(r)
  BY DEF NextSchedule, GoesOn, Stops

LEMMA LoopChanges ==
  ASSUME [Next]_vars
  PROVE  \/ UNCHANGED loop
         \/ \E r \in Schedulers : Lists(r) \/ Runs(r) \/ GoesOn(r) \/ Stops(r)
<1>1. CASE UNCHANGED vars \/ Tick
  BY <1>1 DEF vars, Tick
<1>2. ASSUME NEW k \in Schedules, CreateSchedule(k) \/ UpdateSchedule(k) \/ DeleteSchedule(k)
      PROVE  UNCHANGED loop
  BY <1>2 DEF CreateSchedule, UpdateSchedule, DeleteSchedule
<1>3. ASSUME NEW r \in Schedulers, SchedulerStep(r) \/ Crash(r)
      PROVE  Lists(r) \/ Runs(r) \/ GoesOn(r) \/ Stops(r)
  <2>1. CASE ListDue(r) BY <2>1 DEF ListDue, Lists
  <2>2. CASE Launch(r) BY <2>2 DEF Launch, Runs
  <2>3. CASE MarkRun(r) BY <2>3, MarkedGoesOnOrStops DEF MarkRun
  <2>4. CASE MarkRunFails(r) BY <2>4, MarkedGoesOnOrStops DEF MarkRunFails
  <2>5. CASE Crash(r) BY <2>5 DEF Crash, Stops
  <2> QED BY <1>3, <2>1, <2>2, <2>3, <2>4, <2>5 DEF SchedulerStep
<1> QED BY <1>1, <1>2, <1>3 DEF Next

\* What the rest of the state is changed by.
LEMMA OnlyUsersEdit ==
  ASSUME [Next]_vars
  PROVE  \/ UNCHANGED <<rows, deleted, cron, enabled, wanted>>
         \/ \E k \in Schedules : CreateSchedule(k) \/ UpdateSchedule(k) \/ DeleteSchedule(k)
<1>1. CASE UNCHANGED vars \/ Tick
  BY <1>1 DEF vars, table, Tick
<1>2. ASSUME NEW r \in Schedulers, SchedulerStep(r) \/ Crash(r)
      PROVE  UNCHANGED <<rows, deleted, cron, enabled, wanted>>
  BY <1>2 DEF SchedulerStep, ListDue, Launch, MarkRun, MarkRunFails, Crash, table
<1> QED BY <1>1, <1>2 DEF Next

LEMMA OnlyRunsCount ==
  ASSUME [Next]_vars
  PROVE  \/ UNCHANGED <<nextRun, hasRun, queued, passes>>
         \/ \E r \in Schedulers : Launch(r) \/ MarkRun(r)
<1>1. CASE UNCHANGED vars \/ Tick
  BY <1>1 DEF vars, table, Tick
<1>2. ASSUME NEW k \in Schedules, CreateSchedule(k) \/ UpdateSchedule(k) \/ DeleteSchedule(k)
      PROVE  UNCHANGED <<nextRun, hasRun, queued, passes>>
  BY <1>2 DEF CreateSchedule, UpdateSchedule, DeleteSchedule
<1>3. ASSUME NEW r \in Schedulers, ListDue(r) \/ MarkRunFails(r) \/ Crash(r)
      PROVE  UNCHANGED <<nextRun, hasRun, queued, passes>>
  BY <1>3 DEF ListDue, MarkRunFails, Crash, table
<1> QED BY <1>1, <1>2, <1>3 DEF Next, SchedulerStep

LEMMA CountersGrow ==
  ASSUME TypeOK, [Next]_vars
  PROVE  /\ now' \in Times /\ now <= now'
         /\ edits' \in 0..MaxEdits /\ faults' \in 0..MaxFaults
<1> USE DEF TypeOK, Times, Start
<1>1. CASE UNCHANGED vars \/ Tick
  BY <1>1 DEF vars, Tick
<1>2. ASSUME NEW k \in Schedules, CreateSchedule(k) \/ UpdateSchedule(k) \/ DeleteSchedule(k)
      PROVE  UNCHANGED <<now, faults>> /\ (edits' = edits \/ Request)
  BY <1>2 DEF CreateSchedule, UpdateSchedule, DeleteSchedule
<1>3. ASSUME NEW r \in Schedulers, SchedulerStep(r) \/ Crash(r)
      PROVE  UNCHANGED <<now, edits>> /\ (faults' = faults \/ Fault)
  BY <1>3 DEF SchedulerStep, ListDue, Launch, MarkRun, MarkRunFails, Crash
<1>4. CASE \E k \in Schedules : CreateSchedule(k) \/ UpdateSchedule(k) \/ DeleteSchedule(k)
  <2>1. UNCHANGED <<now, faults>> /\ (edits' = edits \/ Request)
    BY <1>2, <1>4
  <2>2. edits' \in 0..MaxEdits
    BY <2>1 DEF Request
  <2> QED BY <2>1, <2>2
<1>5. CASE \E r \in Schedulers : SchedulerStep(r) \/ Crash(r)
  <2>1. UNCHANGED <<now, edits>> /\ (faults' = faults \/ Fault)
    BY <1>3, <1>5
  <2>2. faults' \in 0..MaxFaults
    BY <2>1 DEF Fault
  <2> QED BY <2>1, <2>2
<1> QED BY <1>1, <1>4, <1>5 DEF Next

\* The list of each scheduler stays as it is, becomes empty or is a new one.
LEMMA ListChanges ==
  ASSUME TypeOK, LoopsOK, [Next]_vars, NEW r \in Schedulers
  PROVE  \/ due'[r] = due[r]
         \/ due'[r] = <<>>
         \/ /\ due'[r] \in Seq(Copy) /\ Len(due'[r]) \in 1..Limit
            /\ \A i \in 1..Len(due'[r]) : /\ Due(due'[r][i].id)
                                         /\ due'[r][i].next = nextRun[due'[r][i].id]
            /\ \A i, j \in 1..Len(due'[r]) : due'[r][i].id = due'[r][j].id => i = j
<1>1. CASE UNCHANGED loop
  BY <1>1 DEF loop
<1>2. ASSUME NEW w \in Schedulers, Lists(w) \/ Runs(w) \/ GoesOn(w) \/ Stops(w), w # r
      PROVE  due'[r] = due[r]
  BY <1>2 DEF Lists, Runs, GoesOn, Stops, LoopsOK
<1>3. CASE Runs(r) \/ GoesOn(r)
  BY <1>3 DEF Runs, GoesOn
<1>4. CASE Stops(r)
  BY <1>4 DEF Stops, LoopsOK
<1>5. CASE Lists(r)
  <2>1. PICK q \in Listings : q # <<>> /\ due' = [due EXCEPT ![r] = Copies(FirstOf(q))]
    BY <1>5 DEF Lists
  <2>2. due'[r] = Copies(FirstOf(q))
    BY <2>1 DEF LoopsOK
  <2> QED BY <2>1, <2>2, ListedCopies
<1> QED BY <1>1, <1>2, <1>3, <1>4, <1>5, LoopChanges

LEMMA StepLoopsOK == ASSUME TypeOK, LoopsOK, [Next]_vars PROVE LoopsOK'
<1>1. due' \in [Schedulers -> Seq(Copy)]
  <2>1. \A r \in Schedulers : due'[r] \in Seq(Copy)
    <3>1. ASSUME NEW r \in Schedulers PROVE due'[r] \in Seq(Copy)
      <4>1. CASE due'[r] = due[r]
        BY <4>1 DEF LoopsOK
      <4>2. CASE due'[r] = <<>>
        BY <4>2
      <4> QED BY <4>1, <4>2, ListChanges
    <3> QED BY <3>1
  <2>2. DOMAIN due' = Schedulers /\ due' = [r \in Schedulers |-> due'[r]]
    BY LoopChanges DEF LoopsOK, loop, Lists, Runs, GoesOn, Stops
  <2> QED BY <2>1, <2>2
<1>2. at' \in [Schedulers -> Nat \ {0}]
  BY LoopChanges DEF LoopsOK, loop, Lists, Runs, GoesOn, Stops
<1>3. ASSUME NEW r \in Schedulers
      PROVE  /\ \A i \in 1..Len(due'[r]) : due'[r][i].next <= now'
             /\ \A i, j \in 1..Len(due'[r]) : due'[r][i].id = due'[r][j].id => i = j
  <2>1. now \in Nat /\ now' \in Nat /\ now <= now'
    BY CountersGrow DEF TypeOK, Times, Start
  <2>2. CASE due'[r] = due[r]
    <3>1. \A i \in 1..Len(due[r]) : due[r][i].next \in Nat
      <4>1. due[r] \in Seq(Copy)
        BY DEF LoopsOK
      <4>2. \A i \in 1..Len(due[r]) : due[r][i] \in Copy
        BY <4>1, ElementOfSeq
      <4> QED BY <4>2 DEF Copy
    <3>2. /\ \A i \in 1..Len(due[r]) : due[r][i].next <= now
          /\ \A i, j \in 1..Len(due[r]) : due[r][i].id = due[r][j].id => i = j
      BY DEF LoopsOK
    <3>3. \A i \in 1..Len(due[r]) : due[r][i].next <= now'
      BY <2>1, <3>1, <3>2
    <3> QED BY <2>2, <3>2, <3>3
  <2>3. CASE due'[r] = <<>>
    BY <2>3
  <2>4. CASE /\ due'[r] \in Seq(Copy) /\ Len(due'[r]) \in 1..Limit
             /\ \A i \in 1..Len(due'[r]) : /\ Due(due'[r][i].id)
                                          /\ due'[r][i].next = nextRun[due'[r][i].id]
             /\ \A i, j \in 1..Len(due'[r]) : due'[r][i].id = due'[r][j].id => i = j
    <3>1. ASSUME NEW i \in 1..Len(due'[r]) PROVE due'[r][i].next <= now'
      <4>1. due'[r][i] \in Copy
        BY <2>4, ElementOfSeq
      <4>2. nextRun[due'[r][i].id] <= now /\ nextRun[due'[r][i].id] \in Nat
        BY <2>4, <4>1 DEF Due, Copy, TypeOK
      <4> QED BY <2>1, <2>4, <4>2
    <3> QED BY <2>4, <3>1
  <2> QED BY <2>2, <2>3, <2>4, ListChanges
<1> QED BY <1>1, <1>2, <1>3 DEF LoopsOK

RowTypes ==
  /\ rows \subseteq Schedules /\ deleted \subseteq Schedules
  /\ cron \in [Schedules -> Crons] /\ enabled \in [Schedules -> BOOLEAN]

RunTypes ==
  /\ nextRun \in [Schedules -> Nat] /\ hasRun \subseteq Schedules
  /\ queued \subseteq Schedules /\ passes \in [Schedules -> Nat]

\* Type correctness of the rows, the loops and the counters.
LEMMA StepTypeOK == ASSUME TypeOK, LoopsOK, [Next]_vars PROVE TypeOK'
<1>1. pc' \in [Schedulers -> {"idle", "launch", "mark"}]
  BY LoopChanges DEF TypeOK, loop, Lists, Runs, GoesOn, Stops
<1>2. ASSUME NEW r \in Schedulers
      PROVE  /\ Len(due'[r]) <= Limit
             /\ \A i \in DOMAIN due'[r] : due'[r][i] \in Copy
  <2>1. due'[r] \in Seq(Copy)
    BY StepLoopsOK DEF LoopsOK
  <2>2. Len(due'[r]) <= Limit
    BY ListChanges DEF TypeOK
  <2> QED BY <2>1, <2>2, ElementOfSeq, LenProperties
<1>3. ASSUME NEW r \in Schedulers, pc'[r] # "idle" PROVE at'[r] \in 1..Len(due'[r])
  <2>1. CASE UNCHANGED loop
    BY <1>3, <2>1 DEF loop, TypeOK
  <2>2. ASSUME NEW w \in Schedulers, Lists(w) \/ Runs(w) \/ GoesOn(w) \/ Stops(w), w # r
        PROVE  at'[r] \in 1..Len(due'[r])
    BY <1>3, <2>2 DEF Lists, Runs, GoesOn, Stops, TypeOK, LoopsOK
  <2>3. CASE Lists(r)
    <3>1. PICK q \in Listings : q # <<>> /\ due' = [due EXCEPT ![r] = Copies(FirstOf(q))]
      BY <2>3 DEF Lists
    <3>2. due'[r] = Copies(FirstOf(q)) /\ at'[r] = 1
      BY <2>3, <3>1 DEF LoopsOK, Lists
    <3>3. Len(due'[r]) \in 1..Limit
      BY <3>1, <3>2, ListedCopies
    <3> QED BY <3>2, <3>3
  <2>4. CASE Runs(r)
    BY <2>4 DEF Runs, TypeOK
  <2>5. CASE GoesOn(r)
    <3>1. due[r] \in Seq(Copy) /\ at[r] \in Nat \ {0} /\ Len(due[r]) \in Nat
      BY LenProperties DEF LoopsOK
    <3>2. at'[r] = at[r] + 1 /\ due'[r] = due[r] /\ at[r] < Len(due[r])
      BY <2>5 DEF GoesOn, LoopsOK
    <3> QED BY <3>1, <3>2
  <2>6. CASE Stops(r)
    BY <1>3, <2>6 DEF Stops, TypeOK
  <2> QED BY <2>1, <2>2, <2>3, <2>4, <2>5, <2>6, LoopChanges
<1>4. ASSUME NEW r \in Schedulers, pc[r] # "idle" PROVE Item(r) \in Copy
  BY <1>4, ElementOfSeq DEF Item, TypeOK, LoopsOK
<1>5. RowTypes'
  <2>1. CASE UNCHANGED <<rows, deleted, cron, enabled, wanted>>
    BY <2>1 DEF TypeOK, RowTypes
  <2>2. ASSUME NEW k \in Schedules, CreateSchedule(k) PROVE RowTypes'
    BY <2>2 DEF CreateSchedule, TypeOK, RowTypes
  <2>3. ASSUME NEW k \in Schedules, UpdateSchedule(k) PROVE RowTypes'
    BY <2>3 DEF UpdateSchedule, TypeOK, RowTypes
  <2>4. ASSUME NEW k \in Schedules, DeleteSchedule(k) PROVE RowTypes'
    BY <2>4 DEF DeleteSchedule, TypeOK, RowTypes
  <2> QED BY <2>1, <2>2, <2>3, <2>4, OnlyUsersEdit
<1>6. RunTypes'
  <2>1. CASE UNCHANGED <<nextRun, hasRun, queued, passes>>
    BY <2>1 DEF TypeOK, RunTypes
  <2>2. ASSUME NEW r \in Schedulers, Launch(r) PROVE RunTypes'
    <3>1. Item(r).id \in Schedules
      BY <1>4, <2>2 DEF Launch, Copy
    <3> QED BY <2>2, <3>1 DEF Launch, table, TypeOK, RunTypes
  <2>3. ASSUME NEW r \in Schedulers, MarkRun(r) PROVE RunTypes'
    <3>1. Item(r).id \in Schedules /\ Item(r).cron \in Crons
      BY <1>4, <2>3 DEF MarkRun, Copy
    <3>2. NextFire[Item(r).cron][now] \in Nat
      BY <3>1 DEF TypeOK
    <3>3. \/ UNCHANGED <<nextRun, hasRun, passes>>
          \/ /\ nextRun' = [nextRun EXCEPT ![Item(r).id] = NextFire[Item(r).cron][now]]
             /\ hasRun' = hasRun \cup {Item(r).id}
             /\ passes' = [passes EXCEPT ![Item(r).id] = 0]
      BY <2>3 DEF MarkRun
    <3>4. UNCHANGED queued
      BY <2>3 DEF MarkRun
    <3>5. PICK k \in Schedules, n \in Nat :
            \/ UNCHANGED <<nextRun, hasRun, passes>>
            \/ /\ nextRun' = [nextRun EXCEPT ![k] = n]
               /\ hasRun' = hasRun \cup {k}
               /\ passes' = [passes EXCEPT ![k] = 0]
      BY <3>1, <3>2, <3>3
    <3>6. CASE UNCHANGED <<nextRun, hasRun, passes>>
      BY <3>4, <3>6 DEF TypeOK, RunTypes
    <3>7. CASE /\ nextRun' = [nextRun EXCEPT ![k] = n]
               /\ hasRun' = hasRun \cup {k}
               /\ passes' = [passes EXCEPT ![k] = 0]
      <4>1. nextRun' \in [Schedules -> Nat]
        BY <3>7 DEF TypeOK
      <4>2. passes' \in [Schedules -> Nat]
        BY <3>7 DEF TypeOK
      <4> QED BY <3>4, <3>7, <4>1, <4>2 DEF TypeOK, RunTypes
    <3> QED BY <3>5, <3>6, <3>7
  <2> QED BY <2>1, <2>2, <2>3, OnlyRunsCount
<1>7. edits' \in 0..MaxEdits /\ faults' \in 0..MaxFaults
  BY CountersGrow DEF TypeOK
<1> QED BY <1>1, <1>2, <1>3, <1>5, <1>6, <1>7, CountersGrow DEF TypeOK, Copy, RowTypes, RunTypes

-----------------------------------------------------------------------------
(* Created schedules.                                                      *)

LEMMA ItemIsListed ==
  ASSUME TypeOK, LoopsOK, NEW r \in Schedulers, pc[r] # "idle"
  PROVE  /\ at[r] \in 1..Len(due[r]) /\ Item(r) = due[r][at[r]]
         /\ Item(r) \in Copy /\ Item(r).id \in Schedules
<1>1. at[r] \in 1..Len(due[r]) /\ Item(r) = due[r][at[r]]
  BY DEF TypeOK, Item
<1>2. due[r] \in Seq(Copy)
  BY DEF LoopsOK
<1>3. Item(r) \in Copy
  BY <1>1, <1>2, ElementOfSeq
<1> QED BY <1>1, <1>3 DEF Copy

LEMMA StepOnlyCreated ==
  ASSUME TypeOK, LoopsOK, OnlyCreated, [Next]_vars PROVE OnlyCreated'
<1>1. rows \cup deleted \subseteq rows' \cup deleted'
  BY OnlyUsersEdit DEF CreateSchedule, UpdateSchedule, DeleteSchedule
<1> SUFFICES ASSUME NEW k \in Schedules \ (rows \cup deleted)
             PROVE  /\ passes'[k] = 0
                    /\ \A r \in Schedulers : \A i \in 1..Len(due'[r]) : due'[r][i].id # k
  BY <1>1 DEF OnlyCreated
<1>2. /\ passes[k] = 0
      /\ \A r \in Schedulers : \A i \in 1..Len(due[r]) : due[r][i].id # k
  BY DEF OnlyCreated
<1>3. passes'[k] = 0
  <2>1. ASSUME NEW r \in Schedulers, Launch(r) PROVE passes'[k] = 0
    <3>1. Item(r).id # k
      BY <1>2, <2>1, ItemIsListed DEF Launch
    <3> QED BY <1>2, <2>1, <3>1 DEF Launch, TypeOK
  <2>2. ASSUME NEW r \in Schedulers, MarkRun(r) PROVE passes'[k] = 0
    BY <1>2, <2>2 DEF MarkRun, TypeOK
  <2> QED BY <1>2, <2>1, <2>2, OnlyRunsCount
<1>4. ASSUME NEW r \in Schedulers, NEW i \in 1..Len(due'[r]) PROVE due'[r][i].id # k
  <2>1. CASE due'[r] = due[r]
    BY <1>2, <2>1
  <2>2. CASE due'[r] = <<>>
    BY <2>2
  <2>3. CASE Due(due'[r][i].id)
    BY <2>3 DEF Due
  <2> QED BY <2>1, <2>2, <2>3, ListChanges
<1> QED BY <1>3, <1>4

-----------------------------------------------------------------------------
(* Who marks and who waits.                                                *)

\* Nothing but a listing puts a position ahead of its scheduler.
LEMMA AheadShrinks ==
  ASSUME TypeOK, LoopsOK, NEW w \in Schedulers, Runs(w) \/ GoesOn(w) \/ Stops(w),
         NEW r \in Schedulers, NEW i, Ahead(r, i)'
  PROVE  /\ Ahead(r, i) /\ due'[r] = due[r]
         /\ r = w => i > at[r]
<1>1. /\ at[r] \in Nat /\ due[r] \in Seq(Copy) /\ Len(due[r]) \in Nat
      /\ pc'[r] # "idle" /\ i \in 1..Len(due'[r])
      /\ i > at'[r] \/ (i = at'[r] /\ pc'[r] = "launch")
  BY LenProperties DEF LoopsOK, Ahead
<1>2. CASE r # w
  <2>1. pc'[r] = pc[r] /\ at'[r] = at[r] /\ due'[r] = due[r]
    BY <1>2 DEF Runs, GoesOn, Stops, LoopsOK, TypeOK
  <2> QED BY <1>1, <1>2, <2>1 DEF Ahead
<1>3. CASE r = w /\ Runs(r)
  <2>1. pc[r] = "launch" /\ pc'[r] = "mark" /\ at'[r] = at[r] /\ due'[r] = due[r]
    BY <1>3 DEF Runs, TypeOK
  <2> QED BY <1>1, <2>1 DEF Ahead
<1>4. CASE r = w /\ GoesOn(r)
  <2>1. pc[r] = "mark" /\ pc'[r] = "launch" /\ at'[r] = at[r] + 1 /\ due'[r] = due[r]
    BY <1>4 DEF GoesOn, LoopsOK, TypeOK
  <2> QED BY <1>1, <2>1 DEF Ahead
<1>5. CASE r = w /\ Stops(r)
  BY <1>1, <1>5 DEF Stops, TypeOK
<1> QED BY <1>2, <1>3, <1>4, <1>5

LEMMA MarkingChanges ==
  ASSUME TypeOK, LoopsOK, NEW r \in Schedulers, NEW k \in Schedules
  PROVE  /\ Lists(r) => Marking(k)' = Marking(k)
         /\ Runs(r) => /\ r \notin Marking(k)
                       /\ Marking(k)' = IF Item(r).id = k THEN Marking(k) \cup {r} ELSE Marking(k)
         /\ GoesOn(r) \/ Stops(r) => Marking(k)' = Marking(k) \ {r}
<1>1. ASSUME NEW w \in Schedulers, Lists(r) \/ Runs(r) \/ GoesOn(r) \/ Stops(r), w # r
      PROVE  w \in Marking(k)' <=> w \in Marking(k)
  <2>1. pc'[w] = pc[w] /\ at'[w] = at[w] /\ due'[w] = due[w]
    BY <1>1 DEF Lists, Runs, GoesOn, Stops, LoopsOK, TypeOK
  <2> QED BY <2>1 DEF Marking, Item
<1>2. Lists(r) => r \notin Marking(k) /\ r \notin Marking(k)'
  BY DEF Lists, Marking, TypeOK
<1>3. Runs(r) => r \notin Marking(k) /\ (r \in Marking(k)' <=> Item(r).id = k)
  BY DEF Runs, Marking, Item, TypeOK
<1>4. GoesOn(r) \/ Stops(r) => r \notin Marking(k)'
  BY DEF GoesOn, Stops, Marking, TypeOK
<1>5. Marking(k) \subseteq Schedulers /\ Marking(k)' \subseteq Schedulers
  BY DEF Marking
<1> QED BY <1>1, <1>2, <1>3, <1>4, <1>5

LEMMA WaitingChanges ==
  ASSUME TypeOK, LoopsOK, NEW r \in Schedulers, NEW k \in Schedules
  PROVE  /\ Lists(r) /\ k \notin rows => Waiting(k)' \subseteq Waiting(k)
         /\ Runs(r) /\ Item(r).id = k => r \in Waiting(k) /\ Waiting(k)' \subseteq Waiting(k) \ {r}
         /\ Runs(r) \/ GoesOn(r) \/ Stops(r) => Waiting(k)' \subseteq Waiting(k)
<1>1. ASSUME Runs(r) \/ GoesOn(r) \/ Stops(r), NEW w \in Waiting(k)'
      PROVE  w \in Waiting(k) /\ (w = r => \E i \in 1..Len(due[r]) : i > at[r] /\ due[r][i].id = k)
  <2>1. w \in Schedulers
    BY DEF Waiting
  <2>2. PICK i \in 1..Len(due'[w]) : Ahead(w, i)' /\ due'[w][i].id = k
    BY DEF Waiting
  <2>3. Ahead(w, i) /\ due'[w] = due[w] /\ (w = r => i > at[w])
    BY <1>1, <2>1, <2>2, AheadShrinks
  <2> QED BY <2>1, <2>2, <2>3 DEF Waiting
<1>2. ASSUME Runs(r), Item(r).id = k
      PROVE  r \in Waiting(k) /\ r \notin Waiting(k)'
  <2>1. at[r] \in 1..Len(due[r]) /\ Item(r) = due[r][at[r]]
    BY <1>2, ItemIsListed DEF Runs
  <2>2. Ahead(r, at[r])
    BY <1>2, <2>1 DEF Ahead, Runs
  <2>3. r \in Waiting(k)
    BY <1>2, <2>1, <2>2 DEF Waiting
  <2>4. ASSUME NEW i \in 1..Len(due[r]), i > at[r] PROVE due[r][i].id # k
    BY <1>2, <2>1, <2>4 DEF LoopsOK
  <2> QED BY <1>1, <1>2, <2>3, <2>4
<1>3. ASSUME Lists(r), k \notin rows, NEW w \in Waiting(k)' PROVE w \in Waiting(k)
  <2>1. w \in Schedulers
    BY DEF Waiting
  <2>2. CASE w # r
    <3>1. pc'[w] = pc[w] /\ at'[w] = at[w] /\ due'[w] = due[w]
      BY <1>3, <2>1, <2>2 DEF Lists, LoopsOK, TypeOK
    <3> QED BY <1>3, <3>1 DEF Waiting, Ahead
  <2>3. CASE w = r
    <3>1. PICK q \in Listings : q # <<>> /\ due' = [due EXCEPT ![r] = Copies(FirstOf(q))]
      BY <1>3 DEF Lists
    <3>2. due'[r] = Copies(FirstOf(q))
      BY <3>1 DEF LoopsOK
    <3>3. \A i \in 1..Len(due'[r]) : due'[r][i].id \in rows
      BY <3>1, <3>2, ListedCopies DEF Due
    <3> QED BY <1>3, <2>3, <3>3 DEF Waiting
  <2> QED BY <2>2, <2>3
<1> QED BY <1>1, <1>2, <1>3

-----------------------------------------------------------------------------
(* Runs of an instant.                                                     *)

LEMMA Cardinalities ==
  ASSUME NEW T, T \subseteq Schedulers
  PROVE  /\ IsFiniteSet(T) /\ Cardinality(T) \in Nat
         /\ Cardinality(Schedulers) \in Nat /\ Cardinality(T) <= Cardinality(Schedulers)
         /\ \A U : U \subseteq T => Cardinality(U) <= Cardinality(T)
         /\ \A r \in T : Cardinality(T \ {r}) = Cardinality(T) - 1
         /\ \A r \in Schedulers \ T : Cardinality(T \cup {r}) = Cardinality(T) + 1
         /\ \A r : Cardinality(T) <= Cardinality(T \ {r}) + 1
<1>1. /\ IsFiniteSet(T) /\ Cardinality(T) \in Nat
      /\ Cardinality(Schedulers) \in Nat /\ Cardinality(T) <= Cardinality(Schedulers)
  BY FS_Subset, FS_CardinalityType
<1>2. ASSUME NEW U, U \subseteq T PROVE Cardinality(U) <= Cardinality(T)
  BY <1>1, <1>2, FS_Subset
<1>3. ASSUME NEW r \in T PROVE Cardinality(T \ {r}) = Cardinality(T) - 1
  BY <1>1, FS_RemoveElement
<1>4. ASSUME NEW r \in Schedulers \ T PROVE Cardinality(T \cup {r}) = Cardinality(T) + 1
  BY <1>1, FS_AddElement
<1>5. ASSUME NEW r PROVE Cardinality(T) <= Cardinality(T \ {r}) + 1
  <2>1. Cardinality(T \ {r}) = IF r \in T THEN Cardinality(T) - 1 ELSE Cardinality(T)
    BY <1>1, FS_RemoveElement
  <2> QED BY <1>1, <2>1
<1> QED BY <1>1, <1>2, <1>3, <1>4, <1>5

LEMMA MarkingIsNotWaiting ==
  ASSUME TypeOK, LoopsOK, NEW k \in Schedules
  PROVE  Cardinality(Marking(k)) + Cardinality(Waiting(k)) <= Cardinality(Schedulers)
<1>1. Marking(k) \subseteq Schedulers /\ Waiting(k) \subseteq Schedulers
  BY DEF Marking, Waiting
<1>2. ASSUME NEW r \in Marking(k), r \in Waiting(k) PROVE FALSE
  <2>1. pc[r] = "mark" /\ Item(r).id = k /\ r \in Schedulers
    BY DEF Marking
  <2>2. at[r] \in 1..Len(due[r]) /\ Item(r) = due[r][at[r]]
    BY <2>1, ItemIsListed
  <2>3. PICK i \in 1..Len(due[r]) : Ahead(r, i) /\ due[r][i].id = k
    BY <1>2 DEF Waiting
  <2>4. i = at[r]
    BY <2>1, <2>2, <2>3 DEF LoopsOK
  <2> QED BY <2>1, <2>2, <2>3, <2>4 DEF Ahead
<1>3. Marking(k) \cap Waiting(k) = {}
  BY <1>2
<1>4. Cardinality(Marking(k) \cup Waiting(k)) = Cardinality(Marking(k)) + Cardinality(Waiting(k))
  <2>1. /\ IsFiniteSet(Marking(k)) /\ Cardinality(Marking(k)) \in Nat
        /\ IsFiniteSet(Waiting(k)) /\ Cardinality(Waiting(k)) \in Nat
    BY <1>1, Cardinalities
  <2>2. Cardinality(Marking(k) \cup Waiting(k)) =
          Cardinality(Marking(k)) + Cardinality(Waiting(k)) - Cardinality(Marking(k) \cap Waiting(k))
    BY <2>1, FS_Union
  <2>3. Cardinality(Marking(k) \cap Waiting(k)) = 0
    BY <1>3, FS_EmptySet
  <2> QED BY <2>1, <2>2, <2>3
<1>5. Marking(k) \cup Waiting(k) \subseteq Schedulers
  BY <1>1
<1> QED BY <1>4, <1>5, Cardinalities

LEMMA StepRunsAreCounted ==
  ASSUME TypeOK, LoopsOK, OnlyCreated, RunsAreCounted, [Next]_vars PROVE RunsAreCounted'
<1> DEFINE M(k) == Cardinality(Marking(k))
           W(k) == Cardinality(Waiting(k))
           N == Cardinality(Schedulers)
           Counted(k) == IF k \in rows THEN passes[k] <= M(k) + faults
                                       ELSE passes[k] + W(k) <= N + faults
<1> SUFFICES ASSUME NEW k \in Schedules PROVE Counted(k)'
  BY DEF RunsAreCounted
<1>1. /\ Marking(k) \subseteq Schedulers /\ Waiting(k) \subseteq Schedulers
      /\ Marking(k)' \subseteq Schedulers /\ Waiting(k)' \subseteq Schedulers
  BY DEF Marking, Waiting
<1>2. /\ M(k) \in Nat /\ M(k)' \in Nat /\ W(k) \in Nat /\ W(k)' \in Nat /\ N \in Nat
      /\ passes[k] \in Nat /\ faults \in Nat
  BY <1>1, Cardinalities DEF TypeOK
<1>3. Counted(k)
  BY DEF RunsAreCounted
<1>4. ASSUME UNCHANGED loop PROVE M(k)' = M(k) /\ W(k)' = W(k)
  <2>1. Marking(k)' = Marking(k) /\ Waiting(k)' = Waiting(k)
    BY <1>4 DEF loop, Marking, Waiting, Ahead, Item
  <2> QED BY <2>1
<1>m. M(k) + W(k) <= N
  BY MarkingIsNotWaiting
<1> HIDE DEF M, W, N
<1>5. CASE UNCHANGED vars \/ Tick \/ \E j \in Schedules : UpdateSchedule(j)
  <2>1. UNCHANGED <<loop, rows, passes, faults>>
    BY <1>5 DEF vars, table, Tick, UpdateSchedule
  <2> QED BY <1>3, <1>4, <2>1
<1>6. ASSUME NEW j \in Schedules, CreateSchedule(j) PROVE Counted(k)'
  <2>1. UNCHANGED <<loop, passes, faults>> /\ rows' = rows \cup {j} /\ j \notin rows \cup deleted
    BY <1>6 DEF CreateSchedule
  <2>2. j = k => passes[k] = 0
    BY <2>1 DEF OnlyCreated
  <2>3. CASE j = k
    BY <1>2, <1>4, <2>1, <2>2, <2>3
  <2>4. CASE j # k
    BY <1>3, <1>4, <2>1, <2>4
  <2> QED BY <2>3, <2>4
<1>7. ASSUME NEW j \in Schedules, DeleteSchedule(j) PROVE Counted(k)'
  <2>1. UNCHANGED <<loop, passes, faults>> /\ rows' = rows \ {j} /\ j \in rows
    BY <1>7 DEF DeleteSchedule
  <2>2. CASE j = k
    BY <1>2, <1>3, <1>4, <1>m, <2>1, <2>2
  <2>3. CASE j # k
    BY <1>3, <1>4, <2>1, <2>3
  <2> QED BY <2>2, <2>3
<1>8. ASSUME NEW r \in Schedulers, ListDue(r) PROVE Counted(k)'
  <2>1. Lists(r) /\ UNCHANGED <<rows, passes, faults>>
    BY <1>8 DEF ListDue, Lists, table
  <2>2. M(k)' = M(k)
    BY <2>1, MarkingChanges DEF M
  <2>3. k \notin rows => W(k)' <= W(k)
    BY <1>1, <2>1, WaitingChanges, Cardinalities DEF W
  <2> QED BY <1>2, <1>3, <2>1, <2>2, <2>3
<1>9. ASSUME NEW r \in Schedulers, Launch(r) PROVE Counted(k)'
  <2>1. Runs(r) /\ UNCHANGED <<rows, faults>>
    BY <1>9 DEF Launch, Runs, table
  <2>2. CASE Item(r).id = k
    <3>1. passes'[k] = passes[k] + 1
      BY <1>9, <2>2 DEF Launch, TypeOK
    <3>2. M(k)' = M(k) + 1
      <4>1. r \notin Marking(k) /\ Marking(k)' = Marking(k) \cup {r}
        BY <2>1, <2>2, MarkingChanges
      <4> QED BY <1>1, <4>1, Cardinalities DEF M
    <3>3. W(k)' <= W(k) - 1
      <4>1. r \in Waiting(k) /\ Waiting(k)' \subseteq Waiting(k) \ {r}
        BY <2>1, <2>2, WaitingChanges
      <4>2. Cardinality(Waiting(k) \ {r}) = Cardinality(Waiting(k)) - 1
        BY <1>1, <4>1, Cardinalities
      <4>3. Waiting(k) \ {r} \subseteq Schedulers
        BY <1>1
      <4> QED BY <4>1, <4>2, <4>3, Cardinalities DEF W
    <3> QED BY <1>2, <1>3, <2>1, <3>1, <3>2, <3>3
  <2>3. CASE Item(r).id # k
    <3>1. passes'[k] = passes[k]
      BY <1>9, <2>3 DEF Launch, TypeOK
    <3>2. M(k)' = M(k)
      BY <2>1, <2>3, MarkingChanges DEF M
    <3>3. W(k)' <= W(k)
      BY <1>1, <2>1, WaitingChanges, Cardinalities DEF W
    <3> QED BY <1>2, <1>3, <2>1, <3>1, <3>2, <3>3
  <2> QED BY <2>2, <2>3
<1>10. ASSUME NEW r \in Schedulers, MarkRun(r) PROVE Counted(k)'
  <2>1. (GoesOn(r) \/ Stops(r)) /\ pc[r] = "mark" /\ UNCHANGED <<rows, faults>>
    BY <1>10, MarkedGoesOnOrStops DEF MarkRun
  <2>2. W(k)' <= W(k)
    BY <1>1, <2>1, WaitingChanges, Cardinalities DEF W
  <2>3. CASE Item(r).id = k
    <3>1. IF k \in rows THEN passes'[k] = 0 ELSE passes'[k] = passes[k]
      BY <1>10, <2>3 DEF MarkRun, TypeOK
    <3> QED BY <1>2, <1>3, <2>1, <2>2, <3>1
  <2>4. CASE Item(r).id # k
    <3>1. passes'[k] = passes[k]
      BY <1>10, <2>4 DEF MarkRun, TypeOK
    <3>2. Marking(k)' = Marking(k)
      <4>1. r \notin Marking(k)
        BY <2>4 DEF Marking
      <4>2. Marking(k)' = Marking(k) \ {r}
        BY <2>1, MarkingChanges
      <4> QED BY <4>1, <4>2
    <3>3. M(k)' = M(k)
      BY <3>2 DEF M
    <3> QED BY <1>2, <1>3, <2>1, <2>2, <3>1, <3>3
  <2> QED BY <2>3, <2>4
<1>11. ASSUME NEW r \in Schedulers, MarkRunFails(r) \/ Crash(r) PROVE Counted(k)'
  <2>1. (GoesOn(r) \/ Stops(r)) /\ UNCHANGED <<rows, passes>> /\ faults' = faults + 1
    BY <1>11, MarkedGoesOnOrStops DEF MarkRunFails, Crash, Stops, Fault, table
  <2>2. W(k)' <= W(k)
    BY <1>1, <2>1, WaitingChanges, Cardinalities DEF W
  <2>3. M(k) <= M(k)' + 1
    BY <1>1, <2>1, MarkingChanges, Cardinalities DEF M
  <2> QED BY <1>2, <1>3, <2>1, <2>2, <2>3
<1> QED
  BY <1>5, <1>6, <1>7, <1>8, <1>9, <1>10, <1>11 DEF Next, SchedulerStep

-----------------------------------------------------------------------------
(* A scheduler on its own.                                                 *)

LEMMA StepOwnCopiesAreFresh ==
  ASSUME TypeOK, LoopsOK, OwnCopiesAreFresh, [Next]_vars PROVE OwnCopiesAreFresh'
<1> SUFFICES ASSUME Cardinality(Schedulers) = 1, NEW r \in Schedulers,
                    NEW i \in 1..Len(due'[r]), Ahead(r, i)'
             PROVE  due'[r][i].next = nextRun'[due'[r][i].id]
  BY DEF OwnCopiesAreFresh
<1>1. \A w \in Schedulers : w = r
  <2>1. PICK x : Schedulers = {x}
    BY FS_Singleton
  <2> QED BY <2>1
<1>2. CASE UNCHANGED <<loop, nextRun>>
  BY <1>2 DEF OwnCopiesAreFresh, loop, Ahead
<1>3. CASE ListDue(r)
  <2>1. PICK q \in Listings : q # <<>> /\ due' = [due EXCEPT ![r] = Copies(FirstOf(q))]
    BY <1>3 DEF ListDue
  <2>2. due'[r] = Copies(FirstOf(q)) /\ nextRun' = nextRun
    BY <1>3, <2>1 DEF LoopsOK, ListDue, table
  <2> QED BY <2>1, <2>2, ListedCopies
<1>4. CASE Runs(r) \/ GoesOn(r) \/ Stops(r)
  <2>1. Ahead(r, i) /\ due'[r] = due[r] /\ i > at[r]
    BY <1>4, AheadShrinks
  <2>2. due[r][i].next = nextRun[due[r][i].id] /\ due[r][i].id # Item(r).id
    <3>1. at[r] \in 1..Len(due[r]) /\ Item(r) = due[r][at[r]]
      BY <2>1, ItemIsListed DEF Ahead
    <3> QED BY <2>1, <3>1 DEF OwnCopiesAreFresh, LoopsOK, Ahead
  <2>3. CASE UNCHANGED nextRun
    BY <2>1, <2>2, <2>3
  <2>4. CASE MarkRun(r)
    <3>1. nextRun' = nextRun
          \/ nextRun' = [nextRun EXCEPT ![Item(r).id] = NextFire[Item(r).cron][now]]
      BY <2>4 DEF MarkRun
    <3>2. PICK k \in Schedules : k = due[r][i].id
      <4>1. due[r][i] \in Copy
        BY <2>1 DEF LoopsOK, Ahead
      <4> QED BY <4>1 DEF Copy
    <3>3. nextRun'[k] = nextRun[k]
      <4>1. k # Item(r).id /\ DOMAIN nextRun = Schedules
        BY <2>2, <3>2 DEF TypeOK
      <4> QED BY <3>1, <4>1
    <3> QED BY <2>1, <2>2, <3>2, <3>3
  <2>5. UNCHANGED nextRun \/ MarkRun(r)
    BY <1>1, OnlyRunsCount DEF Launch, table
  <2> QED BY <2>3, <2>4, <2>5
<1>5. \/ UNCHANGED <<loop, nextRun>>
      \/ ListDue(r) \/ Runs(r) \/ GoesOn(r) \/ Stops(r)
  <2>1. CASE UNCHANGED vars \/ Tick
    BY <2>1 DEF vars, table, Tick
  <2>2. ASSUME NEW k \in Schedules, CreateSchedule(k) \/ UpdateSchedule(k) \/ DeleteSchedule(k)
        PROVE  UNCHANGED <<loop, nextRun>>
    BY <2>2 DEF CreateSchedule, UpdateSchedule, DeleteSchedule
  <2>3. ASSUME NEW w \in Schedulers, SchedulerStep(w) \/ Crash(w)
        PROVE  ListDue(r) \/ Runs(r) \/ GoesOn(r) \/ Stops(r)
    BY <1>1, <2>3, MarkedGoesOnOrStops
    DEF SchedulerStep, Launch, MarkRun, MarkRunFails, Crash, Runs, Stops
  <2> QED BY <2>1, <2>2, <2>3 DEF Next
<1> QED BY <1>2, <1>3, <1>4, <1>5

-----------------------------------------------------------------------------
(* The theorems.                                                           *)

LEMMA InitIInv == Init => IInv
<1> SUFFICES ASSUME Init PROVE IInv
  OBVIOUS
<1>1. TypeOK
  BY DEF Init, TypeOK, Times, Start, Null
<1>2. LoopsOK
  BY DEF Init, LoopsOK
<1>3. OnlyCreated
  BY DEF Init, OnlyCreated
<1>4. RunsAreCounted
  <2> SUFFICES ASSUME NEW k \in Schedules
      PROVE  k \notin rows /\ passes[k] + Cardinality(Waiting(k)) <= Cardinality(Schedulers) + faults
    BY DEF RunsAreCounted
  <2>1. Waiting(k) \subseteq Schedulers
    BY DEF Waiting
  <2> QED BY <2>1, Cardinalities DEF Init
<1>5. OwnCopiesAreFresh
  BY DEF Init, OwnCopiesAreFresh, Ahead
<1> QED BY <1>1, <1>2, <1>3, <1>4, <1>5 DEF IInv

LEMMA StepIInv == IInv /\ [Next]_vars => IInv'
  BY StepTypeOK, StepLoopsOK, StepOnlyCreated, StepRunsAreCounted, StepOwnCopiesAreFresh DEF IInv

\* Type correctness of the schedules and of the workers' loops
\* (runDueSchedules).
THEOREM TypeCorrect == Spec => []TypeOK
<1>1. IInv => TypeOK
  BY DEF IInv
<1> QED BY <1>1, InitIInv, StepIInv, PTL DEF Spec

\* However many workers list the same rows, however long they take and whatever
\* users do meanwhile, an instant is run at most once by each worker, and once
\* more for each MarkRun that was lost (ListDue, runDueSchedules, MarkRun).
THEOREM OncePerInstantHolds == Spec => []OncePerInstant
<1>1. IInv => OncePerInstant
  <2> SUFFICES ASSUME IInv, NEW k \in Schedules
               PROVE  passes[k] <= Cardinality(Schedulers) + faults
    BY DEF OncePerInstant
  <2>1. Marking(k) \subseteq Schedulers /\ Waiting(k) \subseteq Schedulers
    BY DEF Marking, Waiting
  <2>2. /\ Cardinality(Marking(k)) \in Nat /\ Cardinality(Waiting(k)) \in Nat
        /\ Cardinality(Marking(k)) <= Cardinality(Schedulers) /\ Cardinality(Schedulers) \in Nat
    BY <2>1, Cardinalities
  <2>3. passes[k] \in Nat /\ faults \in Nat
    BY DEF IInv, TypeOK
  <2>4. \/ passes[k] <= Cardinality(Marking(k)) + faults
        \/ passes[k] + Cardinality(Waiting(k)) <= Cardinality(Schedulers) + faults
    BY DEF IInv, RunsAreCounted
  <2> QED BY <2>2, <2>3, <2>4
<1> QED BY <1>1, InitIInv, StepIInv, PTL DEF Spec

\* A schedule runs before its time only in one of several workers, whose copy
\* of the row is older than another worker's run of it; with one worker it
\* never does (runDueSchedules, updateScheduleNextRun).
THEOREM EarlyRunsAreStaleHolds == Spec => EarlyRunsAreStale
<1> DEFINE Early == \A k \in Schedules : passes'[k] > passes[k] /\ nextRun[k] > now =>
             /\ Cardinality(Schedulers) > 1
             /\ \E r \in Schedulers : /\ pc[r] = "launch" /\ pc'[r] = "mark"
                                    /\ Item(r).id = k /\ Item(r).next # nextRun[k]
<1>1. IInv /\ [Next]_vars => [Early]_vars
  <2> SUFFICES ASSUME IInv, [Next]_vars, NEW k \in Schedules, passes'[k] > passes[k], nextRun[k] > now
      PROVE  /\ Cardinality(Schedulers) > 1
             /\ \E r \in Schedulers : /\ pc[r] = "launch" /\ pc'[r] = "mark"
                                    /\ Item(r).id = k /\ Item(r).next # nextRun[k]
    OBVIOUS
  <2>0. passes[k] \in Nat /\ nextRun[k] \in Nat /\ now \in Nat /\ TypeOK /\ LoopsOK
    BY DEF IInv, TypeOK, Times, Start
  <2>1. PICK r \in Schedulers : Launch(r) /\ Item(r).id = k
    <3>1. ~(passes'[k] = passes[k]) /\ ~(passes'[k] = 0)
      BY <2>0
    <3>2. ASSUME NEW r \in Schedulers, MarkRun(r) PROVE passes'[k] = passes[k] \/ passes'[k] = 0
      BY <3>2 DEF MarkRun, IInv, TypeOK
    <3>3. ASSUME NEW r \in Schedulers, Launch(r), Item(r).id # k PROVE passes'[k] = passes[k]
      BY <3>3 DEF Launch, IInv, TypeOK
    <3> QED BY <3>1, <3>2, <3>3, OnlyRunsCount
  <2>2. pc[r] = "launch" /\ pc'[r] = "mark"
    BY <2>0, <2>1 DEF Launch, TypeOK
  <2>3. at[r] \in 1..Len(due[r]) /\ Item(r) = due[r][at[r]] /\ Item(r) \in Copy
    BY <2>0, <2>2, ItemIsListed
  <2>4. Item(r).next <= now /\ Item(r).next \in Nat
    BY <2>0, <2>3 DEF LoopsOK, Copy
  <2>5. Item(r).next # nextRun[k]
    BY <2>0, <2>4
  <2>6. Cardinality(Schedulers) # 1
    BY <2>1, <2>2, <2>3, <2>5 DEF IInv, OwnCopiesAreFresh, Ahead
  <2>7. Cardinality(Schedulers) \in Nat /\ Cardinality(Schedulers) # 0
    BY FS_EmptySet, FS_CardinalityType
  <2> QED BY <2>1, <2>2, <2>5, <2>6, <2>7
<1> QED BY <1>1, InitIInv, StepIInv, PTL DEF Spec, EarlyRunsAreStale

\* What users set last is what the row has; a row is not created disabled.
WantedOK ==
  /\ wanted \in [Schedules -> Crons \X BOOLEAN]
  /\ EditsStand
  /\ \A k \in Schedules \ (rows \cup deleted) : enabled[k] = TRUE

\* What users set stands: schedulers write last_run and next_run alone
\* (MarkRun, Update).
THEOREM EditsStandAlways == Spec => []EditsStand
<1>1. Init => WantedOK
  <2> SUFFICES ASSUME Init PROVE WantedOK
    OBVIOUS
  <2>1. cron \in [Schedules -> Crons] /\ rows = {}
    BY DEF Init
  <2>2. wanted = [k \in Schedules |-> <<cron[k], TRUE>>] /\ enabled = [k \in Schedules |-> TRUE]
    BY DEF Init
  <2> QED BY <2>1, <2>2 DEF EditsStand, WantedOK
<1>2. IInv /\ WantedOK /\ [Next]_vars => WantedOK'
  <2> SUFFICES ASSUME IInv, WantedOK, [Next]_vars PROVE WantedOK'
    OBVIOUS
  <2>t. /\ cron \in [Schedules -> Crons] /\ enabled \in [Schedules -> BOOLEAN]
        /\ wanted \in [Schedules -> Crons \X BOOLEAN] /\ rows \subseteq Schedules
    BY DEF IInv, TypeOK, WantedOK
  <2>1. CASE UNCHANGED <<rows, deleted, cron, enabled, wanted>>
    BY <2>1 DEF WantedOK, EditsStand
  <2>2. ASSUME NEW k \in Schedules, CreateSchedule(k) PROVE WantedOK'
    <3>1. PICK c \in Crons : /\ cron' = [cron EXCEPT ![k] = c]
                             /\ wanted' = [wanted EXCEPT ![k] = <<c, TRUE>>]
      BY <2>2 DEF CreateSchedule
    <3>2. /\ k \notin rows \cup deleted /\ rows' = rows \cup {k}
          /\ UNCHANGED <<deleted, enabled>>
      BY <2>2 DEF CreateSchedule
    <3>3. wanted' \in [Schedules -> Crons \X BOOLEAN]
      BY <2>t, <3>1
    <3>4. <<cron'[k], enabled'[k]>> = wanted'[k]
      BY <2>t, <3>1, <3>2 DEF WantedOK
    <3>5. ASSUME NEW j \in rows, j # k PROVE <<cron'[j], enabled'[j]>> = wanted'[j]
      <4>1. cron'[j] = cron[j] /\ enabled'[j] = enabled[j] /\ wanted'[j] = wanted[j]
        BY <2>t, <3>1, <3>2, <3>5
      <4> QED BY <4>1 DEF WantedOK, EditsStand
    <3>6. EditsStand'
      BY <3>2, <3>4, <3>5 DEF EditsStand
    <3> QED BY <3>2, <3>3, <3>6 DEF WantedOK
  <2>3. ASSUME NEW k \in Schedules, UpdateSchedule(k) PROVE WantedOK'
    <3>1. PICK c \in Crons, e \in BOOLEAN : /\ cron' = [cron EXCEPT ![k] = c]
                                            /\ enabled' = [enabled EXCEPT ![k] = e]
                                            /\ wanted' = [wanted EXCEPT ![k] = <<c, e>>]
      BY <2>3 DEF UpdateSchedule
    <3>2. k \in rows /\ UNCHANGED <<rows, deleted>>
      BY <2>3 DEF UpdateSchedule
    <3>3. wanted' \in [Schedules -> Crons \X BOOLEAN]
      BY <2>t, <3>1
    <3>4. <<cron'[k], enabled'[k]>> = wanted'[k]
      BY <2>t, <3>1
    <3>5. ASSUME NEW j \in Schedules, j # k
          PROVE  cron'[j] = cron[j] /\ enabled'[j] = enabled[j] /\ wanted'[j] = wanted[j]
      BY <2>t, <3>1, <3>5
    <3>6. EditsStand'
      BY <2>t, <3>2, <3>4, <3>5 DEF WantedOK, EditsStand
    <3> QED BY <3>2, <3>3, <3>5, <3>6 DEF WantedOK
  <2>4. ASSUME NEW k \in Schedules, DeleteSchedule(k) PROVE WantedOK'
    BY <2>4 DEF DeleteSchedule, WantedOK, EditsStand
  <2> QED BY <2>1, <2>2, <2>3, <2>4, OnlyUsersEdit
<1>3. WantedOK => EditsStand
  BY DEF WantedOK
<1> QED BY <1>1, <1>2, <1>3, InitIInv, StepIInv, PTL DEF Spec
=============================================================================
