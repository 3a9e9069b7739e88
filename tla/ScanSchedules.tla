---------------------------- MODULE ScanSchedules ----------------------------
(***************************************************************************)
(* Periodic scans: users keep rows in `scan_schedules`, and every worker   *)
(* process has a goroutine that lists the due rows each minute, tries to   *)
(* insert a scan for each target of each of them and sets their next_run.  *)
(* The goroutine works on the copies it listed; users edit and delete the  *)
(* rows meanwhile, and so do the other workers.                            *)
(*                                                                         *)
(* Abstracted: a schedule's project or app and its scanners (a run tries   *)
(* the same insert for each of them), data scopes and audit logs.          *)
(***************************************************************************)
EXTENDS Integers, Sequences, FiniteSets, SequencesExt

CONSTANTS Schedules,
          Schedulers,  \* worker processes
          Crons,       \* cron expressions that pass validateCronExpr
          NextFire,    \* cron.Next: for each expression and instant
          BatchIds,    \* the UUIDs scans.scan_batch_id can hold
          Limit,       \* schedules a tick takes (50)
          MaxTime,     \* bound: the last instant
          MaxEdits,    \* bound: requests that change a schedule
          MaxFaults    \* bound: failed MarkRuns and crashes

\* next_run is NULL, or year 1 (cron.Next when an expression never fires),
\* or an instant; in this order they sort, NULLS FIRST.
Null  == 0
Year1 == 1
Start == 2
Times == Start..MaxTime

\* The batch id the scheduler gives its scans.
ScheduledBatch == "scheduled"

ASSUME ConstantsAssumption ==
  /\ IsFiniteSet(Schedules) /\ IsFiniteSet(Schedulers) /\ Crons # {}
  /\ MaxTime \in Nat /\ MaxTime >= Start /\ Limit \in Nat \ {0} /\ MaxEdits \in Nat /\ MaxFaults \in Nat
  /\ NextFire \in [Crons -> [Times -> Nat]]
  /\ \A c \in Crons, t \in Times : NextFire[c][t] = Year1 \/ NextFire[c][t] > t
  /\ ScheduledBatch \notin BatchIds

VARIABLES
  now,
  rows, deleted, \* schedules that have a row, and those that had one
  cron, enabled, nextRun,
  hasRun,    \* schedules whose last_run is set
  queued,    \* schedules some run of which inserted a scan and enqueued it
  pc, due, at,   \* a scheduler's loop over the rows it listed
  passes,    \* history: runs of a schedule since its next_run was set
  wanted,    \* history: <<cron, enabled>> as users last set them
  edits, faults

table == <<rows, deleted, cron, enabled, nextRun, hasRun>>
loop  == <<pc, due, at>>
vars  == <<now, table, queued, loop, passes, wanted, edits, faults>>

TypeOK ==
  /\ now \in Times
  /\ rows \subseteq Schedules /\ deleted \subseteq Schedules
  /\ cron \in [Schedules -> Crons]
  /\ enabled \in [Schedules -> BOOLEAN]
  /\ nextRun \in [Schedules -> Nat]
  /\ hasRun \subseteq Schedules
  /\ queued \subseteq Schedules
  /\ pc \in [Schedulers -> {"idle", "launch", "mark"}]
  /\ \A r \in Schedulers :
       /\ Len(due[r]) <= Limit
       /\ \A i \in DOMAIN due[r] : due[r][i] \in [id : Schedules, cron : Crons, next : Nat]
       /\ pc[r] # "idle" => at[r] \in 1..Len(due[r])
  /\ passes \in [Schedules -> Nat]
  /\ edits \in 0..MaxEdits /\ faults \in 0..MaxFaults

Init ==
  /\ now = Start
  /\ rows = {} /\ deleted = {}
  /\ cron = [k \in Schedules |-> CHOOSE c \in Crons : TRUE]
  /\ enabled = [k \in Schedules |-> TRUE]
  /\ nextRun = [k \in Schedules |-> Null] /\ hasRun = {}
  /\ queued = {}
  /\ pc = [r \in Schedulers |-> "idle"]
  /\ due = [r \in Schedulers |-> <<>>] /\ at = [r \in Schedulers |-> 1]
  /\ passes = [k \in Schedules |-> 0]
  /\ wanted = [k \in Schedules |-> <<cron[k], TRUE>>]
  /\ edits = 0 /\ faults = 0

Tick ==
  /\ now < MaxTime
  /\ now' = now + 1
  /\ UNCHANGED <<table, queued, loop, passes, wanted, edits, faults>>

-----------------------------------------------------------------------------
(* The API.                                                                *)

Request == edits < MaxEdits /\ edits' = edits + 1

\* enabled by default; next_run NULL, whatever the expression says.
CreateSchedule(k) ==
  /\ k \notin rows \cup deleted
  /\ rows' = rows \cup {k}
  /\ \E c \in Crons : /\ cron' = [cron EXCEPT ![k] = c]
                       /\ wanted' = [wanted EXCEPT ![k] = <<c, TRUE>>]
  /\ UNCHANGED <<now, deleted, enabled, nextRun, hasRun, queued, loop, passes, edits, faults>>

\* The SET list has the columns of the request, never next_run.  (The row
\* changes although the caller is told that the update failed: RETURNING has
\* ten columns and Scan nine destinations.)
UpdateSchedule(k) ==
  /\ k \in rows
  /\ Request
  /\ \E c \in Crons, e \in BOOLEAN :
       /\ <<c, e>> # <<cron[k], enabled[k]>>
       /\ cron' = [cron EXCEPT ![k] = c]
       /\ enabled' = [enabled EXCEPT ![k] = e]
       /\ wanted' = [wanted EXCEPT ![k] = <<c, e>>]
  /\ UNCHANGED <<now, rows, deleted, nextRun, hasRun, queued, loop, passes, faults>>

\* Also by the cascade from its project or app.
DeleteSchedule(k) ==
  /\ k \in rows
  /\ Request
  /\ rows' = rows \ {k}
  /\ deleted' = deleted \cup {k}
  /\ UNCHANGED <<now, cron, enabled, nextRun, hasRun, queued, loop, passes, wanted, faults>>

-----------------------------------------------------------------------------
(* The scheduler: runDueSchedules.                                         *)

Due(k) == k \in rows /\ enabled[k] /\ nextRun[k] <= now

\* The orders ORDER BY next_run ASC NULLS FIRST may give the due rows.
Listings == {q \in SetToSeqs({k \in Schedules : Due(k)}) :
               \A i, j \in DOMAIN q : i < j => nextRun[q[i]] <= nextRun[q[j]]}

\* The copies a scheduler works on.
Copies(q) == [i \in DOMAIN q |-> [id |-> q[i], cron |-> cron[q[i]], next |-> nextRun[q[i]]]]

FirstOf(q) == SubSeq(q, 1, IF Len(q) < Limit THEN Len(q) ELSE Limit)

\* Faulty: no LIMIT.
ListDueUnlimited(r) ==
  /\ pc[r] = "idle"
  /\ \E q \in Listings :
       /\ q # <<>>
       /\ due' = [due EXCEPT ![r] = Copies(q)]
  /\ at' = [at EXCEPT ![r] = 1]
  /\ pc' = [pc EXCEPT ![r] = "launch"]
  /\ UNCHANGED <<now, table, queued, passes, wanted, edits, faults>>

\* Faulty: no condition on next_run.
ListDueEarly(r) ==
  /\ pc[r] = "idle"
  /\ \E q \in SetToSeqs({k \in rows : enabled[k]}) :
       /\ q # <<>>
       /\ due' = [due EXCEPT ![r] = Copies(FirstOf(q))]
  /\ at' = [at EXCEPT ![r] = 1]
  /\ pc' = [pc EXCEPT ![r] = "launch"]
  /\ UNCHANGED <<now, table, queued, passes, wanted, edits, faults>>

ListDue(r) ==
  /\ pc[r] = "idle"
  /\ \E q \in Listings :
       /\ q # <<>>
       /\ due' = [due EXCEPT ![r] = Copies(FirstOf(q))]
  /\ at' = [at EXCEPT ![r] = 1]
  /\ pc' = [pc EXCEPT ![r] = "launch"]
  /\ UNCHANGED <<now, table, queued, passes, wanted, edits, faults>>

Item(r) == due[r][at[r]]

\* Scans.Insert fails for a batch id that is no UUID; the error is logged
\* and the next scanner tried.
Launch(r) ==
  LET k == Item(r).id
  IN  /\ pc[r] = "launch"
      /\ queued' = IF ScheduledBatch \in BatchIds THEN queued \cup {k} ELSE queued
      /\ passes' = [passes EXCEPT ![k] = @ + 1]
      /\ pc' = [pc EXCEPT ![r] = "mark"]
      /\ UNCHANGED <<now, table, due, at, wanted, edits, faults>>

NextSchedule(r) ==
  IF at[r] < Len(due[r])
    THEN /\ at' = [at EXCEPT ![r] = @ + 1]
         /\ pc' = [pc EXCEPT ![r] = "launch"]
         /\ UNCHANGED due
    ELSE /\ at' = [at EXCEPT ![r] = 1]
         /\ pc' = [pc EXCEPT ![r] = "idle"]
         /\ due' = [due EXCEPT ![r] = <<>>]

\* Faulty: writes the whole listed row back.
MarkRunWhole(r) ==
  LET k == Item(r).id
  IN  /\ pc[r] = "mark"
      /\ nextRun' = [nextRun EXCEPT ![k] = NextFire[Item(r).cron][now]]
      /\ hasRun' = hasRun \cup {k}
      /\ cron' = [cron EXCEPT ![k] = Item(r).cron]
      /\ passes' = [passes EXCEPT ![k] = 0]
      /\ NextSchedule(r)
      /\ UNCHANGED <<now, rows, deleted, enabled, queued, wanted, edits, faults>>

\* Faulty: sets last_run alone.
MarkRunOnlyLast(r) ==
  LET k == Item(r).id
  IN  /\ pc[r] = "mark"
      /\ hasRun' = hasRun \cup {k}
      /\ NextSchedule(r)
      /\ UNCHANGED <<now, rows, deleted, cron, enabled, nextRun, queued, passes, wanted, edits, faults>>

\* Faulty: an expression that matches this minute fires again in it.
MarkRunInclusive(r) ==
  LET k == Item(r).id
  IN  /\ pc[r] = "mark"
      /\ IF k \in rows
           THEN /\ nextRun' = [nextRun EXCEPT ![k] = now]
                /\ hasRun' = hasRun \cup {k}
                /\ passes' = [passes EXCEPT ![k] = 0]
           ELSE UNCHANGED <<nextRun, hasRun, passes>>
      /\ NextSchedule(r)
      /\ UNCHANGED <<now, rows, deleted, cron, enabled, queued, wanted, edits, faults>>

\* updateScheduleNextRun, from the listed expression, now.
MarkRun(r) ==
  LET k == Item(r).id
  IN  /\ pc[r] = "mark"
      /\ IF k \in rows
           THEN /\ nextRun' = [nextRun EXCEPT ![k] = NextFire[Item(r).cron][now]]
                /\ hasRun' = hasRun \cup {k}
                /\ passes' = [passes EXCEPT ![k] = 0]
           ELSE UNCHANGED <<nextRun, hasRun, passes>>
      /\ NextSchedule(r)
      /\ UNCHANGED <<now, rows, deleted, cron, enabled, queued, wanted, edits, faults>>

Fault == faults < MaxFaults /\ faults' = faults + 1

MarkRunFails(r) ==
  /\ pc[r] = "mark"
  /\ Fault
  /\ NextSchedule(r)
  /\ UNCHANGED <<now, table, queued, passes, wanted, edits>>

\* The process stops between two statements and is started again.
Crash(r) ==
  /\ pc[r] # "idle"
  /\ Fault
  /\ pc' = [pc EXCEPT ![r] = "idle"]
  /\ due' = [due EXCEPT ![r] = <<>>]
  /\ at' = [at EXCEPT ![r] = 1]
  /\ UNCHANGED <<now, table, queued, passes, wanted, edits>>

-----------------------------------------------------------------------------
SchedulerStep(r) == ListDue(r) \/ Launch(r) \/ MarkRun(r) \/ MarkRunFails(r)

Next ==
  \/ Tick
  \/ \E k \in Schedules : CreateSchedule(k) \/ UpdateSchedule(k) \/ DeleteSchedule(k)
  \/ \E r \in Schedulers : SchedulerStep(r) \/ Crash(r)

Spec == Init /\ [][Next]_vars

\* The ticker fires and the goroutine runs.
FairSpec == Spec /\ \A r \in Schedulers : WF_vars(SchedulerStep(r))
-----------------------------------------------------------------------------
(* Properties.                                                             *)

\* No lock keeps two workers from running the same schedule, but one instant
\* is run at most once by each of them, and once more for each MarkRun that
\* was lost, however long the scheduler was down before.
OncePerInstant ==
  \A k \in Schedules : passes[k] <= Cardinality(Schedulers) + faults

\* A schedule runs before its time only in a worker whose copy of the row is
\* older than the run of another worker.
EarlyRunsAreStale ==
  [][\A k \in Schedules : passes'[k] > passes[k] /\ nextRun[k] > now =>
       /\ Cardinality(Schedulers) > 1
       /\ \E r \in Schedulers : /\ pc[r] = "launch" /\ pc'[r] = "mark"
                              /\ Item(r).id = k /\ Item(r).next # nextRun[k]]_vars

\* What users set stands: no scheduler working on an older copy of the row
\* reverts an edit made while it ran.
EditsStand == \A k \in rows : <<cron[k], enabled[k]>> = wanted[k]

\* Rows that every listing returns first: their expression never fires.
Stuck == {k \in rows : enabled[k] /\ nextRun[k] = Year1}

\* Every due schedule gets its next_run (or is switched off), as long as
\* schedules that are due forever do not fill the LIMIT.
EveryDueRuns ==
  [](Cardinality(Stuck) < Limit) =>
    \A k \in Schedules : Due(k) ~> ~ Due(k) \/ nextRun[k] = Year1

\* "The worker checks due schedules on a 1-minute tick and enqueues scan
\* jobs": a schedule that has run has had a scan enqueued.
RunsEnqueueScans == hasRun \subseteq queued
=============================================================================
