---------------------------- MODULE ScanLifecycle ----------------------------
(***************************************************************************)
(* The life of a scan: the API (or a scheduler) inserts a row in the       *)
(* `scans` table and enqueues a task; a worker process takes the task from *)
(* Asynq, runs the scanner, stores the findings and records the verdict in *)
(* the row.  Processes crash, are stopped by a deploy, and start again;    *)
(* the queue redelivers; attempts run into their deadline; every database  *)
(* statement of the handler may fail.                                      *)
(*                                                                         *)
(* What the row says (`status`, `error`) and what the queue believes       *)
(* (`task`, `retried`) are written by different actors without a common    *)
(* transaction; the properties below relate the two.                       *)
(*                                                                         *)
(* Abstracted: the findings themselves (module FindingIngest), and the     *)
(* best-effort notification and snippet-enrichment tasks the handler       *)
(* enqueues, which touch neither the row nor this task.                    *)
(***************************************************************************)
EXTENDS Naturals, FiniteSets

CONSTANTS Scans,        \* scan identifiers
          Workers,      \* worker processes (cmd/worker)
          NoWorker,     \* the owner of a task nobody holds
          MaxRetry,     \* asynq.MaxRetry of a scan task
          Concurrency,  \* tasks one worker process executes at a time
          MaxStops      \* bound: crashes and shutdowns in one behaviour

ASSUME ConstantsAssumption ==
  /\ NoWorker \notin Workers
  /\ MaxRetry \in Nat
  /\ Concurrency \in Nat \ {0}
  /\ MaxStops \in Nat

VARIABLES
  status,    \* scans.status: what a user polls
  error,     \* scans.error, by origin
  creating,  \* scans inserted whose creator has not yet called Enqueue
  task,      \* what the queue holds for the scan
  retried,   \* retries the queue has charged to the task
  owner,     \* the worker process holding the task's lease
  pc,        \* where the handler executing the task is; "idle": nobody is
  up,        \* worker processes that are serving tasks
  lost,      \* history: what was about to be recorded when an attempt was cut
  stops      \* crashes and shutdowns so far

row  == <<status, error>>
jobs == <<task, retried, owner>>
vars == <<status, error, creating, task, retried, owner, pc, up, lost, stops>>

Status  == {"absent", "pending", "running", "completed", "failed"}
Error   == {"none", "handler", "exit", "restarted"}
Task    == {"none", "queued", "active", "archived", "done"}
Handler == {"idle", "dequeued", "scanning", "ingesting", "returnErr", "returnOk"}

\* The attempt has marked the row "running" and has not reached a verdict.
Working == {"scanning", "ingesting"}

TypeOK ==
  /\ status   \in [Scans -> Status]
  /\ error    \in [Scans -> Error]
  /\ creating \in SUBSET Scans
  /\ task     \in [Scans -> Task]
  /\ retried  \in [Scans -> 0..MaxRetry]
  /\ owner    \in [Scans -> Workers \cup {NoWorker}]
  /\ pc       \in [Scans -> Handler]
  /\ up       \in SUBSET Workers
  /\ lost     \in [Scans -> SUBSET {"verdict", "ack"}]
  /\ stops    \in 0..MaxStops

Init ==
  /\ status   = [s \in Scans |-> "absent"]
  /\ error    = [s \in Scans |-> "none"]
  /\ creating = {}
  /\ task     = [s \in Scans |-> "none"]
  /\ retried  = [s \in Scans |-> 0]
  /\ owner    = [s \in Scans |-> NoWorker]
  /\ pc       = [s \in Scans |-> "idle"]
  /\ up       = {}
  /\ lost     = [s \in Scans |-> {}]
  /\ stops    = 0

-----------------------------------------------------------------------------
(* The creator: createScanRecords, the scan scheduler, a threat rescan.    *)

InsertScan(s) ==
  /\ status[s] = "absent"
  /\ status' = [status EXCEPT ![s] = "pending"]
  /\ creating' = creating \cup {s}
  /\ UNCHANGED <<error, jobs, pc, up, lost, stops>>

EnqueueScan(s) ==
  /\ s \in creating
  /\ creating' = creating \ {s}
  /\ task' = [task EXCEPT ![s] = "queued"]
  /\ UNCHANGED <<row, retried, owner, pc, up, lost, stops>>

\* Enqueue's error is ignored, or the creator dies before the call.
EnqueueLost(s) ==
  /\ s \in creating
  /\ creating' = creating \ {s}
  /\ UNCHANGED <<row, jobs, pc, up, lost, stops>>

-----------------------------------------------------------------------------
(* The queue (Asynq).  A failed or expired delivery is charged a retry and *)
(* goes back to the queue, or is archived once the retries are used up.    *)

\* Faulty: an IsFailure option that charges no retry.
RedeliverUncharged(s) ==
  /\ owner' = [owner EXCEPT ![s] = NoWorker]
  /\ task'  = [task EXCEPT ![s] = "queued"]
  /\ UNCHANGED retried

\* Faulty: one retry too many.
RedeliverOnceMore(s) ==
  /\ owner' = [owner EXCEPT ![s] = NoWorker]
  /\ IF retried[s] <= MaxRetry
       THEN /\ retried' = [retried EXCEPT ![s] = @ + 1]
            /\ task' = [task EXCEPT ![s] = "queued"]
       ELSE /\ task' = [task EXCEPT ![s] = "archived"]
            /\ UNCHANGED retried

Redeliver(s) ==
  /\ owner' = [owner EXCEPT ![s] = NoWorker]
  /\ IF retried[s] < MaxRetry
       THEN /\ retried' = [retried EXCEPT ![s] = @ + 1]
            /\ task' = [task EXCEPT ![s] = "queued"]
       ELSE /\ task' = [task EXCEPT ![s] = "archived"]
            /\ UNCHANGED retried

\* What the row or the queue never hears of if s's handler stops here.
Unheard(s) == (IF pc[s] \in Working THEN {"verdict"} ELSE {})
              \cup (IF pc[s] = "returnOk" THEN {"ack"} ELSE {})

\* The handlers of the scans in S cease to exist.
Abandon(S) ==
  /\ pc'   = [s \in Scans |-> IF s \in S THEN "idle" ELSE pc[s]]
  /\ lost' = [s \in Scans |-> IF s \in S THEN lost[s] \cup Unheard(s) ELSE lost[s]]

Executing(w) == {s \in Scans : owner[s] = w /\ pc[s] # "idle"}

Dequeue(w, s) ==
  /\ w \in up
  /\ task[s] = "queued"
  /\ Cardinality(Executing(w)) < Concurrency
  /\ task'  = [task EXCEPT ![s] = "active"]
  /\ owner' = [owner EXCEPT ![s] = w]
  /\ pc'    = [pc EXCEPT ![s] = "dequeued"]
  /\ UNCHANGED <<row, creating, retried, up, lost, stops>>

\* asynq.Timeout: the queue settles the delivery without waiting for the
\* handler, whose context is cancelled: none of its later statements takes
\* effect.
Deadline(s) ==
  /\ pc[s] # "idle"
  /\ Abandon({s})
  /\ Redeliver(s)
  /\ UNCHANGED <<row, creating, up, stops>>

\* The recoverer of some live server finds the lease of a dead one expired.
LeaseExpires(s) ==
  /\ task[s] = "active"
  /\ pc[s] = "idle"
  /\ up # {}
  /\ Redeliver(s)
  /\ UNCHANGED <<row, creating, pc, up, lost, stops>>

-----------------------------------------------------------------------------
(* The handler: HandleScan.                                                *)

\* An error before MarkRunning takes effect: a payload that does not parse,
\* an unknown scanner, a failed UPDATE.
AbortScan(s) ==
  /\ pc[s] = "dequeued"
  /\ pc' = [pc EXCEPT ![s] = "returnErr"]
  /\ UNCHANGED <<row, creating, jobs, up, lost, stops>>

\* Faulty: MarkRunning with AND status = 'pending'.
StartScanOnlyPending(s) ==
  /\ pc[s] = "dequeued"
  /\ status' = [status EXCEPT ![s] = IF @ = "pending" THEN "running" ELSE @]
  /\ pc'   = [pc EXCEPT ![s] = "scanning"]
  /\ lost' = [lost EXCEPT ![s] = @ \ {"verdict"}]
  /\ UNCHANGED <<error, creating, jobs, up, stops>>

\* MarkRunning does not look at the status it overwrites.
StartScan(s) ==
  /\ pc[s] = "dequeued"
  /\ status' = [status EXCEPT ![s] = "running"]
  /\ pc'   = [pc EXCEPT ![s] = "scanning"]
  /\ lost' = [lost EXCEPT ![s] = @ \ {"verdict"}]
  /\ UNCHANGED <<error, creating, jobs, up, stops>>

\* Faulty: the error is returned without MarkFailed.
FailScanUnmarked(s) ==
  /\ pc[s] = "scanning"
  /\ pc' = [pc EXCEPT ![s] = "returnErr"]
  /\ UNCHANGED <<row, creating, jobs, up, lost, stops>>

\* Faulty: MarkFailed, then nil instead of the error.
FailScanSwallowed(s) ==
  /\ pc[s] = "scanning"
  /\ status' = [status EXCEPT ![s] = "failed"]
  /\ error'  = [error EXCEPT ![s] = "handler"]
  /\ pc'     = [pc EXCEPT ![s] = "returnOk"]
  /\ UNCHANGED <<creating, jobs, up, lost, stops>>

\* Clone or scanner failed: MarkFailed, then the handler returns the error.
FailScan(s) ==
  /\ pc[s] = "scanning"
  /\ status' = [status EXCEPT ![s] = "failed"]
  /\ error'  = [error EXCEPT ![s] = "handler"]
  /\ pc'     = [pc EXCEPT ![s] = "returnErr"]
  /\ UNCHANGED <<creating, jobs, up, lost, stops>>

\* The same with MarkFailed's own error ignored.
FailScanUnrecorded(s) ==
  /\ pc[s] = "scanning"
  /\ pc'   = [pc EXCEPT ![s] = "returnErr"]
  /\ lost' = [lost EXCEPT ![s] = @ \cup {"verdict"}]
  /\ UNCHANGED <<row, creating, jobs, up, stops>>

\* The scanner produced output, with or without an exit error.
ScanProduced(s) ==
  /\ pc[s] = "scanning"
  /\ pc' = [pc EXCEPT ![s] = "ingesting"]
  /\ UNCHANGED <<row, creating, jobs, up, lost, stops>>

\* Faulty: the error of MarkCompleted's second statement is returned.
CompleteScanPropagates(s) ==
  /\ pc[s] = "ingesting"
  /\ status' = [status EXCEPT ![s] = "completed"]
  /\ \/ error' = error /\ pc' = [pc EXCEPT ![s] = "returnErr"]
     \/ \E e \in {error[s], "exit"} : /\ error' = [error EXCEPT ![s] = e]
                                     /\ pc' = [pc EXCEPT ![s] = "returnOk"]
  /\ UNCHANGED <<creating, jobs, up, lost, stops>>

\* MarkCompleted: status first, then the exit error if there was one; the
\* second statement may fail.  An older error is not cleared.
CompleteScan(s) ==
  /\ pc[s] = "ingesting"
  /\ status' = [status EXCEPT ![s] = "completed"]
  /\ \E e \in {error[s], "exit"} : error' = [error EXCEPT ![s] = e]
  /\ pc' = [pc EXCEPT ![s] = "returnOk"]
  /\ UNCHANGED <<creating, jobs, up, lost, stops>>

CompleteScanFails(s) ==
  /\ pc[s] = "ingesting"
  /\ pc'   = [pc EXCEPT ![s] = "returnErr"]
  /\ lost' = [lost EXCEPT ![s] = @ \cup {"verdict"}]
  /\ UNCHANGED <<row, creating, jobs, up, stops>>

ReturnError(s) ==
  /\ pc[s] = "returnErr"
  /\ pc' = [pc EXCEPT ![s] = "idle"]
  /\ Redeliver(s)
  /\ UNCHANGED <<row, creating, up, lost, stops>>

ReturnOk(s) ==
  /\ pc[s] = "returnOk"
  /\ pc'    = [pc EXCEPT ![s] = "idle"]
  /\ task'  = [task EXCEPT ![s] = "done"]
  /\ owner' = [owner EXCEPT ![s] = NoWorker]
  /\ UNCHANGED <<row, creating, retried, up, lost, stops>>

HandlerStep(s) ==
  \/ AbortScan(s)
  \/ StartScan(s)
  \/ FailScan(s)
  \/ FailScanUnrecorded(s)
  \/ ScanProduced(s)
  \/ CompleteScan(s)
  \/ CompleteScanFails(s)
  \/ ReturnError(s)
  \/ ReturnOk(s)

-----------------------------------------------------------------------------
(* Worker processes.                                                       *)

\* Faulty: the UPDATE without its WHERE status = 'running'.
RecoverEvery ==
  /\ status' = [s \in Scans |-> IF status[s] # "absent" THEN "failed" ELSE status[s]]
  /\ error'  = [s \in Scans |-> IF status[s] # "absent" THEN "restarted" ELSE error[s]]

\* RecoverStuck fails every row that reads "running", whoever runs it.
RecoverStuck ==
  /\ status' = [s \in Scans |-> IF status[s] = "running" THEN "failed" ELSE status[s]]
  /\ error'  = [s \in Scans |-> IF status[s] = "running" THEN "restarted" ELSE error[s]]

\* main: RecoverStuck, whose error is ignored, runs before the server.
StartWorker(w) ==
  /\ w \notin up
  /\ up' = up \cup {w}
  /\ RecoverStuck \/ UNCHANGED row
  /\ UNCHANGED <<creating, jobs, pc, lost, stops>>

Stop(w) ==
  /\ w \in up
  /\ stops < MaxStops
  /\ stops' = stops + 1
  /\ up' = up \ {w}
  /\ Abandon(Executing(w))
  /\ UNCHANGED <<row, creating>>

\* The process dies: its tasks stay active until their leases expire.
Crash(w) ==
  /\ Stop(w)
  /\ UNCHANGED jobs

\* SIGTERM: unfinished tasks go back to the queue, no retry charged.
Shutdown(w) ==
  /\ Stop(w)
  /\ task'  = [s \in Scans |-> IF s \in Executing(w) THEN "queued" ELSE task[s]]
  /\ owner' = [s \in Scans |-> IF s \in Executing(w) THEN NoWorker ELSE owner[s]]
  /\ UNCHANGED retried

-----------------------------------------------------------------------------
CreatorStep(s) == InsertScan(s) \/ EnqueueScan(s) \/ EnqueueLost(s)

Next ==
  \/ \E s \in Scans : \/ CreatorStep(s)
                      \/ Deadline(s)
                      \/ LeaseExpires(s)
                      \/ HandlerStep(s)
                      \/ \E w \in Workers : Dequeue(w, s)
  \/ \E w \in Workers : StartWorker(w) \/ Crash(w) \/ Shutdown(w)

Spec == Init /\ [][Next]_vars

(* A server that is up polls the queue and recovers expired leases, and a  *)
(* handler proceeds to its end because asynq.Timeout bounds every attempt. *)
(* Nothing is assumed about creators or about processes being restarted:   *)
(* docker-compose.yml sets no restart policy.                              *)
Fairness ==
  \A s \in Scans :
    /\ WF_vars(\E w \in Workers : Dequeue(w, s))
    /\ WF_vars(HandlerStep(s) \/ Deadline(s))
    /\ WF_vars(LeaseExpires(s))

FairSpec == Spec /\ Fairness

-----------------------------------------------------------------------------
(* Properties.                                                             *)

\* A task the queue has acknowledged as done belongs to a scan whose row
\* says "completed", whatever other workers, restarts and redeliveries do
\* to the row (HandleScan returns nil only after MarkCompleted, and
\* RecoverStuck spares rows that are not running).
AckedIsCompleted ==
  \A s \in Scans : task[s] = "done" => status[s] = "completed"

\* A row that reads "running" with no handler at work on it is the trace of
\* an attempt that was cut short or could not write: a handler that reaches
\* a verdict never leaves its row "running".
RunningIsAttended ==
  \A s \in Scans :
    status[s] = "running" => pc[s] \in Working \/ "verdict" \in lost[s]

\* While a handler is at work on a scan the row says so, unless another
\* worker process was there to start and sweep it (RecoverStuck).  With one
\* worker process the row is always right.
RowIsTruthful ==
  \A s \in Scans :
    pc[s] \in Working =>
      \/ status[s] = "running"
      \/ /\ status[s] = "failed" /\ error[s] = "restarted"
         /\ Workers # {owner[s]}

\* A completed scan is only taken back when the acknowledgement of the
\* attempt that completed it was lost (crash, shutdown or deadline between
\* MarkCompleted and the handler's return).
CompletedStands ==
  [][\A s \in Scans :
       status[s] = "completed" /\ status'[s] # "completed" => "ack" \in lost[s]]_vars

\* Work may still happen on a scan while its creator has it or the queue does.
Open(s) == s \in creating \/ task[s] \in {"queued", "active"}

phase == [s \in Scans |-> IF status[s] = "absent" THEN "new"
                          ELSE IF Open(s) THEN "open" ELSE "closed"]

\* The row and the queue together implement the promise of ScanJob.
Job == INSTANCE ScanJob WITH
         row     <- status,
         retries <- retried,
         phase   <- phase

\* Legal moves of the row, retry budget, and no scan given up early.
JobSpec == Job!Spec

\* Once some worker stays up, every queued scan leaves the queue for good:
\* acknowledged, or archived after its retries.
EveryTaskSettles ==
  <>[](up # {}) =>
    \A s \in Scans : task[s] = "queued" ~> task[s] \in {"done", "archived"}
=============================================================================
