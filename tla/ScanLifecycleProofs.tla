------------------------- MODULE ScanLifecycleProofs -------------------------
(***************************************************************************)
(* Theorems about ScanLifecycle, for every number of scans, workers,       *)
(* retries, slots and stops.  The inductive invariant ties together the    *)
(* three views of a scan: the row, the queue, and the handler at work.     *)
(***************************************************************************)
EXTENDS ScanLifecycle, TLAPS

\* A handler runs only under an active lease of a live process.
HandlerHoldsLease ==
  \A s \in Scans : pc[s] # "idle" => task[s] = "active" /\ owner[s] \in up

\* Before its creator has called Enqueue a scan is untouched.
FreshIsUntouched ==
  \A s \in Scans :
    /\ status[s] = "absent" => s \notin creating
    /\ status[s] = "absent" \/ s \in creating => task[s] = "none" /\ retried[s] = 0
    /\ s \in creating => status[s] = "pending"

\* A handler about to be acknowledged has completed its row.
OkIsCompleted ==
  \A s \in Scans : pc[s] = "returnOk" => status[s] = "completed"

\* A completed row is being acknowledged, is acknowledged, or lost its ack.
CompletedIsExplained ==
  \A s \in Scans :
    status[s] = "completed" =>
      pc[s] = "returnOk" \/ task[s] = "done" \/ "ack" \in lost[s]

IInv ==
  /\ TypeOK
  /\ HandlerHoldsLease
  /\ FreshIsUntouched
  /\ OkIsCompleted
  /\ CompletedIsExplained
  /\ AckedIsCompleted
  /\ RunningIsAttended
  /\ RowIsTruthful

USE ConstantsAssumption

-----------------------------------------------------------------------------
(* Type correctness.                                                       *)

LEMMA InitTypeOK == Init => TypeOK
  BY DEF Init, TypeOK, Status, Error, Task, Handler

LEMMA AbandonType ==
  ASSUME TypeOK, NEW S, Abandon(S)
  PROVE  /\ pc' \in [Scans -> Handler]
         /\ lost' \in [Scans -> SUBSET {"verdict", "ack"}]
  BY DEF TypeOK, Abandon, Unheard, Handler

LEMMA RedeliverType ==
  ASSUME TypeOK, NEW s \in Scans, Redeliver(s)
  PROVE  /\ task' \in [Scans -> Task]
         /\ retried' \in [Scans -> 0..MaxRetry]
         /\ owner' \in [Scans -> Workers \cup {NoWorker}]
  BY DEF TypeOK, Redeliver, Task

LEMMA StepTypeOK == TypeOK /\ [Next]_vars => TypeOK'
<1> SUFFICES ASSUME TypeOK, [Next]_vars PROVE TypeOK'
  OBVIOUS
<1> USE DEF TypeOK, Status, Error, Task, Handler, row, jobs
<1>1. ASSUME NEW s \in Scans, CreatorStep(s) PROVE TypeOK'
  BY <1>1 DEF CreatorStep, InsertScan, EnqueueScan, EnqueueLost
<1>2. ASSUME NEW s \in Scans, Deadline(s) PROVE TypeOK'
  BY <1>2, AbandonType, RedeliverType DEF Deadline
<1>3. ASSUME NEW s \in Scans, LeaseExpires(s) PROVE TypeOK'
  BY <1>3, RedeliverType DEF LeaseExpires
<1>4. ASSUME NEW s \in Scans, HandlerStep(s) PROVE TypeOK'
  <2>1. CASE AbortScan(s) BY <2>1 DEF AbortScan
  <2>2. CASE StartScan(s) BY <2>2 DEF StartScan
  <2>3. CASE FailScan(s) BY <2>3 DEF FailScan
  <2>4. CASE FailScanUnrecorded(s) BY <2>4 DEF FailScanUnrecorded
  <2>5. CASE ScanProduced(s) BY <2>5 DEF ScanProduced
  <2>6. CASE CompleteScan(s) BY <2>6 DEF CompleteScan
  <2>7. CASE CompleteScanFails(s) BY <2>7 DEF CompleteScanFails
  <2>8. CASE ReturnError(s) BY <2>8, RedeliverType DEF ReturnError
  <2>9. CASE ReturnOk(s) BY <2>9 DEF ReturnOk
  <2> QED
    BY <1>4, <2>1, <2>2, <2>3, <2>4, <2>5, <2>6, <2>7, <2>8, <2>9 DEF HandlerStep
<1>5. ASSUME NEW s \in Scans, NEW w \in Workers, Dequeue(w, s) PROVE TypeOK'
  BY <1>5 DEF Dequeue
<1>6. ASSUME NEW w \in Workers, StartWorker(w) PROVE TypeOK'
  BY <1>6 DEF StartWorker, RecoverStuck
<1>7. ASSUME NEW w \in Workers, Crash(w) PROVE TypeOK'
  BY <1>7, AbandonType DEF Crash, Stop
<1>8. ASSUME NEW w \in Workers, Shutdown(w) PROVE TypeOK'
  BY <1>8, AbandonType DEF Shutdown, Stop
<1>9. ASSUME UNCHANGED vars PROVE TypeOK'
  BY <1>9 DEF vars
<1> QED
  BY <1>1, <1>2, <1>3, <1>4, <1>5, <1>6, <1>7, <1>8, <1>9 DEF Next

\* In every reachable state each variable has its type: in particular the
\* retry counter never passes MaxRetry and the stop counter its bound.
THEOREM TypeCorrect == Spec => []TypeOK
  BY InitTypeOK, StepTypeOK, PTL DEF Spec

-----------------------------------------------------------------------------
(* The inductive invariant.                                                *)

\* IInv without its typing conjunct: what each action has to re-establish.
Rest ==
  /\ HandlerHoldsLease
  /\ FreshIsUntouched
  /\ OkIsCompleted
  /\ CompletedIsExplained
  /\ AckedIsCompleted
  /\ RunningIsAttended
  /\ RowIsTruthful

LEMMA InitIInv == Init => IInv
<1> SUFFICES ASSUME Init PROVE IInv
  OBVIOUS
<1>1. TypeOK
  BY InitTypeOK
<1>2. Rest
  BY DEF Init, Rest, HandlerHoldsLease, FreshIsUntouched, OkIsCompleted,
         CompletedIsExplained, AckedIsCompleted, RunningIsAttended, RowIsTruthful, Working
<1> QED
  BY <1>1, <1>2 DEF IInv, Rest

\* The actors outside the workers never touch a scan somebody works on.
LEMMA CreatorKeepsRest ==
  ASSUME IInv, NEW s \in Scans, CreatorStep(s)
  PROVE  Rest'
<1> USE DEF IInv, Rest, TypeOK, HandlerHoldsLease, FreshIsUntouched, OkIsCompleted,
            CompletedIsExplained, AckedIsCompleted, RunningIsAttended, RowIsTruthful,
            Working, row, jobs
<1>1. CASE InsertScan(s)   BY <1>1 DEF InsertScan
<1>2. CASE EnqueueScan(s)  BY <1>2 DEF EnqueueScan
<1>3. CASE EnqueueLost(s)  BY <1>3 DEF EnqueueLost
<1> QED
  BY <1>1, <1>2, <1>3 DEF CreatorStep

\* Deliveries, and deliveries cut short.
LEMMA QueueKeepsRest ==
  ASSUME IInv, NEW s \in Scans,
         Deadline(s) \/ LeaseExpires(s) \/ \E w \in Workers : Dequeue(w, s)
  PROVE  Rest'
<1> USE DEF IInv, Rest, TypeOK, HandlerHoldsLease, FreshIsUntouched, OkIsCompleted,
            CompletedIsExplained, AckedIsCompleted, RunningIsAttended, RowIsTruthful,
            Working, row, jobs
<1>1. CASE Deadline(s)     BY <1>1 DEF Deadline, Redeliver, Abandon, Unheard
<1>2. CASE LeaseExpires(s) BY <1>2 DEF LeaseExpires, Redeliver
<1>3. ASSUME NEW w \in Workers, Dequeue(w, s) PROVE Rest'
  BY <1>3 DEF Dequeue
<1> QED
  BY <1>1, <1>2, <1>3

LEMMA HandlerKeepsRest ==
  ASSUME IInv, NEW s \in Scans, HandlerStep(s)
  PROVE  Rest'
<1> USE DEF IInv, Rest, TypeOK, HandlerHoldsLease, FreshIsUntouched, OkIsCompleted,
            CompletedIsExplained, AckedIsCompleted, RunningIsAttended, RowIsTruthful,
            Working, row, jobs
<1>1. CASE AbortScan(s)          BY <1>1 DEF AbortScan
<1>2. CASE StartScan(s)          BY <1>2 DEF StartScan
<1>3. CASE FailScan(s)           BY <1>3 DEF FailScan
<1>4. CASE FailScanUnrecorded(s) BY <1>4 DEF FailScanUnrecorded
<1>5. CASE ScanProduced(s)       BY <1>5 DEF ScanProduced
<1>6. CASE CompleteScan(s)       BY <1>6 DEF CompleteScan
<1>7. CASE CompleteScanFails(s)  BY <1>7 DEF CompleteScanFails
<1>8. CASE ReturnError(s)        BY <1>8 DEF ReturnError, Redeliver
<1>9. CASE ReturnOk(s)           BY <1>9 DEF ReturnOk
<1> QED
  BY <1>1, <1>2, <1>3, <1>4, <1>5, <1>6, <1>7, <1>8, <1>9 DEF HandlerStep

\* A worker that starts was not up, so the rows it sweeps belong to others:
\* this is where RowIsTruthful needs a second worker.
LEMMA ProcessKeepsRest ==
  ASSUME IInv, NEW w \in Workers, StartWorker(w) \/ Crash(w) \/ Shutdown(w)
  PROVE  Rest'
<1> USE DEF IInv, Rest, TypeOK, HandlerHoldsLease, FreshIsUntouched, OkIsCompleted,
            CompletedIsExplained, AckedIsCompleted, RunningIsAttended, RowIsTruthful,
            Working, row, jobs
<1>1. CASE StartWorker(w)  BY <1>1 DEF StartWorker, RecoverStuck
<1>2. CASE Crash(w)        BY <1>2 DEF Crash, Stop, Abandon, Unheard, Executing
<1>3. CASE Shutdown(w)     BY <1>3 DEF Shutdown, Stop, Abandon, Unheard, Executing
<1> QED
  BY <1>1, <1>2, <1>3

LEMMA StepIInv == IInv /\ [Next]_vars => IInv'
<1> SUFFICES ASSUME IInv, [Next]_vars PROVE IInv'
  OBVIOUS
<1>1. TypeOK'
  BY StepTypeOK DEF IInv
<1>2. Rest'
  <2>1. CASE UNCHANGED vars
    BY <2>1 DEF vars, IInv, Rest, HandlerHoldsLease, FreshIsUntouched, OkIsCompleted,
                CompletedIsExplained, AckedIsCompleted, RunningIsAttended, RowIsTruthful
  <2> QED
    BY <2>1, CreatorKeepsRest, QueueKeepsRest, HandlerKeepsRest, ProcessKeepsRest DEF Next
<1> QED
  BY <1>1, <1>2 DEF IInv, Rest

\* The three views of a scan agree in every reachable state.
THEOREM IInvHolds == Spec => []IInv
  BY InitIInv, StepIInv, PTL DEF Spec

\* A task acknowledged as done belongs to a scan whose row says "completed",
\* although MarkRunning and RecoverStuck overwrite rows they know nothing of.
THEOREM AckedIsCompletedHolds == Spec => []AckedIsCompleted
<1>1. IInv => AckedIsCompleted
  BY DEF IInv
<1> QED
  BY <1>1, IInvHolds, PTL

\* A row nobody works on reads "running" only if the verdict of an attempt
\* was lost: every return of HandleScan after MarkRunning marks the row.
THEOREM RunningIsAttendedHolds == Spec => []RunningIsAttended
<1>1. IInv => RunningIsAttended
  BY DEF IInv
<1> QED
  BY <1>1, IInvHolds, PTL

\* The row of a scan being worked on says so, but for the sweep of a second
\* worker's RecoverStuck.
THEOREM RowIsTruthfulHolds == Spec => []RowIsTruthful
<1>1. IInv => RowIsTruthful
  BY DEF IInv
<1> QED
  BY <1>1, IInvHolds, PTL

\* With one worker process RecoverStuck harms nobody: whenever a handler
\* works on a scan, its row reads "running".
THEOREM OneWorkerRowIsRight ==
  ASSUME NEW w, Workers = {w}
  PROVE  Spec => [](\A s \in Scans : pc[s] \in Working => status[s] = "running")
<1>1. IInv => \A s \in Scans : pc[s] \in Working => status[s] = "running"
  BY DEF IInv, TypeOK, RowIsTruthful, HandlerHoldsLease, Working
<1> QED
  BY <1>1, IInvHolds, PTL

-----------------------------------------------------------------------------
(* Steps.                                                                  *)

\* Only MarkRunning overwrites "completed", and it runs under a lease; a
\* lease on a completed scan exists because the ack of an attempt was lost.
LEMMA StepCompletedStands ==
  ASSUME IInv, [Next]_vars, NEW s \in Scans, status[s] = "completed", status'[s] # "completed"
  PROVE  "ack" \in lost[s]
<1> USE DEF IInv, TypeOK, row, jobs
<1>1. PICK t \in Scans : StartScan(t) /\ t = s
  <2>1. ASSUME NEW t \in Scans, CreatorStep(t) PROVE FALSE
    BY <2>1 DEF CreatorStep, InsertScan, EnqueueScan, EnqueueLost
  <2>2. ASSUME NEW t \in Scans,
               Deadline(t) \/ LeaseExpires(t) \/ \E w \in Workers : Dequeue(w, t)
        PROVE  FALSE
    BY <2>2 DEF Deadline, LeaseExpires, Dequeue
  <2>3. ASSUME NEW t \in Scans, HandlerStep(t) PROVE StartScan(t) /\ t = s
    <3>1. CASE StartScan(t)  BY <3>1 DEF StartScan
    <3>2. CASE FailScan(t)
      BY <3>2 DEF FailScan, HandlerHoldsLease, CompletedIsExplained, RowIsTruthful, Working
    <3>3. CASE CompleteScan(t)  BY <3>3 DEF CompleteScan
    <3>4. CASE UNCHANGED status  BY <3>4
    <3> QED
      BY <2>3, <3>1, <3>2, <3>3, <3>4 DEF HandlerStep, AbortScan, FailScanUnrecorded,
         ScanProduced, CompleteScanFails, ReturnError, ReturnOk
  <2>4. ASSUME NEW w \in Workers, StartWorker(w) PROVE FALSE
    BY <2>4 DEF StartWorker, RecoverStuck
  <2>5. ASSUME NEW w \in Workers, Crash(w) \/ Shutdown(w) PROVE FALSE
    BY <2>5 DEF Crash, Shutdown, Stop
  <2>6. ~ UNCHANGED vars
    BY DEF vars
  <2> QED
    BY <2>1, <2>2, <2>3, <2>4, <2>5, <2>6 DEF Next
<1>2. pc[s] = "dequeued" /\ task[s] = "active"
  BY <1>1 DEF StartScan, HandlerHoldsLease
<1> QED
  BY <1>2 DEF CompletedIsExplained

\* A completed scan is only taken back when the acknowledgement of the
\* attempt that completed it was lost.
THEOREM CompletedStandsHolds == Spec => CompletedStands
<1>1. IInv /\ [Next]_vars =>
        [\A s \in Scans :
           status[s] = "completed" /\ status'[s] # "completed" => "ack" \in lost[s]]_vars
  BY StepCompletedStands
<1> QED
  BY <1>1, IInvHolds, PTL DEF Spec, CompletedStands

-----------------------------------------------------------------------------
(* Refinement: every step of the row and the queue is a step of ScanJob.   *)

LEMMA InitJob == Init => Job!Init
  BY DEF Init, Job!Init, phase, Open

LEMMA CreatorRefines ==
  ASSUME IInv, NEW s \in Scans, CreatorStep(s)
  PROVE  [Job!Next]_(Job!vars)
<1> USE DEF IInv, TypeOK, FreshIsUntouched, phase, Open, row, jobs
<1>1. ASSUME InsertScan(s) PROVE Job!Submit(s)
  BY <1>1 DEF InsertScan, Job!Submit
<1>2. ASSUME EnqueueScan(s) PROVE UNCHANGED Job!vars
  BY <1>2 DEF EnqueueScan, Job!vars
<1>3. ASSUME EnqueueLost(s) PROVE Job!Close(s)
  BY <1>3 DEF EnqueueLost, Job!Close
<1> QED
  BY <1>1, <1>2, <1>3 DEF CreatorStep, Job!Next

\* A failed delivery is a Retry, or a Close once the budget is spent.
LEMMA RedeliverRefines ==
  ASSUME IInv, NEW s \in Scans, task[s] = "active", Redeliver(s),
         UNCHANGED <<status, creating>>
  PROVE  Job!Retry(s) \/ Job!Close(s)
<1>1. status[s] # "absent" /\ s \notin creating
  BY DEF IInv, FreshIsUntouched
<1>2. task \in [Scans -> Task] /\ retried \in [Scans -> 0..MaxRetry]
  BY DEF IInv, TypeOK
<1>3. ASSUME retried[s] < MaxRetry PROVE Job!Retry(s)
  BY <1>1, <1>2, <1>3 DEF Redeliver, Job!Retry, phase, Open
<1>4. ASSUME ~(retried[s] < MaxRetry) PROVE Job!Close(s)
  <2>1. retried[s] = MaxRetry
    BY <1>2, <1>4
  <2>2. task' = [task EXCEPT ![s] = "archived"] /\ retried' = retried
    BY <1>4 DEF Redeliver
  <2>3. phase[s] = "open"
    BY <1>1 DEF phase, Open
  <2>4. phase' = [phase EXCEPT ![s] = "closed"]
    BY <1>1, <1>2, <2>2 DEF phase, Open
  <2> QED
    BY <2>1, <2>2, <2>3, <2>4 DEF Job!Close
<1> QED
  BY <1>3, <1>4

LEMMA QueueRefines ==
  ASSUME IInv, NEW s \in Scans,
         Deadline(s) \/ LeaseExpires(s) \/ \E w \in Workers : Dequeue(w, s)
  PROVE  [Job!Next]_(Job!vars)
<1>1. CASE Deadline(s)
  BY <1>1, RedeliverRefines DEF Deadline, IInv, HandlerHoldsLease, row, Job!Next
<1>2. CASE LeaseExpires(s)
  BY <1>2, RedeliverRefines DEF LeaseExpires, row, Job!Next
<1>3. ASSUME NEW w \in Workers, Dequeue(w, s) PROVE UNCHANGED Job!vars
  BY <1>3 DEF Dequeue, IInv, TypeOK, phase, Open, row, Job!vars
<1> QED
  BY <1>1, <1>2, <1>3

\* The steps of an attempt; RowIsTruthful is what makes a verdict legal.
LEMMA HandlerRefines ==
  ASSUME IInv, NEW s \in Scans, HandlerStep(s)
  PROVE  [Job!Next]_(Job!vars)
<1>0. pc[s] # "idle" => task[s] = "active" /\ status[s] # "absent" /\ s \notin creating
  BY DEF IInv, HandlerHoldsLease, FreshIsUntouched
<1> USE DEF IInv, TypeOK, phase, Open, row, jobs
<1>1. ASSUME StartScan(s) PROVE Job!Begin(s)
  BY <1>0, <1>1 DEF StartScan, Job!Begin
<1>2. ASSUME FailScan(s) PROVE Job!Decide(s, "failed")
  BY <1>0, <1>2 DEF FailScan, Job!Decide, RowIsTruthful, Working
<1>3. ASSUME CompleteScan(s) PROVE Job!Decide(s, "completed")
  BY <1>0, <1>3 DEF CompleteScan, Job!Decide, RowIsTruthful, Working
<1>4. ASSUME ReturnOk(s) PROVE Job!Close(s)
  BY <1>0, <1>4 DEF ReturnOk, Job!Close, OkIsCompleted
<1>5. ASSUME ReturnError(s) PROVE Job!Retry(s) \/ Job!Close(s)
  BY <1>0, <1>5, RedeliverRefines DEF ReturnError
<1>6. ASSUME AbortScan(s) \/ FailScanUnrecorded(s) \/ ScanProduced(s) \/ CompleteScanFails(s)
      PROVE  UNCHANGED Job!vars
  BY <1>6 DEF AbortScan, FailScanUnrecorded, ScanProduced, CompleteScanFails, Job!vars
<1> QED
  BY <1>1, <1>2, <1>3, <1>4, <1>5, <1>6 DEF HandlerStep, Job!Next

LEMMA ProcessRefines ==
  ASSUME IInv, NEW w \in Workers, StartWorker(w) \/ Crash(w) \/ Shutdown(w)
  PROVE  [Job!Next]_(Job!vars)
<1> USE DEF IInv, TypeOK, phase, Open, row, jobs
<1>1. ASSUME StartWorker(w) PROVE Job!Sweep \/ UNCHANGED Job!vars
  BY <1>1 DEF StartWorker, RecoverStuck, Job!Sweep, Job!vars
<1>2. ASSUME Crash(w) PROVE UNCHANGED Job!vars
  BY <1>2 DEF Crash, Stop, Job!vars
<1>3. ASSUME Shutdown(w) PROVE UNCHANGED Job!vars
  BY <1>3 DEF Shutdown, Stop, Executing, HandlerHoldsLease, Job!vars
<1> QED
  BY <1>1, <1>2, <1>3 DEF Job!Next

\* ScanLifecycle implements ScanJob: only legal moves of the row, at most
\* MaxRetry retries, and no scan given up before it completed or the
\* retries ran out, unless it was never enqueued.
THEOREM ImplementsScanJob == Spec => JobSpec
<1>1. IInv /\ [Next]_vars => [Job!Next]_(Job!vars)
  <2> SUFFICES ASSUME IInv, [Next]_vars PROVE [Job!Next]_(Job!vars)
    OBVIOUS
  <2>1. CASE UNCHANGED vars
    BY <2>1 DEF vars, Job!vars, phase, Open
  <2> QED
    BY <2>1, CreatorRefines, QueueRefines, HandlerRefines, ProcessRefines DEF Next
<1> QED
  BY <1>1, InitJob, IInvHolds, PTL DEF Spec, JobSpec, Job!Spec
=============================================================================
