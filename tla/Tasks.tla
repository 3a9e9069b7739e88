-------------------------------- MODULE Tasks --------------------------------
(***************************************************************************)
(* The asynq queue as the workers of a composition share it: a task is     *)
(* leased by a goroutine, acknowledged when its handler returns nil, put   *)
(* back when it returns an error or its worker dies, and archived after    *)
(* its last try.                                                           *)
(***************************************************************************)
EXTENDS Requests, FiniteSetsExt, Bags

CONSTANT MaxRetry

ASSUME TasksAssumption == MaxRetry \in Nat

VARIABLES tasks,   \* bag of those that wait
          archived \* those that nobody will try again

taskVars == <<tasks, archived>>

Task(to, about) == [to |-> to, about |-> about, tries |-> 0]

Enqueue(new) == tasks' = tasks (+) SetToBag(new) /\ UNCHANGED archived

Lease(h, t, c) ==
  /\ BagIn(t, tasks)
  /\ Begin("worker", h, [c EXCEPT !.task = t])
  /\ tasks' = tasks (-) SetToBag({t}) /\ UNCHANGED archived

Retry(t) ==
  IF t.tries < MaxRetry
    THEN tasks' = tasks (+) SetToBag({[t EXCEPT !.tries = @ + 1]}) /\ UNCHANGED archived
    ELSE archived' = archived \cup {t} /\ UNCHANGED tasks

Acknowledge(h) == Return(h) /\ UNCHANGED taskVars

Fail(h) == Return(h) /\ Retry(call[h].task)

Works(h) == "task" \in DOMAIN call[h]

\* The call is cut off; the lease of a worker's task runs out.
Die(h) ==
  /\ CutOff(h)
  /\ IF Works(h) THEN Retry(call[h].task) ELSE UNCHANGED taskVars

TasksInit == tasks = EmptyBag /\ archived = {}
=============================================================================
