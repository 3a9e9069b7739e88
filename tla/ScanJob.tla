------------------------------- MODULE ScanJob -------------------------------
(***************************************************************************)
(* What a scan promises to whoever polls its row in the `scans` table.     *)
(* The row is all a user sees; the queue decides how long it may still     *)
(* move.  ScanLifecycle implements this specification.                     *)
(***************************************************************************)
EXTENDS Naturals

CONSTANTS Scans,      \* scan identifiers
          MaxRetry    \* retries the queue grants a scan task

VARIABLES row,        \* the status column as a reader sees it
          phase,      \* "new", "open" (work may still happen), "closed"
          retries     \* retries consumed

vars == <<row, phase, retries>>

Init == /\ row     = [s \in Scans |-> "absent"]
        /\ phase   = [s \in Scans |-> "new"]
        /\ retries = [s \in Scans |-> 0]

Submit(s) == /\ phase[s] = "new"
             /\ phase' = [phase EXCEPT ![s] = "open"]
             /\ row'   = [row EXCEPT ![s] = "pending"]
             /\ UNCHANGED retries

\* An attempt starts, possibly over the verdict of an earlier one.
Begin(s) == /\ phase[s] = "open"
            /\ row' = [row EXCEPT ![s] = "running"]
            /\ UNCHANGED <<phase, retries>>

\* The attempt's verdict.  The row may read "failed" already: Sweep.
Decide(s, verdict) == /\ phase[s] = "open"
                      /\ row[s] \in {"running", "failed"}
                      /\ row' = [row EXCEPT ![s] = verdict]
                      /\ UNCHANGED <<phase, retries>>

Retry(s) == /\ phase[s] = "open"
            /\ retries[s] < MaxRetry
            /\ retries' = [retries EXCEPT ![s] = @ + 1]
            /\ UNCHANGED <<row, phase>>

\* A scan is given up only for one of three reasons: it completed, its
\* retries are exhausted, or it never reached the queue.
Close(s) == /\ phase[s] = "open"
            /\ \/ row[s] = "completed"
               \/ retries[s] = MaxRetry
               \/ row[s] = "pending" /\ retries[s] = 0
            /\ phase' = [phase EXCEPT ![s] = "closed"]
            /\ UNCHANGED <<row, retries>>

\* A starting worker fails every row that reads "running".
Sweep == /\ row' = [s \in Scans |-> IF row[s] = "running" THEN "failed" ELSE row[s]]
         /\ UNCHANGED <<phase, retries>>

Next == \/ \E s \in Scans : \/ Submit(s)
                            \/ Begin(s)
                            \/ \E v \in {"completed", "failed"} : Decide(s, v)
                            \/ Retry(s)
                            \/ Close(s)
        \/ Sweep

Spec == Init /\ [][Next]_vars
=============================================================================
