--------------------------- MODULE MCScanSchedules ---------------------------
(* Two schedules and two workers over two instants; one expression fires    *)
(* at every instant, one never does (30 February).  A tick takes a single   *)
(* schedule, so the LIMIT binds when both are due.                          *)
EXTENDS ScanSchedules

CONSTANTS k1, k2, w1, w2, hourly, never, uuid

MCCrons    == {hourly, never}
MCNextFire == hourly :> [t \in Times |-> t + 1] @@ never :> [t \in Times |-> Year1]
=============================================================================
