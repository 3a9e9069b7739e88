--------------------------- MODULE MCScanLifecycle ---------------------------
(* Two scans, two worker processes of one slot each, one retry, two stops. *)
EXTENDS ScanLifecycle

CONSTANTS s1, s2, w1, w2

MCScans   == {s1, s2}
MCWorkers == {w1, w2}
=============================================================================
