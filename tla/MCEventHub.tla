----------------------------- MODULE MCEventHub -----------------------------
(* Two connections of one user, whose limit is one, the second with a       *)
(* filter; an event of the API for the user, two of the worker, one for all *)
(* and one for another user, and a broadcast; channels of one slot.         *)
EXTENDS EventHub

CONSTANTS c1, c2, u, x, e1, e2, e3, e4

MCClients == {c1, c2}
MCUserOf  == c1 :> u @@ c2 :> u
MCEvents  == {e1, e2, e3, e4}
MCOrigin  == e1 :> "api" @@ e2 :> "worker" @@ e3 :> "broadcast" @@ e4 :> "worker"
MCTarget  == e1 :> u @@ e2 :> NoUser @@ e3 :> NoUser @@ e4 :> x
MCTypeOf  == e1 :> "notification_created" @@ e2 :> "finding_summary_completed"
             @@ e3 :> "scan_completed" @@ e4 :> "policy_violation"
MCFilters == c1 :> {} @@ c2 :> {"notification_created"}
=============================================================================
