------------------------------ MODULE MCAccess ------------------------------
(* Two goroutines.  Each mix of requests brings one of the races about: two *)
(* changes of a user and logins; sign-ons of two subjects while the         *)
(* directory and the administrator change roles; creations at the limit;    *)
(* the ways teams, applications and projects move; keys that are replaced   *)
(* or orphaned while they are used; a burst of one key by two clocks; and   *)
(* four starts of processes of two releases, of which two are killed.       *)
EXTENDS Access

CONSTANTS root, ann, bob, rootMail, annMail, sub, sub2, team, app, p1, p2, p3,
          web, lib, key, key2, h1, h2

MCSymmetry == Permutations({h1, h2}) \cup Permutations({ann, bob}) \cup Permutations({p1, p2, p3})
                \cup Permutations({sub, sub2})

MCKinds == {"login", "admin", "create", "sso", "team", "project", "key", "request", "clock", "start", "fault"}

Mix(some) == [kind \in MCKinds |-> IF kind \in DOMAIN some THEN some[kind] ELSE 0]

MCBudgets ==
  {Mix([create |-> 1, admin |-> 2, login |-> 2, fault |-> 1]),
   Mix([sso |-> 2, admin |-> 1, login |-> 1, fault |-> 1]),
   Mix([create |-> 3]),
   Mix([create |-> 1, team |-> 2, project |-> 2]),
   Mix([create |-> 1, login |-> 1, team |-> 2, project |-> 1]),
   Mix([project |-> 3]),
   Mix([key |-> 2, request |-> 2]),
   Mix([key |-> 1, request |-> 1, project |-> 2]),
   Mix([key |-> 1, admin |-> 1, request |-> 2]),
   Mix([key |-> 1, request |-> 5, clock |-> 2]),
   Mix([start |-> 4, fault |-> 2])}

\* A standard client that says hello and calls tools, a custom client that does,
\* and one whose header names another version than the body.
Message(meta, std, tool) ==
  [origin |-> TRUE, id |-> TRUE, header |-> 2, meta |-> meta, std |-> std, tool |-> tool,
   method |-> IF tool = "no tool" THEN "initialize" ELSE "tools/call",
   methodHeader |-> IF meta = Absent THEN Absent ELSE "tools/call", nameHeader |-> IF meta = Absent THEN Absent ELSE tool]

MCMessages ==
  {Message(Absent, 2, "no tool"), Message(Absent, Absent, "create_project"), Message(2, Absent, "trigger_scan"),
   Message(Absent, 1, "create_project")}

\* A release with a table, and the next one with the columns, the constraint
\* and the index of migration 047.
MCShipped == ("old" :> {1}) @@ ("new" :> {1, 2})
MCScripts ==
  <<<<"table", ";">>,
    <<"--", "NO TRANSACTION", "newline",
      "IF NOT EXISTS", "column", ";",
      "$$", "IF NOT EXISTS", "check", ";", "end", ";", "$$", ";",
      "CONCURRENTLY", "IF NOT EXISTS", "index", ";">>>>
=============================================================================
