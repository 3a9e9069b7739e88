------------------------------ MODULE MCResponse ------------------------------
(***************************************************************************)
(* Two goroutines, up to three findings, a project, a webhook, a worker's  *)
(* loops.  Each mix of calls is a behaviour of its own; together they fire *)
(* every action.                                                           *)
(***************************************************************************)
EXTENDS Response

CONSTANTS h1, h2, f1, f2, f3, same, nothing

MCKinds ==
  {"sync", "push", "scan", "validate", "summary", "triage", "detail", "policy", "jira", "integration",
   "settings", "webhook", "event", "monitor", "clock", "restart", "worker", "fault"}

Mix(some) == [kind \in MCKinds |-> IF kind \in DOMAIN some THEN some[kind] ELSE 0]

MCBudgets ==
  {Mix([sync |-> 3]), Mix([sync |-> 2, push |-> 1]), Mix([sync |-> 2, fault |-> 1]),
   Mix([scan |-> 3, validate |-> 1]), Mix([scan |-> 2, fault |-> 1]),
   Mix([summary |-> 3, worker |-> 3, fault |-> 1]), Mix([summary |-> 2, worker |-> 3, fault |-> 2]),
   Mix([triage |-> 2, detail |-> 2]), Mix([triage |-> 2, detail |-> 1, fault |-> 1]),
   Mix([triage |-> 1, detail |-> 2, policy |-> 2]), Mix([integration |-> 1, jira |-> 2, detail |-> 2, fault |-> 1]),
   Mix([integration |-> 1, jira |-> 3, fault |-> 2]),
   Mix([integration |-> 3, jira |-> 1, fault |-> 1]),
   Mix([webhook |-> 3, worker |-> 3, event |-> 1, fault |-> 1]),
   Mix([webhook |-> 2, worker |-> 3, fault |-> 2]),
   Mix([webhook |-> 1, monitor |-> 3, fault |-> 2]),
   Mix([settings |-> 2, event |-> 1]), Mix([settings |-> 1, monitor |-> 1, triage |-> 1, worker |-> 1]),
   Mix([clock |-> 34, settings |-> 1, restart |-> 1]),
   Mix([clock |-> 7, settings |-> 1, worker |-> 2, fault |-> 1])}

\* An advisory for all versions of a library and one that version 2 fixes; a
\* lower version and that one, in two forms of manifest.
V(n) == <<Segment(n, n)>>
Lower == [package |-> "lib", version |-> V(1)]
Higher == [package |-> "lib", version |-> V(2)]
Requirement(d, form) == [dep |-> d, form |-> form]
MCCommitted == "package.json" :> {Requirement(Lower, "exact"), Requirement(Higher, "range")}
MCContents == {"go.mod" :> {Requirement(Lower, "direct"), Requirement(Higher, "direct")},
               "pom.xml" :> {}}
MCAdvisories == {"CVE-1", "GHSA-2"}
MCAffected ==
  [a \in MCAdvisories |->
     {[package |-> "lib",
       ranges |-> {IF a = "CVE-1" THEN <<Introduced(V(0))>> ELSE <<Introduced(V(0)), Fixed(V(2))>>}]}]
MCAliases == [a \in MCAdvisories |-> {a}]
MCAdvised(d) == MCAdvisories

\* Two findings of different scanners that are close and one that shares a
\* weakness with the second; the first two have one signature.
Fact(scanner, line, signals) ==
  [scanner |-> scanner, file |-> "main", line |-> line, suppressed |-> FALSE, signals |-> signals]
MCFacts == f1 :> Fact("semgrep", 10, {}) @@ f2 :> Fact("gosec", 14, {"CWE"}) @@ f3 :> Fact("semgrep", 90, {"CWE"})
MCCategoryOf == [semgrep |-> "sast", gosec |-> "sast"]
MCSignature == f1 :> "A" @@ f2 :> "A" @@ f3 :> "B"

MCChanges == {[status |-> "fixed", owner |-> "ann"], [status |-> same, owner |-> nothing]}
MCJiraChanges ==
  {[url |-> TRUE, enabled |-> TRUE], [url |-> FALSE, enabled |-> same], [url |-> same, enabled |-> FALSE]}
MCPolicyActions == {[status |-> "fixed", owner |-> same], [status |-> same, owner |-> "team"]}
MCOverdue == <<f1, f2>>

MCSettings ==
  [mail |-> TRUE, schedule |-> "daily", time |-> [hour |-> 1, minute |-> 1], channel |-> "email"]
    @@ [topic \in {"finding.critical", "finding.sla_breach"} |-> TRUE]
Edit(field, value) == [field |-> field, value |-> value]
MCSettingsEdits ==
  {Edit("mail", FALSE), Edit("finding.critical", FALSE), Edit("channel", "slack"), Edit("channel", "pager"),
   Edit("schedule", "weekly"), Edit("schedule", "disabled"), Edit("schedule", "hourly")}

HandlerSymmetry == Permutations(Handlers)
=============================================================================
