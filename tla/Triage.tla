------------------------------- MODULE Triage -------------------------------
(***************************************************************************)
(* What users do to findings: edit one or several, look at the cached      *)
(* detail, comment, and create a Jira ticket.  Every handler is a series   *)
(* of statements on the database, on the cache in Redis and at Jira, and   *)
(* several run at the same time; policies change findings too.             *)
(*                                                                         *)
(* Abstracted: of what the cache keeps with a finding's row, all but the   *)
(* Jira link (its correlations, analysis and risk acceptance, and the      *)
(* fields that a summary or a score fills in: their writers, like the      *)
(* link's, leave the cache alone).                                         *)
(***************************************************************************)
EXTENDS Tasks, TLC

CONSTANTS
  Triaged,         \* findings
  Statuses,
  Owners, Members, \* whom findings are assigned to; those of them who are users
  Same,            \* a field left out of an update
  Nothing,         \* no owner; nothing cached
  Changes,         \* bound: what updates ask for,
  JiraChanges,     \* those of the integration,
  PolicyActions    \* and actions of policies

ASSUME TriageAssumption ==
  /\ "open" \in Statuses /\ Members \subseteq Owners /\ IsFiniteSet(Members) /\ Nothing \notin Owners
  /\ Changes \subseteq [status : Statuses \cup {Same}, owner : Owners \cup {Same, Nothing}]
  /\ JiraChanges \subseteq [url : BOOLEAN \cup {Same}, enabled : BOOLEAN \cup {Same}]
  /\ PolicyActions \subseteq [status : Statuses \cup {Same}, owner : Owners \cup {Same}]

VARIABLES
  rows,    \* of each finding: its status and owner
  edits,   \* history: how often users updated each,
  policed, \* and findings a policy changed
  details, \* cache of the finding details
  raced,   \* history: findings updated while a detail was read, or whose cache was not cleared
  jira,    \* the integration: whether its URL is set (what else it needs is like it), and enabled
  links,   \* jira_issue_links: the status of the link, or "none"
  tickets, \* history: issues at Jira for each finding,
  failed,  \* those the handler was told had failed,
  dropped  \* and findings whose request was cut off

rowVars    == <<rows, edits, policed>>
detailVars == <<rowVars, details, raced>>
jiraVars   == <<jira, links, tickets, failed, dropped>>
triageVars == <<detailVars, jiraVars>>

TriageInit ==
  /\ rows = [f \in Triaged |-> [status |-> "open", owner |-> Nothing]]
  /\ edits = [f \in Triaged |-> 0] /\ policed = {}
  /\ details = [f \in Triaged |-> Nothing] /\ raced = {}
  /\ jira = [url |-> FALSE, enabled |-> FALSE] /\ links = [f \in Triaged |-> "none"]
  /\ tickets = [f \in Triaged |-> 0] /\ failed = [f \in Triaged |-> 0] /\ dropped = {}

Mail == Task("mail", "user")

-----------------------------------------------------------------------------
(* Updates.  `set` is the change, `todo` what a bulk update has still to   *)
(* do.  A single update reads the old row before it writes, a bulk update  *)
(* after, so that it sees its own change.                                  *)

Updated(row, set) ==
  [status |-> IF set.status = Same THEN row.status ELSE set.status,
   owner  |-> IF set.owner = Same THEN row.owner ELSE set.owner]

UpdateFinding(h, f, set) ==
  /\ set.status # Same
  /\ Begin("triage", h, [op |-> "update", bulk |-> FALSE, todo |-> {f}, set |-> set, old |-> rows[f].owner])
  /\ UNCHANGED <<triageVars, taskVars>>

BulkUpdateFindings(h, chosen, set) ==
  /\ set # [status |-> Same, owner |-> Same]
  /\ Begin("triage", h, [op |-> "update", bulk |-> TRUE, todo |-> chosen, set |-> set, old |-> Nothing])
  /\ UNCHANGED <<triageVars, taskVars>>

Reading(f) == \E g \in Handlers : call[g].op \in {"sections", "detail"} /\ call[g].finding = f

UpdateRow(h) ==
  /\ At(h, "update")
  /\ LET c == call[h] IN
       \/ c.todo = {} /\ Return(h) /\ UNCHANGED <<rows, edits, raced>>
       \/ \E f \in c.todo :
            /\ rows' = [rows EXCEPT ![f] = Updated(@, c.set)]
            /\ edits' = [edits EXCEPT ![f] = @ + 1]
            /\ raced' = IF Reading(f) THEN raced \cup {f} ELSE raced
            /\ Proceed(h, [op |-> IF c.bulk THEN "reread" ELSE "drop", finding |-> f, bulk |-> c.bulk,
                           todo |-> c.todo \ {f}, set |-> c.set, old |-> c.old])
  /\ UNCHANGED <<policed, details, jiraVars, taskVars>>

\* Faulty: the bulk update forgets the cache.
KeepDetail(h) ==
  /\ At(h, "reread")
  /\ Proceed(h, [call[h] EXCEPT !.op = "notify", !.old = rows[call[h].finding].owner])
  /\ UNCHANGED <<triageVars, taskVars>>

ReadOldOwner(h) ==
  /\ At(h, "reread")
  /\ Proceed(h, [call[h] EXCEPT !.op = "drop", !.old = rows[call[h].finding].owner])
  /\ UNCHANGED <<triageVars, taskVars>>

\* A failure is only logged.
DropDetail(h) ==
  /\ At(h, "drop")
  /\ LET f == call[h].finding IN
       \/ /\ details' = [details EXCEPT ![f] = Nothing] /\ UNCHANGED raced
          /\ Proceed(h, [call[h] EXCEPT !.op = "notify"])
       \/ /\ Count("fault") /\ UNCHANGED details
          /\ raced' = raced \cup {f} /\ call' = [call EXCEPT ![h].op = "notify"]
  /\ UNCHANGED <<rowVars, jiraVars, taskVars>>

\* Only a user is told, not a team; the bell's notification goes with the mail.
NotifyOwner(h) ==
  /\ At(h, "notify")
  /\ LET c == call[h] IN
       /\ IF c.set.owner \in Members /\ c.set.owner # c.old
            THEN Enqueue({Mail}) ELSE UNCHANGED taskVars
       /\ Proceed(h, [op |-> "update", bulk |-> c.bulk, todo |-> c.todo, set |-> c.set, old |-> c.old])
  /\ UNCHANGED triageVars

\* Users mentioned in a comment; the author is not told.
CreateFindingComment(mentioned) ==
  /\ AtOnce("triage")
  /\ IF mentioned = {} THEN UNCHANGED taskVars
     ELSE tasks' = tasks (+) [t \in {Mail} |-> Cardinality(mentioned)] /\ UNCHANGED archived
  /\ UNCHANGED triageVars

-----------------------------------------------------------------------------
(* The detail.  A hit changes nothing; a miss reads the row, then the      *)
(* sections one by one.                                                    *)

GetFindingDetail(h, f) ==
  /\ details[f] = Nothing
  /\ Begin("detail", h, [op |-> "sections", finding |-> f,
                         seen |-> [row |-> rows[f], edits |-> edits[f], link |-> "none"]])
  /\ UNCHANGED <<triageVars, taskVars>>

\* When the query fails the section stays empty.
ReadJiraLink(h) ==
  /\ At(h, "sections")
  /\ \/ Proceed(h, [call[h] EXCEPT !.op = "detail", !.seen.link = links[call[h].finding]])
     \/ Count("fault") /\ call' = [call EXCEPT ![h].op = "detail"]
  /\ UNCHANGED <<triageVars, taskVars>>

SetDetail(h) ==
  /\ At(h, "detail")
  /\ details' = [details EXCEPT ![call[h].finding] = call[h].seen]
  /\ Return(h)
  /\ UNCHANGED <<rowVars, raced, jiraVars, taskVars>>

\* After DefaultTTL.
ExpireDetail(f) ==
  /\ AtOnce("detail")
  /\ details[f] # Nothing /\ details' = [details EXCEPT ![f] = Nothing]
  /\ UNCHANGED <<rowVars, raced, jiraVars, taskVars>>

\* An action of a policy, on a finding that a scan has just stored and that
\* users see already; the cache is not cleared.
ExecuteAction(f, set) ==
  /\ AtOnce("policy")
  /\ rows' = [rows EXCEPT ![f] = Updated(@, set)]
  /\ policed' = policed \cup {f}
  /\ UNCHANGED <<edits, details, raced, jiraVars, taskVars>>

-----------------------------------------------------------------------------
(* Jira.                                                                   *)

\* A change of some fields; all of them are read now and written later.
UpdateJiraIntegration(h, set) ==
  /\ ~(set.enabled = TRUE /\ set.url = FALSE)
  /\ Begin("integration", h, [op |-> "integrate", set |-> set, seen |-> jira])
  /\ UNCHANGED <<triageVars, taskVars>>

UpsertJiraIntegration(h) ==
  /\ At(h, "integrate")
  /\ LET c == call[h] IN
       jira' = [field \in DOMAIN jira |->
                  IF c.set[field] = Same THEN c.seen[field] ELSE c.set[field]]
  /\ Return(h)
  /\ UNCHANGED <<detailVars, links, tickets, failed, dropped, taskVars>>

\* Faulty: a link that is there is taken over.
TakeOverJiraIssueLink(h, f) ==
  /\ links' = [links EXCEPT ![f] = "pending"]
  /\ Begin("jira", h, [op |-> "credentials", finding |-> f])
  /\ UNCHANGED <<detailVars, jira, tickets, failed, dropped, taskVars>>

\* INSERT ... ON CONFLICT DO NOTHING; a link that is there is the answer.
ReserveJiraIssueLink(h, f) ==
  /\ links[f] = "none" /\ links' = [links EXCEPT ![f] = "pending"]
  /\ Begin("jira", h, [op |-> "credentials", finding |-> f])
  /\ UNCHANGED <<detailVars, jira, tickets, failed, dropped, taskVars>>

\* The integration is loaded, and must be enabled and complete.
CheckJiraIntegration(h) ==
  /\ At(h, "credentials")
  /\ \/ Proceed(h, [call[h] EXCEPT !.op = IF jira.enabled /\ jira.url THEN "issue" ELSE "release"])
     \/ Count("fault") /\ call' = [call EXCEPT ![h].op = "release"]
  /\ UNCHANGED <<triageVars, taskVars>>

\* A request that times out may have created the issue.
CreateJiraIssue(h) ==
  /\ At(h, "issue")
  /\ LET f == call[h].finding IN
       \/ /\ tickets' = [tickets EXCEPT ![f] = @ + 1] /\ UNCHANGED failed
          /\ Proceed(h, [call[h] EXCEPT !.op = "link"])
       \/ /\ Count("fault") /\ call' = [call EXCEPT ![h].op = "release"]
          /\ \/ UNCHANGED <<tickets, failed>>
             \/ /\ tickets' = [tickets EXCEPT ![f] = @ + 1]
                /\ failed' = [failed EXCEPT ![f] = @ + 1]
  /\ UNCHANGED <<detailVars, jira, links, dropped, taskVars>>

UpsertJiraIssueLink(h) ==
  /\ At(h, "link")
  /\ links' = [links EXCEPT ![call[h].finding] = "created"]
  /\ Return(h)
  /\ UNCHANGED <<detailVars, jira, tickets, failed, dropped, taskVars>>

DeleteJiraIssueLink(h) ==
  /\ At(h, "release")
  /\ links' = [links EXCEPT ![call[h].finding] = "none"]
  /\ Return(h)
  /\ UNCHANGED <<detailVars, jira, tickets, failed, dropped, taskVars>>

-----------------------------------------------------------------------------
Ticketing(h) == call[h].op \in {"credentials", "issue", "link", "release"}

TriageNext ==
  \/ \E h \in Handlers, f \in Triaged :
       \/ \E set \in Changes : UpdateFinding(h, f, set)
       \/ GetFindingDetail(h, f) \/ ReserveJiraIssueLink(h, f)
  \/ \E h \in Handlers :
       \/ \E chosen \in SUBSET Triaged \ {{}}, set \in Changes : BulkUpdateFindings(h, chosen, set)
       \/ UpdateRow(h) \/ ReadOldOwner(h) \/ DropDetail(h) \/ NotifyOwner(h)
       \/ ReadJiraLink(h) \/ SetDetail(h)
       \/ \E set \in JiraChanges : UpdateJiraIntegration(h, set)
       \/ UpsertJiraIntegration(h)
       \/ CheckJiraIntegration(h) \/ CreateJiraIssue(h)
       \/ UpsertJiraIssueLink(h) \/ DeleteJiraIssueLink(h)
  \/ \E mentioned \in SUBSET Members : CreateFindingComment(mentioned)
  \/ \E f \in Triaged : ExpireDetail(f) \/ \E set \in PolicyActions : ExecuteAction(f, set)

\* What a call that is cut off leaves behind it.
TriageCutOff(h) ==
  /\ raced' = IF call[h].op \in {"reread", "drop"} THEN raced \cup {call[h].finding} ELSE raced
  /\ dropped' = IF Ticketing(h) THEN dropped \cup {call[h].finding} ELSE dropped
  /\ UNCHANGED <<rowVars, details, jira, links, tickets, failed>>

-----------------------------------------------------------------------------
\* A cached detail shows every edit that users made to the finding, and the
\* row as it is if no policy changed it, but while the update that overtook it
\* is on its way to clear it: an old row stays until the TTL only when a reader
\* held it over the update, or when the cache was not cleared; and a ticket it
\* shows is there.  What policies write, and a link that is new, it shows only
\* after the TTL (UpdateFinding, BulkUpdateFindings, GetFindingDetail,
\* ExecuteActions, CreateFindingJiraIssue).
DetailIsFresh ==
  \A f \in Triaged :
    LET d == details[f] IN
    d # Nothing =>
      /\ d.link = "created" => links[f] = "created"
      /\ \/ d.edits = edits[f] /\ (d.row = rows[f] \/ f \in policed)
         \/ f \in raced
         \/ \E h \in Handlers : call[h].op \in {"reread", "drop"} /\ call[h].finding = f

\* However many users press the button, one call at a time works for a
\* finding, which gets a second issue only when the first was reported as a
\* failure; and a pending link belongs to a running call, or to one that was
\* cut off and left it there for good (CreateFindingJiraIssue).
TicketsAreLinked ==
  \A f \in Triaged :
    LET working == {h \in Handlers : Ticketing(h) /\ call[h].finding = f} IN
    /\ Cardinality(working) <= 1
    /\ tickets[f] <= 1 + failed[f]
    /\ links[f] = "created" => tickets[f] > 0
    /\ links[f] = "pending" => working # {} \/ f \in dropped
=============================================================================
