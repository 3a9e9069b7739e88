---------------------------- MODULE ResponseProofs ----------------------------
(***************************************************************************)
(* Theorems about Response, for any findings, projects, webhooks and       *)
(* loops, any retry limit and any number of goroutines.                    *)
(***************************************************************************)
EXTENDS Response, TLAPS, FiniteSetTheorems

-----------------------------------------------------------------------------
(* The calls.  The components share no label but "idle", so that a step of *)
(* one leaves alone what is said of the calls of another.                  *)

VisitOps       == {"clear", "replace", "query", "advise"}
ThreatOps      == {"idle", "sync", "reconcile"} \cup VisitOps
RefreshOps     == {"match", "forget", "pair", "score", "write"}
CorrelationOps == {"idle", "relate"} \cup RefreshOps
RequestOps     == {"prepare", "claim", "mark", "enqueue"}
AgentOps       == {"source", "prepare", "claim", "mark", "generate", "store", "stored", "fail", "failed"}
SummaryOps     == {"idle"} \cup RequestOps \cup AgentOps
TicketOps      == {"credentials", "issue", "link", "release"}
EditOps        == {"reread", "drop", "notify"}
ReadOps        == {"sections", "detail"}
CacheOps       == {"reread", "drop"} \cup ReadOps
TriageOps      == {"idle", "update", "integrate"} \cup ReadOps \cup EditOps \cup TicketOps
TaskOps        == {"get", "post", "send", "compose"}
PostedOps      == {"count", "log", "sent"}
DeliveryOps    == {"idle", "save", "list", "alert", "conclude"} \cup TaskOps \cup PostedOps
AllOps         == ThreatOps \cup CorrelationOps \cup SummaryOps \cup TriageOps \cup DeliveryOps

ThreatCallOK(c) ==
  /\ c.op = "sync" => DOMAIN c = {"op", "id", "todo", "kev"} /\ c.todo \subseteq Scanned
  /\ c.op \in VisitOps =>
       /\ DOMAIN c = {"op", "id", "todo", "kev", "project", "known", "inv", "seen", "found", "advs"}
       /\ c.todo \subseteq Scanned /\ c.project \in Scanned
  /\ c.op = "reconcile" =>
       /\ DOMAIN c = {"op", "id", "todo", "kev", "project", "known", "fresh", "prior", "matched"}
       /\ c.todo \subseteq Scanned /\ c.project \in Scanned

CorrelationCallOK(c) ==
  /\ c.op = "match"  => DOMAIN c = {"op", "finding"}
  /\ c.op = "forget" => DOMAIN c = {"op", "finding", "found"}
  /\ c.op = "pair"   => DOMAIN c = {"op", "finding", "todo", "found"}
  /\ c.op = "score"  => DOMAIN c = {"op", "finding", "todo"}
  /\ c.op = "write"  => DOMAIN c = {"op", "finding", "todo", "scored", "score"}
  /\ c.op = "relate" => DOMAIN c = {"op", "finding", "named"}

TaskOK(t) ==
  /\ DOMAIN t = {"to", "about", "tries"} /\ t.tries \in 0..MaxRetry
  /\ t.to \in {"summarize", "webhook", "mail", "report", "digest"}
  /\ t.to = "summarize" => t.about \in Summarized
  /\ t.to = "webhook" => t.about \in Webhooks

Requested(c) ==
  /\ DOMAIN c = {"op", "finding", "then", "state", "claimed"}
  /\ c.op \in RequestOps /\ c.then = "enqueue"

Agent(c) ==
  /\ DOMAIN c = {"op", "finding", "then", "state", "claimed", "task"}
  /\ c.op \in AgentOps /\ c.then = "generate"
  /\ TaskOK(c.task) /\ c.task.to = "summarize" /\ c.task.about = c.finding

SummaryCallOK(c) ==
  c.op \in SummaryOps \ {"idle"} => c.finding \in Summarized /\ (Requested(c) \/ Agent(c))

TriageCallOK(c) ==
  /\ c.op = "update" => DOMAIN c = {"op", "bulk", "todo", "set", "old"} /\ c.todo \subseteq Triaged
  /\ c.op \in EditOps =>
       /\ DOMAIN c = {"op", "finding", "bulk", "todo", "set", "old"}
       /\ c.todo \subseteq Triaged /\ c.finding \in Triaged
  /\ c.op \in ReadOps =>
       /\ DOMAIN c = {"op", "finding", "seen"} /\ c.finding \in Triaged
       /\ DOMAIN c.seen = {"row", "edits", "link"}
  /\ c.op = "integrate" => DOMAIN c = {"op", "set", "seen"}
  /\ c.op \in TicketOps => DOMAIN c = {"op", "finding"} /\ c.finding \in Triaged

SettingsOK(s) == "time" \in DOMAIN s /\ TimeOK(s.time)

DeliveryCallOK(c) ==
  /\ c.op = "save" =>
       DOMAIN c = {"op", "edit", "read"} /\ SettingsOK(c.read) /\ c.edit \in SettingsEdits
  /\ c.op \in TaskOps => DOMAIN c = {"op", "task"}
  /\ c.op \in PostedOps => DOMAIN c = {"op", "task", "ok"} /\ c.ok \in BOOLEAN
  /\ c.op \in TaskOps \cup PostedOps => TaskOK(c.task) /\ c.task.to # "summarize"
  /\ c.op \in {"get", "post", "count", "log"} => c.task.to = "webhook"
  /\ c.op \in {"send", "compose"} => c.task.to # "webhook"
  /\ c.op = "list" => DOMAIN c = {"op", "mail"}
  /\ c.op = "alert" =>
       /\ DOMAIN c = {"op", "mail", "todo", "marked"} /\ c.todo \subseteq DOMAIN Overdue
       /\ c.marked \subseteq Triaged /\ \A i \in c.todo : Overdue[i] \notin c.marked
  /\ c.op = "conclude" => DOMAIN c = {"op", "marked"} /\ c.marked \subseteq Triaged

CallOK(c) ==
  /\ "op" \in DOMAIN c /\ c.op \in AllOps /\ (c.op = "idle" => c = Idle)
  /\ ThreatCallOK(c) /\ CorrelationCallOK(c) /\ SummaryCallOK(c)
  /\ TriageCallOK(c) /\ DeliveryCallOK(c)

CallsOK ==
  /\ DOMAIN call = Handlers /\ left \in [Kinds -> Nat]
  /\ \A h \in Handlers : CallOK(call[h])

TasksOK == \A t \in DOMAIN tasks : TaskOK(t) /\ tasks[t] \in Nat \ {0}

-----------------------------------------------------------------------------
(* Threats.                                                                *)

\* Of the snapshots of a project, those that calls about to replace it have
\* not seen are at most as many as there are other goroutines: each of these
\* left one behind at most, since it removes its own when it comes again.
Replacing(p) == {h \in Handlers : At(h, "replace") /\ call[h].project = p}

UnseenBy(p, A) == inventory[p] \ UNION {call[h].seen : h \in A}

InventoryOK ==
  /\ DOMAIN inventory = Scanned
  /\ \A p \in Scanned :
       /\ IsFiniteSet(inventory[p])
       /\ \A A \in SUBSET Replacing(p) :
            Cardinality(UnseenBy(p, A)) + Cardinality(A) <= Cardinality(Handlers)

\* What a sync knew when it came to the project is among the rows it
\* reconciles with, as hits are never deleted.
HitCallOK(c) ==
  /\ c.op \in VisitOps => c.known \subseteq hits
  /\ c.op = "reconcile" =>
       /\ c.prior \subseteq hits /\ c.fresh \cap c.known = {}
       /\ \A k \in c.known : k.project = c.project => k \in c.prior
       /\ \A k \in c.matched : k.project = c.project

Announcing == UNION {call[h].fresh : h \in {g \in Handlers : At(g, "reconcile")}}

HitsOK ==
  /\ hits \subseteq reported \cup lost \cup Announcing
  /\ \A h \in Handlers : HitCallOK(call[h])

-----------------------------------------------------------------------------
(* Correlation.                                                            *)

Related(f, g) ==
  /\ f # g /\ ~Facts[f].suppressed /\ ~Facts[g].suppressed
  /\ CategoryOf[Facts[g].scanner] = CategoryOf[Facts[f].scanner]
  /\ CategoryOf[Facts[f].scanner] = "iac" \/ Facts[g].scanner # Facts[f].scanner
  /\ Facts[f].signals \cap Facts[g].signals # {} \/ Near(f, g)

Batch == {q \in DOMAIN pairs : pairs[q] = "same_family_batch"}

Exact(f) == confidence[f] = Score(f, FindBatchMatches(f))

\* Pairs are of related findings, so that a score is at most what they justify.
PairsOK ==
  /\ stored \subseteq Findings /\ IsFiniteSet(stored) /\ overlapped \in BOOLEAN
  /\ confidence \in [Findings -> Nat]
  /\ \A f \in Findings \ stored : confidence[f] = 0
  /\ \A f \in stored : confidence[f] <= Score(f, FindBatchMatches(f))
  /\ \A q \in Batch : \E f, g \in stored : Related(f, g) /\ q = {f, g}

RefreshCallOK(c) ==
  /\ c.op \in RefreshOps => c.finding \in stored
  /\ c.op = "forget" => c.found \subseteq FindBatchMatches(c.finding)
  /\ c.op = "pair" => c.todo \subseteq c.found /\ c.found \subseteq FindBatchMatches(c.finding)
  /\ c.op \in {"score", "write"} => c.todo \subseteq stored
  /\ c.op = "write" =>
       /\ c.scored \in stored /\ c.score \in Nat
       /\ c.score <= Score(c.scored, FindBatchMatches(c.scored))

\* What a refresh that runs alone has still to do: pairs and scores.
Unpaired(c) ==
  CASE c.op \in {"match", "forget"} -> stored
    [] c.op = "pair"                -> c.todo
    [] OTHER                        -> {}

Unscored(c) ==
  CASE c.op = "score" -> c.todo
    [] c.op = "write" -> c.todo \cup {c.scored}
    [] OTHER          -> FindBatchMatches(c.finding) \cup {c.finding}

AloneOK(c) ==
  /\ \A f, g \in stored :
       {f, g} \in Batch <=>
         /\ Related(f, g)
         /\ ~(f = c.finding /\ g \in Unpaired(c)) /\ ~(g = c.finding /\ f \in Unpaired(c))
  /\ \A f \in stored \ Unscored(c) : Exact(f)
  /\ c.op \in {"forget", "pair"} => c.found = FindBatchMatches(c.finding)
  /\ c.op = "write" => c.score = Score(c.scored, FindBatchMatches(c.scored))

RefreshesOK ==
  /\ \A h \in Handlers : RefreshCallOK(call[h])
  /\ ~overlapped =>
       /\ \A g, h \in Handlers : Refreshing(g) /\ Refreshing(h) => g = h
       /\ \A h \in Handlers : Refreshing(h) => AloneOK(call[h])
       /\ (\A h \in Handlers : ~Refreshing(h)) =>
            /\ \A f, g \in stored : {f, g} \in Batch <=> Related(f, g)
            /\ \A f \in stored : Exact(f)

-----------------------------------------------------------------------------
(* Summaries.                                                              *)

SummaryState == [state : {"none", "pending", "ready", "failed"}, text : BOOLEAN, signed : BOOLEAN]

\* Only what has no description of its own gets pending, with its signature.
StatesOK ==
  /\ summaries \in [Summarized -> SummaryState]
  /\ \A f \in Summarized : summaries[f].state = "pending" => summaries[f].signed /\ f \notin Described

\* A call that goes away without enqueueing or sharing has seen the text.
PreparedOK(c) ==
  /\ c.op \in {"claim", "mark"} => c.finding \notin Described
  /\ c.op \in {"enqueue", "generate"} /\ c.state = "ready" => summaries[c.finding].text

\* And each pending finding is waited for by a call or a task of its own.
SummariesOK == StatesOK /\ (\A h \in Handlers : PreparedOK(call[h])) /\ SummariesAreAwaited

-----------------------------------------------------------------------------
(* Triage.                                                                 *)

Clearing(h, f) == call[h].op \in {"reread", "drop"} /\ call[h].finding = f

\* What a detail says of its finding.
Current(d, f) == d.edits = edits[f] /\ (d.row = rows[f] \/ f \in policed)

Founded(d, f) == d.link = "created" => links[f] = "created"

\* A reader whose finding was not updated meanwhile holds what the cache may keep.
DetailsOK ==
  /\ DOMAIN rows = Triaged /\ DOMAIN edits = Triaged /\ DOMAIN details = Triaged
  /\ \A f \in Triaged :
       \/ details[f] = Nothing \/ f \in raced \/ Current(details[f], f)
       \/ \E h \in Handlers : Clearing(h, f)
  /\ \A f \in Triaged : details[f] = Nothing \/ Founded(details[f], f)
  /\ \A h \in Handlers :
       call[h].op \in ReadOps =>
         /\ call[h].finding \in Triaged
         /\ call[h].finding \in raced \/ Current(call[h].seen, call[h].finding)
         /\ Founded(call[h].seen, call[h].finding)

\* A call that works for a finding holds its link, alone; without a link all
\* issues have been reported as failures.
TicketOK(h) ==
  LET f == call[h].finding IN
  /\ links[f] = "pending"
  /\ \A g \in Handlers : Ticketing(g) /\ call[g].finding = f => g = h
  /\ IF At(h, "link") THEN tickets[f] > 0 ELSE tickets[f] <= failed[f]

TicketsOK ==
  /\ links \in [Triaged -> {"none", "pending", "created"}]
  /\ tickets \in [Triaged -> Nat] /\ failed \in [Triaged -> Nat]
  /\ \A f \in Triaged :
       /\ tickets[f] <= 1 + failed[f]
       /\ links[f] = "none" => tickets[f] <= failed[f]
       /\ links[f] = "created" => tickets[f] > 0
       /\ links[f] = "pending" =>
            f \in dropped \/ \E h \in Handlers : Ticketing(h) /\ call[h].finding = f
  /\ \A h \in Handlers : Ticketing(h) => TicketOK(h)

-----------------------------------------------------------------------------
(* Deliveries.                                                             *)

Webhook == [enabled : BOOLEAN, events : Subscriptions, count : Nat, errors : Nat, logged : Nat]

Tally == [posted : Nat, received : Nat, acknowledged : Nat, uncounted : Nat, unlogged : Nat]

\* Calls that posted for a webhook and are on their way to count or log it;
\* and those that were answered, on their way to the acknowledgement.
Between(w, ops) == {h \in Handlers : call[h].op \in ops /\ call[h].task.about = w}

Answered(d) ==
  {h \in Handlers : call[h].op \in PostedOps /\ call[h].ok /\ Destination(call[h].task) = d}

\* A webhook nothing was posted to has no history, so that its id may be used.
TallyOK ==
  /\ DOMAIN webhooks \subseteq Webhooks
  /\ \A w \in DOMAIN webhooks : webhooks[w] \in Webhook
  /\ tally \in [Destinations -> Tally]
  /\ \A d \in Destinations : tally[d].acknowledged + Cardinality(Answered(d)) <= tally[d].received
  /\ \A w \in Webhooks : tally[w].posted = 0 => tally[w].uncounted = 0 /\ tally[w].unlogged = 0
  /\ \A h \in Handlers : call[h].op \in {"count", "log"} => tally[call[h].task.about].posted > 0
  /\ \A w \in DOMAIN webhooks :
       /\ tally[w].posted =
            webhooks[w].count + tally[w].uncounted + Cardinality(Between(w, {"count"}))
       /\ tally[w].posted =
            webhooks[w].logged + tally[w].unlogged + Cardinality(Between(w, {"count", "log"}))

\* Checks that have alerted on a finding and not marked it yet, and those that
\* listed it and have still to come to it.
Marking(f) == {h \in Handlers : Alerting(h) /\ f \in call[h].marked}

Listed(f) == {h \in Handlers : At(h, "alert") /\ \E i \in call[h].todo : Overdue[i] = f}

\* Before the first mark the alerts are those of checks under way or cut off;
\* after it, every alert to come is one of a check that listed it before.
AlertsOK ==
  /\ alerts \in [Triaged -> Nat] /\ unmarked \in [Triaged -> Nat]
  /\ \A f \in Triaged :
       IF f \in attempted
         THEN /\ alerts[f] > 0
              /\ alerts[f] + Cardinality(Listed(f)) <= unmarked[f] + Cardinality(Handlers)
         ELSE alerts[f] = unmarked[f] + Cardinality(Marking(f))

DeliveriesOK == SettingsOK(settings) /\ TallyOK /\ AlertsOK

-----------------------------------------------------------------------------
(* Reports.                                                                *)

\* The instant of the digest of a day.
DigestOf(day) == day * Day + DigestHour * MinutesPerHour

\* The digests of all Mondays after the one on which the worker was started
\* that come before t.
DigestsUntil(w, t) ==
  \A day \in Nat :
    day % 7 = 1 /\ since[w] \div Day < day /\ DigestOf(day) < t
      => <<w, "digest", DigestOf(day)>> \in DOMAIN fired

MondaysDigest(t) == \E day \in Nat : day % 7 = 1 /\ t = DigestOf(day)

DigestOK(w) ==
  LET a == alarm[<<w, "digest">>] IN
  IF a = Planning
    THEN DigestsUntil(w, now + 1) /\ (since[w] = now \/ MondaysDigest(now))
    ELSE a.enqueues /\ DigestsUntil(w, a.until) /\ MondaysDigest(a.until)

\* A loop that sleeps, sleeps until later than what it has enqueued for.
AlarmsOK ==
  /\ now \in Nat /\ since \in [Schedulers -> Nat]
  /\ alarm \in [Loops -> [until : Nat, enqueues : BOOLEAN]]
  /\ \A l \in Loops : alarm[l] # Planning => now <= alarm[l].until
  /\ \A x \in DOMAIN fired :
       /\ x \in Schedulers \X {"report", "digest"} \X Nat /\ fired[x] = 1 /\ x[3] <= now
       /\ alarm[<<x[1], x[2]>>].enqueues => x[3] < alarm[<<x[1], x[2]>>].until

ReportsOK == AlarmsOK /\ \A w \in Schedulers : since[w] <= now /\ DigestOK(w)

IInv ==
  /\ CallsOK /\ TasksOK /\ InventoryOK /\ HitsOK /\ PairsOK /\ RefreshesOK
  /\ SummariesOK /\ DetailsOK /\ TicketsOK /\ DeliveriesOK /\ ReportsOK

-----------------------------------------------------------------------------
(* What a step does to the calls and to the tasks.                         *)

LEMMA Constants ==
  /\ Handlers # {} /\ IsFiniteSet(Handlers) /\ "fault" \in Kinds /\ Budgets \subseteq [Kinds -> Nat]
  /\ MaxRetry \in Nat /\ IsFiniteSet(Scans) /\ \A f \in Findings : Facts[f].line \in Nat
  /\ IsFiniteSet(Members) /\ Nothing \notin Owners /\ "mail" \notin Webhooks /\ Overdue \in Seq(Triaged)
  /\ \A i, j \in DOMAIN Overdue : Overdue[i] = Overdue[j] => i = j
  /\ HoursPerDay \in Nat \ {0} /\ MinutesPerHour \in Nat \ {0} /\ Pause \in Nat \ {0}
  /\ DigestHour \in 0..HoursPerDay - 1 /\ StartTimes \subseteq Nat
BY RequestsAssumption, TasksAssumption, CorrelationAssumption, TriageAssumption,
   DeliveriesAssumption, ReportsAssumption

\* The calls of some labels move among these, the others stay.
Moves(ops) ==
  /\ CallsOK'
  /\ \A h \in Handlers : call'[h] = call[h] \/ (call[h].op \in ops /\ call'[h].op \in ops)

LEMMA IdleIsOK == CallOK(Idle) /\ Idle.op = "idle"
<1>1. Idle.op = "idle" /\ DOMAIN Idle = {"op"}
  BY DEF Idle
<1>2. ThreatCallOK(Idle) /\ CorrelationCallOK(Idle)
  BY <1>1 DEF ThreatCallOK, CorrelationCallOK, VisitOps
<1>3. SummaryCallOK(Idle) /\ TriageCallOK(Idle)
  BY <1>1 DEF SummaryCallOK, TriageCallOK, ReadOps, EditOps, TicketOps
<1>4. DeliveryCallOK(Idle)
  BY <1>1 DEF DeliveryCallOK, TaskOps, PostedOps
<1> QED BY <1>1, <1>2, <1>3, <1>4 DEF CallOK, AllOps, ThreatOps

LEMMA ThreatCallIsOK ==
  ASSUME NEW c, "op" \in DOMAIN c, c.op \in ThreatOps \ {"idle"}, ThreatCallOK(c)
  PROVE  CallOK(c)
<1>1. CorrelationCallOK(c) /\ SummaryCallOK(c)
  BY DEF ThreatOps, VisitOps, CorrelationCallOK, SummaryCallOK, SummaryOps, RequestOps, AgentOps
<1>2. TriageCallOK(c) /\ DeliveryCallOK(c)
  BY DEF ThreatOps, VisitOps, TriageCallOK, ReadOps, EditOps, TicketOps, DeliveryCallOK, TaskOps, PostedOps
<1> QED BY <1>1, <1>2 DEF CallOK, AllOps

LEMMA CorrelationCallIsOK ==
  ASSUME NEW c, "op" \in DOMAIN c, c.op \in CorrelationOps \ {"idle"}, CorrelationCallOK(c)
  PROVE  CallOK(c)
<1>1. ThreatCallOK(c) /\ SummaryCallOK(c)
  BY DEF CorrelationOps, RefreshOps, VisitOps, ThreatCallOK, SummaryCallOK, SummaryOps, RequestOps, AgentOps
<1>2. TriageCallOK(c) /\ DeliveryCallOK(c)
  BY DEF CorrelationOps, RefreshOps, TriageCallOK, ReadOps, EditOps, TicketOps, DeliveryCallOK, TaskOps, PostedOps
<1> QED BY <1>1, <1>2 DEF CallOK, AllOps

LEMMA SummaryCallIsOK ==
  ASSUME NEW c, "op" \in DOMAIN c, c.op \in SummaryOps \ {"idle"}, SummaryCallOK(c)
  PROVE  CallOK(c)
<1>1. ThreatCallOK(c) /\ CorrelationCallOK(c)
  BY DEF SummaryOps, RequestOps, AgentOps, VisitOps, ThreatCallOK, CorrelationCallOK
<1>2. TriageCallOK(c) /\ DeliveryCallOK(c)
  BY DEF SummaryOps, RequestOps, AgentOps, TriageCallOK, ReadOps, EditOps, TicketOps, DeliveryCallOK, TaskOps, PostedOps
<1> QED BY <1>1, <1>2 DEF CallOK, AllOps

LEMMA TriageCallIsOK ==
  ASSUME NEW c, "op" \in DOMAIN c, c.op \in TriageOps \ {"idle"}, TriageCallOK(c)
  PROVE  CallOK(c)
<1>1. ThreatCallOK(c) /\ CorrelationCallOK(c)
  BY DEF TriageOps, ReadOps, EditOps, TicketOps, VisitOps, ThreatCallOK, CorrelationCallOK
<1>2. SummaryCallOK(c) /\ DeliveryCallOK(c)
  BY DEF TriageOps, ReadOps, EditOps, TicketOps, SummaryCallOK, SummaryOps, RequestOps, AgentOps,
         DeliveryCallOK, TaskOps, PostedOps
<1> QED BY <1>1, <1>2 DEF CallOK, AllOps

LEMMA DeliveryCallIsOK ==
  ASSUME NEW c, "op" \in DOMAIN c, c.op \in DeliveryOps \ {"idle"}, DeliveryCallOK(c)
  PROVE  CallOK(c)
<1>1. ThreatCallOK(c) /\ CorrelationCallOK(c)
  BY DEF DeliveryOps, TaskOps, PostedOps, VisitOps, ThreatCallOK, CorrelationCallOK
<1>2. SummaryCallOK(c) /\ TriageCallOK(c)
  BY DEF DeliveryOps, TaskOps, PostedOps, SummaryCallOK, SummaryOps, RequestOps, AgentOps,
         TriageCallOK, ReadOps, EditOps, TicketOps
<1> QED BY <1>1, <1>2 DEF CallOK, AllOps

LEMMA CountKeeps ==
  ASSUME left \in [Kinds -> Nat], NEW kind, Count(kind)
  PROVE  left' \in [Kinds -> Nat]
<1>1. CASE kind \in Kinds
  BY <1>1 DEF Count
<1>2. CASE kind \notin Kinds
  BY <1>2 DEF Count
<1> QED BY <1>1, <1>2

LEMMA MoveMoves ==
  ASSUME CallsOK, NEW h \in Handlers, NEW c, NEW ops, CallOK(c), c.op \in ops, call[h].op \in ops,
         call' = [call EXCEPT ![h] = c], left' \in [Kinds -> Nat]
  PROVE  Moves(ops)
<1>1. /\ DOMAIN call' = Handlers /\ call'[h] = c
      /\ \A g \in Handlers \ {h} : call'[g] = call[g]
  BY DEF CallsOK
<1>2. \A g \in Handlers : CallOK(call'[g])
  <2> TAKE g \in Handlers
  <2>1. CASE g = h
    BY <1>1, <2>1
  <2>2. CASE g # h
    BY <1>1, <2>2 DEF CallsOK
  <2> QED BY <2>1, <2>2
<1>3. CallsOK'
  BY <1>1, <1>2 DEF CallsOK, CallOK, ThreatCallOK, CorrelationCallOK, SummaryCallOK, TriageCallOK,
     DeliveryCallOK, Requested, Agent, TaskOK, SettingsOK, TimeOK
<1> QED BY <1>1, <1>3 DEF Moves

LEMMA BeginMoves ==
  ASSUME CallsOK, NEW h \in Handlers, NEW c, NEW ops, CallOK(c), c.op \in ops, "idle" \in ops,
         NEW kind, Begin(kind, h, c)
  PROVE  Moves(ops)
<1>1. left' \in [Kinds -> Nat]
  BY CountKeeps DEF Begin, CallsOK
<1> QED BY <1>1, MoveMoves, IdleIsOK DEF Begin

LEMMA ProceedMoves ==
  ASSUME CallsOK, NEW h \in Handlers, NEW c, NEW ops, CallOK(c), c.op \in ops, call[h].op \in ops,
         Proceed(h, c)
  PROVE  Moves(ops)
BY MoveMoves DEF Proceed, CallsOK

LEMMA ReturnMoves ==
  ASSUME CallsOK, NEW h \in Handlers, NEW ops, "idle" \in ops, call[h].op \in ops, Return(h)
  PROVE  Moves(ops)
BY ProceedMoves, IdleIsOK DEF Return

LEMMA FaultMoves ==
  ASSUME CallsOK, NEW h \in Handlers, NEW c, NEW ops, CallOK(c), c.op \in ops, call[h].op \in ops,
         NEW kind, Count(kind), call' = [call EXCEPT ![h] = c]
  PROVE  Moves(ops)
BY MoveMoves, CountKeeps DEF CallsOK

LEMMA AtOnceMoves ==
  ASSUME CallsOK, NEW kind, Count(kind), UNCHANGED call, NEW ops
  PROVE  Moves(ops)
<1>1. CallsOK'
  BY CountKeeps DEF CallsOK, CallOK, ThreatCallOK, CorrelationCallOK, SummaryCallOK, TriageCallOK,
     DeliveryCallOK, Requested, Agent, TaskOK, SettingsOK, TimeOK
<1> QED BY <1>1 DEF Moves

LEMMA StillMoves ==
  ASSUME CallsOK, UNCHANGED requestVars, NEW ops
  PROVE  Moves(ops)
<1>1. CallsOK'
  BY DEF requestVars, CallsOK, CallOK, ThreatCallOK, CorrelationCallOK, SummaryCallOK, TriageCallOK,
     DeliveryCallOK, Requested, Agent, TaskOK, SettingsOK, TimeOK
<1> QED BY <1>1 DEF Moves, requestVars

-----------------------------------------------------------------------------
(* Tasks.                                                                  *)

\* The queue keeps its tasks of summaries.
TasksStep ==
  TasksOK' /\ \A t \in DOMAIN tasks : t.to = "summarize" => t \in DOMAIN tasks'

LEMMA UnchangedTasks ==
  ASSUME TasksOK, UNCHANGED taskVars
  PROVE  TasksStep
BY DEF TasksStep, TasksOK, TaskOK, taskVars

LEMMA AddedTasks ==
  ASSUME TasksOK, NEW new, \A t \in DOMAIN new : TaskOK(t) /\ new[t] \in Nat \ {0},
         tasks' = tasks (+) new
  PROVE  TasksStep /\ DOMAIN tasks' = DOMAIN tasks \cup DOMAIN new
<1>1. /\ DOMAIN tasks' = DOMAIN tasks \cup DOMAIN new
      /\ \A t \in DOMAIN tasks' : tasks'[t] = (IF t \in DOMAIN tasks THEN tasks[t] ELSE 0)
                                             + (IF t \in DOMAIN new THEN new[t] ELSE 0)
  BY DEF (+)
<1>2. \A t \in DOMAIN tasks' : tasks'[t] \in Nat \ {0}
  BY <1>1 DEF TasksOK
<1> QED BY <1>1, <1>2 DEF TasksStep, TasksOK, TaskOK

LEMMA EnqueuedTasks ==
  ASSUME TasksOK, NEW new, \A t \in new : TaskOK(t), Enqueue(new)
  PROVE  TasksStep /\ DOMAIN tasks' = DOMAIN tasks \cup new
<1>1. DOMAIN SetToBag(new) = new /\ \A t \in new : SetToBag(new)[t] \in Nat \ {0}
  BY DEF SetToBag
<1> QED BY <1>1, AddedTasks DEF Enqueue

LEMMA LeasedTasks ==
  ASSUME TasksOK, NEW h, NEW t, NEW c, Lease(h, t, c)
  PROVE  /\ t \in DOMAIN tasks /\ TaskOK(t) /\ TasksOK'
         /\ \A u \in DOMAIN tasks : u # t => u \in DOMAIN tasks'
         /\ t.to # "summarize" => TasksStep
<1> DEFINE less == [u \in DOMAIN tasks |-> IF u \in DOMAIN SetToBag({t}) THEN tasks[u] - SetToBag({t})[u]
                                                                          ELSE tasks[u]]
<1>1. t \in DOMAIN tasks /\ tasks' = tasks (-) SetToBag({t})
  BY DEF Lease, BagIn, BagToSet
<1>2. tasks' = [u \in {v \in DOMAIN less : less[v] > 0} |-> less[u]]
  BY <1>1 DEF (-)
<1>3. \A u \in DOMAIN tasks : less[u] = (IF u = t THEN tasks[u] - 1 ELSE tasks[u]) /\ less[u] \in Nat
  <2>1. DOMAIN SetToBag({t}) = {t} /\ SetToBag({t})[t] = 1
    BY DEF SetToBag
  <2>2. \A u \in DOMAIN tasks : less[u] = IF u = t THEN tasks[u] - 1 ELSE tasks[u]
    BY <2>1
  <2>3. \A u \in DOMAIN tasks : tasks[u] \in Nat \ {0}
    BY DEF TasksOK
  <2> HIDE DEF less
  <2>4. \A u \in DOMAIN tasks : tasks[u] - 1 \in Nat
    BY <2>3
  <2> QED BY <2>2, <2>3, <2>4
<1>4. DOMAIN tasks' \subseteq DOMAIN tasks /\ \A u \in DOMAIN tasks' : tasks'[u] \in Nat \ {0}
  BY <1>2, <1>3
<1>5. \A u \in DOMAIN tasks : u # t => u \in DOMAIN tasks'
  BY <1>2, <1>3 DEF TasksOK
<1> QED BY <1>1, <1>4, <1>5 DEF TasksStep, TasksOK, TaskOK

LEMMA RetriedTasks ==
  ASSUME TasksOK, NEW t, TaskOK(t), Retry(t)
  PROVE  /\ TasksStep
         /\ t.tries # MaxRetry => [t EXCEPT !.tries = @ + 1] \in DOMAIN tasks'
<1>1. CASE t.tries < MaxRetry
  <2> DEFINE u == [t EXCEPT !.tries = @ + 1]
  <2>1. tasks' = tasks (+) SetToBag({u})
    BY <1>1 DEF Retry
  <2>2. TaskOK(u)
    BY <1>1, Constants DEF TaskOK
  <2>3. DOMAIN SetToBag({u}) = {u} /\ SetToBag({u})[u] \in Nat \ {0}
    BY DEF SetToBag
  <2> HIDE DEF u
  <2>4. TasksStep /\ DOMAIN tasks' = DOMAIN tasks \cup {u}
    BY <2>1, <2>2, <2>3, AddedTasks
  <2> QED BY <2>4 DEF u
<1>2. CASE ~(t.tries < MaxRetry)
  <2>1. t.tries = MaxRetry /\ UNCHANGED tasks
    BY <1>2, Constants DEF Retry, TaskOK
  <2> QED BY <2>1 DEF TasksStep, TasksOK, TaskOK
<1> QED BY <1>1, <1>2

-----------------------------------------------------------------------------
(* Triage: updates and details.                                            *)

DetailOps == {"idle", "update"} \cup ReadOps \cup EditOps
JiraOps   == {"idle", "integrate"} \cup TicketOps

LEMMA TriageOpsSplit == DetailOps \subseteq TriageOps /\ JiraOps \subseteq TriageOps
BY DEF DetailOps, JiraOps, TriageOps

\* What one call became, when it moves.
LEMMA CallAfter ==
  ASSUME CallsOK, NEW h \in Handlers, NEW c, call' = [call EXCEPT ![h] = c]
  PROVE  call'[h] = c /\ \A g \in Handlers \ {h} : call'[g] = call[g]
BY DEF CallsOK

\* A ticket that is there stays.
LinksStay == \A f \in Triaged : links[f] = "created" => links'[f] = "created"

LEMMA OtherDetails ==
  ASSUME DetailsOK, NEW ops, ops \cap CacheOps = {}, Moves(ops),
         UNCHANGED detailVars, LinksStay
  PROVE  DetailsOK'
<1>1. \A h \in Handlers : \/ call'[h] = call[h]
                          \/ /\ call[h].op \notin CacheOps
                             /\ call'[h].op \notin CacheOps
  BY DEF Moves
<1>2. \A h \in Handlers, f \in Triaged : Clearing(h, f) => Clearing(h, f)'
  BY <1>1 DEF Clearing, CacheOps
<1>3. \A h \in Handlers : call'[h].op \in ReadOps => call[h].op \in ReadOps /\ call'[h] = call[h]
  BY <1>1 DEF CacheOps
<1>4. UNCHANGED <<rows, edits, details, raced>> /\ UNCHANGED rowVars
  BY DEF detailVars, rowVars
<1> QED BY <1>2, <1>3, <1>4 DEF DetailsOK, Current, Founded, rowVars, LinksStay

LEMMA NoDetails ==
  ASSUME DetailsOK, NEW ops, ops \cap CacheOps = {}, Moves(ops), UNCHANGED triageVars
  PROVE  DetailsOK' /\ UNCHANGED jiraVars
<1>1. UNCHANGED detailVars /\ LinksStay /\ UNCHANGED jiraVars
  BY DEF triageVars, jiraVars, LinksStay
<1> QED BY <1>1, OtherDetails

\* Readers that stay and updates that stay, with the rows and the links as they
\* are, keep what is said of the details that stay.
LEMMA SameDetails ==
  ASSUME DetailsOK, UNCHANGED <<rows, edits, policed, links>>,
         DOMAIN details' = Triaged, raced \subseteq raced',
         \A f \in Triaged : details'[f] \in {Nothing, details[f]},
         \A h \in Handlers : call'[h].op \in ReadOps => call'[h] = call[h],
         \A h \in Handlers, f \in Triaged :
           Clearing(h, f) => Clearing(h, f)' \/ details'[f] = Nothing \/ f \in raced'
  PROVE  DetailsOK'
<1>1. UNCHANGED rowVars /\ LinksStay
  BY DEF rowVars, LinksStay
<1>2. \A f \in Triaged :
        \/ details'[f] = Nothing \/ f \in raced' \/ Current(details[f], f)'
        \/ \E h \in Handlers : Clearing(h, f)'
  BY <1>1 DEF DetailsOK, Current, Founded, rowVars, LinksStay
<1>3. \A f \in Triaged : details'[f] = Nothing \/ Founded(details[f], f)'
  BY <1>1 DEF DetailsOK, Current, Founded, rowVars, LinksStay
<1>4. \A h \in Handlers :
        call'[h].op \in ReadOps =>
          /\ call'[h].finding \in Triaged
          /\ call'[h].finding \in raced' \/ Current(call[h].seen, call[h].finding)'
          /\ Founded(call[h].seen, call[h].finding)'
  BY <1>1 DEF DetailsOK, Current, Founded, rowVars, LinksStay
<1> QED BY <1>2, <1>3, <1>4 DEF DetailsOK

LEMMA UpdateFindingKeeps ==
  ASSUME CallsOK, TasksOK, DetailsOK, NEW h \in Handlers, NEW f \in Triaged, NEW set, UpdateFinding(h, f, set)
  PROVE  Moves(DetailOps) /\ TasksStep /\ DetailsOK' /\ UNCHANGED jiraVars
<1> DEFINE c == [op |-> "update", bulk |-> FALSE, todo |-> {f}, set |-> set, old |-> rows[f].owner]
<1>1. Begin("triage", h, c) /\ UNCHANGED <<triageVars, taskVars>>
  BY DEF UpdateFinding
<1>2. CallOK(c)
  BY TriageCallIsOK DEF TriageOps, TriageCallOK, ReadOps, EditOps, TicketOps
<1>3. Moves({"idle", "update"}) /\ Moves(DetailOps) /\ {"idle", "update"} \cap CacheOps = {}
  BY <1>1, <1>2, BeginMoves DEF DetailOps, CacheOps, ReadOps
<1> QED BY <1>1, <1>3, NoDetails, UnchangedTasks

LEMMA BulkUpdateKeeps ==
  ASSUME CallsOK, TasksOK, DetailsOK, NEW h \in Handlers, NEW chosen \in SUBSET Triaged, NEW set,
         BulkUpdateFindings(h, chosen, set)
  PROVE  Moves(DetailOps) /\ TasksStep /\ DetailsOK' /\ UNCHANGED jiraVars
<1> DEFINE c == [op |-> "update", bulk |-> TRUE, todo |-> chosen, set |-> set, old |-> Nothing]
<1>1. Begin("triage", h, c) /\ UNCHANGED <<triageVars, taskVars>>
  BY DEF BulkUpdateFindings
<1>2. CallOK(c)
  BY TriageCallIsOK DEF TriageOps, TriageCallOK, ReadOps, EditOps, TicketOps
<1>3. Moves({"idle", "update"}) /\ Moves(DetailOps) /\ {"idle", "update"} \cap CacheOps = {}
  BY <1>1, <1>2, BeginMoves DEF DetailOps, CacheOps, ReadOps
<1> QED BY <1>1, <1>3, NoDetails, UnchangedTasks

LEMMA UpdateRowKeeps ==
  ASSUME CallsOK, TasksOK, DetailsOK, NEW h \in Handlers, UpdateRow(h)
  PROVE  Moves(DetailOps) /\ TasksStep /\ DetailsOK' /\ UNCHANGED jiraVars
<1> DEFINE c == call[h]
<1>1. /\ c.op = "update" /\ DOMAIN c = {"op", "bulk", "todo", "set", "old"} /\ c.todo \subseteq Triaged
      /\ UNCHANGED <<policed, details, jiraVars, taskVars>>
  BY DEF UpdateRow, At, CallsOK, CallOK, TriageCallOK
<1>2. CASE c.todo = {} /\ Return(h) /\ UNCHANGED <<rows, edits, raced>>
  <2>1. Moves({"idle", "update"}) /\ Moves(DetailOps) /\ {"idle", "update"} \cap CacheOps = {}
    BY <1>1, <1>2, ReturnMoves DEF DetailOps, CacheOps, ReadOps
  <2>2. UNCHANGED triageVars
    BY <1>1, <1>2 DEF triageVars, detailVars, rowVars
  <2> QED BY <1>1, <2>1, <2>2, NoDetails, UnchangedTasks
<1>3. ASSUME NEW f \in c.todo,
             rows' = [rows EXCEPT ![f] = Updated(@, c.set)],
             edits' = [edits EXCEPT ![f] = @ + 1],
             raced' = IF Reading(f) THEN raced \cup {f} ELSE raced,
             Proceed(h, [op |-> IF c.bulk THEN "reread" ELSE "drop", finding |-> f, bulk |-> c.bulk,
                         todo |-> c.todo \ {f}, set |-> c.set, old |-> c.old])
      PROVE  Moves(DetailOps) /\ DetailsOK'
  <2> DEFINE d == [op |-> IF c.bulk THEN "reread" ELSE "drop", finding |-> f, bulk |-> c.bulk,
                   todo |-> c.todo \ {f}, set |-> c.set, old |-> c.old]
  <2>1. d.op \in {"reread", "drop"} /\ d.finding = f /\ f \in Triaged
    BY <1>1, <1>3
  <2>2. CallOK(d)
    BY <1>1, <2>1, TriageCallIsOK DEF TriageOps, TriageCallOK, ReadOps, EditOps, TicketOps
  <2> HIDE DEF d
  <2>3. Moves(DetailOps)
    BY <1>1, <1>3, <2>1, <2>2, ProceedMoves DEF DetailOps, EditOps, d
  <2>4. call'[h] = d /\ \A g \in Handlers \ {h} : call'[g] = call[g]
    BY <1>3, CallAfter DEF Proceed, d
  <2>5. /\ DOMAIN rows' = Triaged /\ DOMAIN edits' = Triaged /\ DOMAIN details' = Triaged
        /\ \A g \in Triaged \ {f} : rows'[g] = rows[g] /\ edits'[g] = edits[g]
    BY <1>1, <1>3 DEF DetailsOK
  <2>6. UNCHANGED <<details, policed, links>> /\ raced \subseteq raced'
    BY <1>1, <1>3 DEF jiraVars
  <2>7. Clearing(h, f)' /\ \A k \in Handlers, g \in Triaged \ {f} : Clearing(k, g) => Clearing(k, g)'
    BY <1>1, <2>1, <2>4 DEF Clearing
  <2>8. \A g \in Triaged :
          \/ details'[g] = Nothing \/ g \in raced' \/ Current(details[g], g)'
          \/ \E k \in Handlers : Clearing(k, g)'
    <3> TAKE g \in Triaged
    <3>1. CASE g = f
      BY <2>7, <3>1
    <3>2. CASE g # f
      BY <2>5, <2>6, <2>7, <3>2 DEF DetailsOK, Current
    <3> QED BY <3>1, <3>2
  <2>9. \A g \in Triaged : details'[g] = Nothing \/ Founded(details[g], g)'
    BY <2>6 DEF DetailsOK, Founded
  <2>10. ASSUME NEW k \in Handlers, call'[k].op \in ReadOps
         PROVE  /\ call'[k].finding \in Triaged
                /\ call'[k].finding \in raced' \/ Current(call[k].seen, call[k].finding)'
                /\ Founded(call[k].seen, call[k].finding)'
    <3>1. k # h /\ call'[k] = call[k]
      BY <2>1, <2>4, <2>10 DEF ReadOps
    <3>2. /\ call[k].op \in ReadOps /\ call[k].finding \in Triaged
          /\ call[k].finding \in raced \/ Current(call[k].seen, call[k].finding)
          /\ Founded(call[k].seen, call[k].finding)
      BY <2>10, <3>1 DEF DetailsOK
    <3>3. call[k].finding = f => f \in raced'
      BY <1>3, <3>2 DEF Reading, ReadOps
    <3> QED BY <2>5, <2>6, <3>1, <3>2, <3>3 DEF Current, Founded
  <2> QED BY <2>3, <2>5, <2>8, <2>9, <2>10 DEF DetailsOK
<1> QED BY <1>1, <1>2, <1>3, UnchangedTasks DEF UpdateRow

LEMMA ReadOldOwnerKeeps ==
  ASSUME CallsOK, TasksOK, DetailsOK, NEW h \in Handlers, ReadOldOwner(h)
  PROVE  Moves(DetailOps) /\ TasksStep /\ DetailsOK' /\ UNCHANGED jiraVars
<1> DEFINE c == call[h]
           d == [c EXCEPT !.op = "drop", !.old = rows[c.finding].owner]
<1>1. /\ c.op = "reread" /\ Proceed(h, d) /\ UNCHANGED <<triageVars, taskVars>>
      /\ DOMAIN c = {"op", "finding", "bulk", "todo", "set", "old"}
      /\ c.todo \subseteq Triaged /\ c.finding \in Triaged
  BY DEF ReadOldOwner, At, CallsOK, CallOK, TriageCallOK, ReadOps, EditOps
<1>2. d.op = "drop" /\ d.finding = c.finding /\ d.todo = c.todo /\ DOMAIN d = DOMAIN c
  BY <1>1
<1> HIDE DEF d
<1>3. CallOK(d)
  BY <1>1, <1>2, TriageCallIsOK DEF TriageOps, TriageCallOK, ReadOps, EditOps, TicketOps
<1>4. Moves(DetailOps)
  BY <1>1, <1>2, <1>3, ProceedMoves DEF DetailOps, EditOps
<1>5. call'[h] = d /\ \A g \in Handlers \ {h} : call'[g] = call[g]
  BY <1>1, CallAfter DEF Proceed
<1>6. \A k \in Handlers, g \in Triaged : Clearing(k, g) => Clearing(k, g)'
  BY <1>1, <1>2, <1>5 DEF Clearing
<1>7. \A k \in Handlers : call'[k].op \in ReadOps => call'[k] = call[k]
  BY <1>2, <1>5 DEF ReadOps
<1>8. UNCHANGED <<rows, edits, policed, links, details, raced>> /\ DOMAIN details = Triaged
  BY <1>1 DEF triageVars, detailVars, rowVars, jiraVars, DetailsOK
<1>9. DetailsOK'
  BY <1>6, <1>7, <1>8, SameDetails
<1> QED BY <1>1, <1>4, <1>9, UnchangedTasks DEF triageVars, jiraVars

LEMMA DropDetailKeeps ==
  ASSUME CallsOK, TasksOK, DetailsOK, NEW h \in Handlers, DropDetail(h)
  PROVE  Moves(DetailOps) /\ TasksStep /\ DetailsOK' /\ UNCHANGED jiraVars
<1> DEFINE c == call[h]
           f == c.finding
           d == [c EXCEPT !.op = "notify"]
<1>1. /\ c.op = "drop" /\ UNCHANGED <<rowVars, jiraVars, taskVars>>
      /\ DOMAIN c = {"op", "finding", "bulk", "todo", "set", "old"}
      /\ c.todo \subseteq Triaged /\ f \in Triaged
  BY DEF DropDetail, At, CallsOK, CallOK, TriageCallOK, ReadOps, EditOps
<1>2. d.op = "notify" /\ d.finding = f /\ d.todo = c.todo /\ DOMAIN d = DOMAIN c
  BY <1>1
<1>3. CallOK(d)
  BY <1>1, <1>2, TriageCallIsOK DEF TriageOps, TriageCallOK, ReadOps, EditOps, TicketOps
<1>4. /\ call' = [call EXCEPT ![h] = d]
      /\ \/ details' = [details EXCEPT ![f] = Nothing] /\ UNCHANGED raced /\ UNCHANGED left
         \/ UNCHANGED details /\ raced' = raced \cup {f} /\ Count("fault")
  BY <1>1 DEF DropDetail, Proceed, CallsOK
<1> HIDE DEF d
<1>5. Moves(DetailOps)
  <2>1. left' \in [Kinds -> Nat]
    BY <1>4, CountKeeps DEF CallsOK
  <2> QED BY <1>1, <1>2, <1>3, <1>4, <2>1, MoveMoves DEF DetailOps, EditOps
<1>6. call'[h] = d /\ \A g \in Handlers \ {h} : call'[g] = call[g]
  BY <1>4, CallAfter
<1>7. \A k \in Handlers : call'[k].op \in ReadOps => call'[k] = call[k]
  BY <1>2, <1>6 DEF ReadOps
<1>8. /\ DOMAIN details' = Triaged /\ raced \subseteq raced'
      /\ \A g \in Triaged : details'[g] \in {Nothing, details[g]}
      /\ details'[f] = Nothing \/ f \in raced'
  BY <1>1, <1>4 DEF DetailsOK
<1>9. \A k \in Handlers, g \in Triaged \ {f} : Clearing(k, g) => Clearing(k, g)'
  BY <1>6 DEF Clearing
<1>10. DetailsOK'
  BY <1>1, <1>7, <1>8, <1>9, SameDetails DEF rowVars, jiraVars
<1> QED BY <1>1, <1>5, <1>10, UnchangedTasks

LEMMA MailIsOK == TaskOK(Mail)
BY Constants DEF TaskOK, Mail, Task

LEMMA NotifyOwnerKeeps ==
  ASSUME CallsOK, TasksOK, DetailsOK, NEW h \in Handlers, NotifyOwner(h)
  PROVE  Moves(DetailOps) /\ TasksStep /\ DetailsOK' /\ UNCHANGED jiraVars
<1> DEFINE c == call[h]
           d == [op |-> "update", bulk |-> c.bulk, todo |-> c.todo, set |-> c.set, old |-> c.old]
<1>1. /\ c.op = "notify" /\ Proceed(h, d) /\ UNCHANGED triageVars
      /\ Enqueue({Mail}) \/ UNCHANGED taskVars
      /\ c.todo \subseteq Triaged
  BY DEF NotifyOwner, At, CallsOK, CallOK, TriageCallOK, ReadOps, EditOps
<1>2. CallOK(d)
  BY <1>1, TriageCallIsOK DEF TriageOps, TriageCallOK, ReadOps, EditOps, TicketOps
<1>3. Moves({"update", "notify"}) /\ Moves(DetailOps) /\ {"update", "notify"} \cap CacheOps = {}
  BY <1>1, <1>2, ProceedMoves DEF DetailOps, EditOps, CacheOps, ReadOps
<1>4. DetailsOK' /\ UNCHANGED jiraVars
  BY <1>1, <1>3, NoDetails
<1>5. TasksStep
  BY <1>1, MailIsOK, EnqueuedTasks, UnchangedTasks
<1> QED BY <1>3, <1>4, <1>5

LEMMA CommentKeeps ==
  ASSUME CallsOK, TasksOK, DetailsOK, NEW mentioned \in SUBSET Members, CreateFindingComment(mentioned)
  PROVE  Moves(DetailOps) /\ TasksStep /\ DetailsOK' /\ UNCHANGED jiraVars
<1>1. Count("triage") /\ UNCHANGED call /\ UNCHANGED triageVars
  BY DEF CreateFindingComment, AtOnce
<1>2. Moves({"idle"}) /\ Moves(DetailOps) /\ {"idle"} \cap CacheOps = {}
  BY <1>1, AtOnceMoves DEF CacheOps, ReadOps
<1>3. DetailsOK' /\ UNCHANGED jiraVars
  BY <1>1, <1>2, NoDetails
<1>4. CASE mentioned = {}
  BY <1>2, <1>3, <1>4, UnchangedTasks DEF CreateFindingComment
<1>5. CASE mentioned # {}
  <2> DEFINE new == [t \in {Mail} |-> Cardinality(mentioned)]
  <2>1. tasks' = tasks (+) new
    BY <1>5 DEF CreateFindingComment
  <2>2. Cardinality(mentioned) \in Nat \ {0}
    BY <1>5, Constants, FS_Subset, FS_EmptySet, FS_CardinalityType
  <2>3. DOMAIN new = {Mail} /\ \A t \in DOMAIN new : TaskOK(t) /\ new[t] \in Nat \ {0}
    BY <2>2, MailIsOK
  <2> HIDE DEF new
  <2>4. TasksStep
    BY <2>1, <2>3, AddedTasks
  <2> QED BY <1>2, <1>3, <2>4
<1> QED BY <1>4, <1>5

\* A reader's step, after which what it holds is still so.
LEMMA ReaderDetails ==
  ASSUME DetailsOK, NEW h \in Handlers, UNCHANGED triageVars,
         \A g \in Handlers \ {h} : call'[g] = call[g],
         \A f \in Triaged : ~Clearing(h, f),
         call'[h].op \in ReadOps, call'[h].finding \in Triaged,
         call'[h].finding \in raced \/ Current(call'[h].seen, call'[h].finding),
         Founded(call'[h].seen, call'[h].finding)
  PROVE  DetailsOK' /\ UNCHANGED jiraVars
<1>1. /\ UNCHANGED <<rows, edits, details, raced>> /\ UNCHANGED rowVars
      /\ LinksStay /\ UNCHANGED jiraVars
  BY DEF triageVars, detailVars, rowVars, jiraVars, LinksStay
<1>2. \A k \in Handlers, g \in Triaged : Clearing(k, g) => Clearing(k, g)'
  BY DEF Clearing
<1>3. ASSUME NEW k \in Handlers, call'[k].op \in ReadOps
      PROVE  /\ call'[k].finding \in Triaged
             /\ call'[k].finding \in raced' \/ Current(call[k].seen, call[k].finding)'
             /\ Founded(call[k].seen, call[k].finding)'
  <2>1. CASE k = h
    BY <1>1, <2>1 DEF Current, Founded, rowVars, LinksStay
  <2>2. CASE k # h
    <3>1. call'[k] = call[k]
      BY <2>2
    <3> QED BY <1>1, <1>3, <3>1 DEF DetailsOK, Current, Founded, rowVars, LinksStay
  <2> QED BY <2>1, <2>2
<1>4. \A f \in Triaged :
        \/ details'[f] = Nothing \/ f \in raced' \/ Current(details[f], f)'
        \/ \E k \in Handlers : Clearing(k, f)'
  BY <1>1, <1>2 DEF DetailsOK, Current, Founded, rowVars, LinksStay
<1>5. \A f \in Triaged : details'[f] = Nothing \/ Founded(details[f], f)'
  BY <1>1 DEF DetailsOK, Current, Founded, rowVars, LinksStay
<1> QED BY <1>1, <1>3, <1>4, <1>5 DEF DetailsOK

LEMMA GetDetailKeeps ==
  ASSUME CallsOK, TasksOK, DetailsOK, NEW h \in Handlers, NEW f \in Triaged, GetFindingDetail(h, f)
  PROVE  Moves(DetailOps) /\ TasksStep /\ DetailsOK' /\ UNCHANGED jiraVars
<1> DEFINE c == [op |-> "sections", finding |-> f,
                 seen |-> [row |-> rows[f], edits |-> edits[f], link |-> "none"]]
<1>1. Begin("detail", h, c) /\ UNCHANGED <<triageVars, taskVars>>
  BY DEF GetFindingDetail
<1>2. CallOK(c)
  BY TriageCallIsOK DEF TriageOps, TriageCallOK, ReadOps, EditOps, TicketOps
<1>3. Moves(DetailOps)
  BY <1>1, <1>2, BeginMoves DEF DetailOps, ReadOps
<1>4. c.op \in ReadOps /\ c.finding = f /\ Current(c.seen, f) /\ Founded(c.seen, f)
  BY DEF ReadOps, Current, Founded
<1> HIDE DEF c
<1>5. call[h].op = "idle" /\ call'[h] = c /\ \A g \in Handlers \ {h} : call'[g] = call[g]
  <2>1. call[h] = Idle /\ call' = [call EXCEPT ![h] = c]
    BY <1>1 DEF Begin
  <2> QED BY <2>1, CallAfter, IdleIsOK
<1>6. \A g \in Triaged : ~Clearing(h, g)
  BY <1>5 DEF Clearing
<1> QED BY <1>1, <1>3, <1>4, <1>5, <1>6, ReaderDetails, UnchangedTasks

LEMMA ReadLinkKeeps ==
  ASSUME CallsOK, TasksOK, DetailsOK, NEW h \in Handlers, ReadJiraLink(h)
  PROVE  Moves(DetailOps) /\ TasksStep /\ DetailsOK' /\ UNCHANGED jiraVars
<1> DEFINE c == call[h]
           f == c.finding
<1>1. /\ c.op = "sections" /\ UNCHANGED <<triageVars, taskVars>>
      /\ DOMAIN c = {"op", "finding", "seen"} /\ f \in Triaged /\ DOMAIN c.seen = {"row", "edits", "link"}
  BY DEF ReadJiraLink, At, CallsOK, CallOK, TriageCallOK, ReadOps
<1>2. (f \in raced \/ Current(c.seen, f)) /\ Founded(c.seen, f)
  BY <1>1 DEF DetailsOK, ReadOps
<1> DEFINE read   == [c EXCEPT !.op = "detail", !.seen.link = links[f]]
           unread == [c EXCEPT !.op = "detail"]
<1>3. PICK d \in {read, unread} :
        call' = [call EXCEPT ![h] = d] /\ (UNCHANGED left \/ Count("fault"))
  <2>1. \/ call' = [call EXCEPT ![h] = read] /\ UNCHANGED left
        \/ call' = [call EXCEPT ![h] = unread] /\ Count("fault")
    BY DEF ReadJiraLink, Proceed, CallsOK
  <2> HIDE DEF read, unread
  <2> QED BY <2>1
<1>4. /\ DOMAIN d = DOMAIN c /\ d.op = "detail" /\ d.finding = f
      /\ DOMAIN d.seen = DOMAIN c.seen /\ d.seen.row = c.seen.row /\ d.seen.edits = c.seen.edits
      /\ d.seen.link \in {links[f], c.seen.link}
  <2> DEFINE q == [c.seen EXCEPT !.link = links[f]]
  <2>1. DOMAIN q = DOMAIN c.seen /\ q.row = c.seen.row /\ q.edits = c.seen.edits /\ q.link = links[f]
    BY <1>1
  <2>2. /\ DOMAIN unread = DOMAIN c /\ unread.op = "detail" /\ unread.finding = f
        /\ unread.seen = c.seen
    BY <1>1
  <2>3. /\ DOMAIN read = DOMAIN c /\ read.op = "detail" /\ read.finding = f
        /\ read.seen = q
    BY <1>1, <2>2
  <2> HIDE DEF q, read, unread
  <2> QED BY <1>3, <2>1, <2>2, <2>3
<1>5. (f \in raced \/ Current(d.seen, f)) /\ Founded(d.seen, f)
  BY <1>2, <1>4 DEF Current, Founded
<1>6. CallOK(d)
  BY <1>1, <1>4, TriageCallIsOK DEF TriageOps, TriageCallOK, ReadOps, EditOps, TicketOps
<1>7. left' \in [Kinds -> Nat]
  BY <1>3, CountKeeps DEF CallsOK
<1>8. Moves(DetailOps)
  BY <1>1, <1>3, <1>4, <1>6, <1>7, MoveMoves DEF DetailOps, ReadOps
<1>9. call'[h] = d /\ \A g \in Handlers \ {h} : call'[g] = call[g]
  BY <1>3, CallAfter
<1>10. \A g \in Triaged : ~Clearing(h, g)
  BY <1>1 DEF Clearing
<1>11. d.op \in ReadOps
  BY <1>4 DEF ReadOps
<1> QED BY <1>1, <1>4, <1>5, <1>8, <1>9, <1>10, <1>11, ReaderDetails, UnchangedTasks

LEMMA SetDetailKeeps ==
  ASSUME CallsOK, TasksOK, DetailsOK, NEW h \in Handlers, SetDetail(h)
  PROVE  Moves(DetailOps) /\ TasksStep /\ DetailsOK' /\ UNCHANGED jiraVars
<1> DEFINE c == call[h]
<1>1. /\ c.op = "detail" /\ c.finding \in Triaged /\ Return(h)
      /\ details' = [details EXCEPT ![c.finding] = c.seen]
      /\ UNCHANGED <<rowVars, raced, jiraVars, taskVars>>
  BY DEF SetDetail, At, CallsOK, CallOK, TriageCallOK, ReadOps
<1>2. (c.finding \in raced \/ Current(c.seen, c.finding)) /\ Founded(c.seen, c.finding)
  BY <1>1 DEF DetailsOK, ReadOps
<1>3. Moves(DetailOps)
  BY <1>1, ReturnMoves DEF DetailOps, ReadOps
<1>4. call'[h].op = "idle" /\ \A g \in Handlers \ {h} : call'[g] = call[g]
  BY <1>1, CallAfter, IdleIsOK DEF Return, Proceed
<1>5. \A k \in Handlers, g \in Triaged : Clearing(k, g) => Clearing(k, g)'
  BY <1>1, <1>4 DEF Clearing
<1>6. LinksStay /\ UNCHANGED <<rows, edits>>
  BY <1>1 DEF LinksStay, jiraVars, rowVars
<1>7. /\ DOMAIN details' = Triaged
      /\ \A g \in Triaged : details'[g] = IF g = c.finding THEN c.seen ELSE details[g]
  BY <1>1 DEF DetailsOK
<1>8. \A g \in Triaged :
        \/ details'[g] = Nothing \/ g \in raced' \/ Current(details[g], g)'
        \/ \E k \in Handlers : Clearing(k, g)'
  BY <1>1, <1>2, <1>5, <1>6, <1>7 DEF DetailsOK, Current, Founded, rowVars, LinksStay
<1>9. \A g \in Triaged : details'[g] = Nothing \/ Founded(details[g], g)'
  BY <1>1, <1>2, <1>6, <1>7 DEF DetailsOK, Current, Founded, rowVars, LinksStay
<1>10. ASSUME NEW k \in Handlers, call'[k].op \in ReadOps
       PROVE  /\ call'[k].finding \in Triaged
              /\ call'[k].finding \in raced' \/ Current(call[k].seen, call[k].finding)'
              /\ Founded(call[k].seen, call[k].finding)'
  <2>1. call'[k] = call[k]
    BY <1>4, <1>10 DEF ReadOps
  <2> QED BY <1>1, <1>6, <1>10, <2>1 DEF DetailsOK, Current, Founded, rowVars, LinksStay
<1>11. DetailsOK'
  BY <1>6, <1>7, <1>8, <1>9, <1>10 DEF DetailsOK
<1> QED BY <1>1, <1>3, <1>11, UnchangedTasks

LEMMA ExpireDetailKeeps ==
  ASSUME CallsOK, TasksOK, DetailsOK, NEW f \in Triaged, ExpireDetail(f)
  PROVE  Moves(DetailOps) /\ TasksStep /\ DetailsOK' /\ UNCHANGED jiraVars
<1>1. /\ Count("detail") /\ UNCHANGED call /\ details' = [details EXCEPT ![f] = Nothing]
      /\ UNCHANGED <<rowVars, raced, jiraVars, taskVars>>
  BY DEF ExpireDetail, AtOnce
<1>2. Moves(DetailOps)
  BY <1>1, AtOnceMoves
<1>3. \A k \in Handlers, g \in Triaged : Clearing(k, g) => Clearing(k, g)'
  BY <1>1 DEF Clearing
<1>4. DOMAIN details' = Triaged /\ \A g \in Triaged : details'[g] \in {Nothing, details[g]}
  BY <1>1 DEF DetailsOK
<1>5. DetailsOK'
  BY <1>1, <1>3, <1>4, SameDetails DEF rowVars, jiraVars
<1> QED BY <1>1, <1>2, <1>5, UnchangedTasks

LEMMA ExecuteActionKeeps ==
  ASSUME CallsOK, TasksOK, DetailsOK, NEW f \in Triaged, NEW set, ExecuteAction(f, set)
  PROVE  Moves(DetailOps) /\ TasksStep /\ DetailsOK' /\ UNCHANGED jiraVars
<1>1. /\ Count("policy") /\ UNCHANGED call
      /\ rows' = [rows EXCEPT ![f] = Updated(@, set)] /\ policed' = policed \cup {f}
      /\ UNCHANGED <<edits, details, raced, jiraVars, taskVars>>
  BY DEF ExecuteAction, AtOnce
<1>2. Moves(DetailOps)
  BY <1>1, AtOnceMoves
<1>3. \A g \in Triaged : rows'[g] = rows[g] \/ g \in policed'
  BY <1>1 DEF DetailsOK
<1>4. /\ DOMAIN rows' = Triaged /\ policed \subseteq policed'
      /\ UNCHANGED <<call, edits, details, raced, links>>
  BY <1>1 DEF DetailsOK, jiraVars
<1>5. \A k \in Handlers, g \in Triaged : Clearing(k, g) => Clearing(k, g)'
  BY <1>1 DEF Clearing
<1>6. DetailsOK'
  BY <1>3, <1>4, <1>5 DEF DetailsOK, Current, Founded
<1> QED BY <1>1, <1>2, <1>6, UnchangedTasks

-----------------------------------------------------------------------------
(* Triage: tickets.                                                        *)

LEMMA OtherTickets ==
  ASSUME TicketsOK, NEW ops, ops \cap TicketOps = {}, Moves(ops),
         UNCHANGED <<links, tickets, failed, dropped>>
  PROVE  TicketsOK'
<1>1. \A h \in Handlers : \/ call'[h] = call[h]
                          \/ ~Ticketing(h) /\ ~Ticketing(h)'
  BY DEF Moves, TicketOps, Ticketing
<1>2. \A h \in Handlers : (Ticketing(h)' <=> Ticketing(h)) /\ (Ticketing(h) => call'[h] = call[h])
  BY <1>1 DEF Ticketing
<1>3. \A h \in Handlers : Ticketing(h) => TicketOK(h)
  BY DEF TicketsOK
<1>4. ASSUME NEW h \in Handlers, Ticketing(h)'
      PROVE  TicketOK(h)'
  <2>1. Ticketing(h) /\ call'[h] = call[h] /\ TicketOK(h)
    BY <1>2, <1>3, <1>4
  <2>2. \A g \in Handlers : Ticketing(g)' => Ticketing(g) /\ call'[g] = call[g]
    BY <1>2
  <2> QED BY <2>1, <2>2 DEF TicketOK, At
<1> QED BY <1>2, <1>4 DEF TicketsOK

\* A step of one call changes what is said of its finding only.
LEMMA OneTicket ==
  ASSUME CallsOK, TicketsOK, NEW h \in Handlers, NEW f \in Triaged,
         \A g \in Handlers \ {h} : call'[g] = call[g],
         \A g \in Handlers \ {h} : Ticketing(g) => call[g].finding # f,
         Ticketing(h) => call[h].finding = f,
         links' \in [Triaged -> {"none", "pending", "created"}],
         tickets' \in [Triaged -> Nat], failed' \in [Triaged -> Nat],
         \A g \in Triaged \ {f} :
           links'[g] = links[g] /\ tickets'[g] = tickets[g] /\ failed'[g] = failed[g],
         dropped \subseteq dropped',
         tickets'[f] <= 1 + failed'[f],
         links'[f] = "none" => tickets'[f] <= failed'[f],
         links'[f] = "created" => tickets'[f] > 0,
         links'[f] = "pending" => f \in dropped' \/ Ticketing(h)',
         Ticketing(h)' =>
           /\ call'[h].finding = f /\ links'[f] = "pending"
           /\ IF call'[h].op = "link" THEN tickets'[f] > 0 ELSE tickets'[f] <= failed'[f]
  PROVE  TicketsOK'
<1>1. \A g \in Handlers \ {h} : (Ticketing(g)' <=> Ticketing(g)) /\ call'[g] = call[g]
  BY DEF Ticketing
<1>2. \A g \in Triaged :
        /\ tickets'[g] <= 1 + failed'[g]
        /\ links'[g] = "none" => tickets'[g] <= failed'[g]
        /\ links'[g] = "created" => tickets'[g] > 0
        /\ links'[g] = "pending" =>
             g \in dropped' \/ \E k \in Handlers : Ticketing(k)' /\ call'[k].finding = g
  <2> TAKE g \in Triaged
  <2>1. CASE g = f
    BY <2>1
  <2>2. CASE g # f
    <3>1. \A k \in Handlers : Ticketing(k) /\ call[k].finding = g => Ticketing(k)' /\ call'[k].finding = g
      BY <1>1, <2>2
    <3> QED BY <2>2, <3>1 DEF TicketsOK
  <2> QED BY <2>1, <2>2
<1>3. ASSUME NEW k \in Handlers, Ticketing(k)'
      PROVE  TicketOK(k)'
  <2>1. CASE k = h
    <3>1. \A g \in Handlers : Ticketing(g)' /\ call'[g].finding = f => g = h
      BY <1>1
    <3> QED BY <1>3, <2>1, <3>1 DEF TicketOK, At
  <2>2. CASE k # h
    <3>1. Ticketing(k) /\ call'[k] = call[k] /\ call[k].finding # f /\ TicketOK(k)
      BY <1>1, <1>3, <2>2 DEF TicketsOK
    <3>2. \A g \in Handlers : Ticketing(g)' /\ call'[g].finding = call[k].finding => g = k
      BY <1>1, <3>1 DEF TicketOK
    <3>3. call[k].finding \in Triaged
      BY <3>1 DEF Ticketing, TicketOps, CallsOK, CallOK, TriageCallOK
    <3> QED BY <3>1, <3>2, <3>3 DEF TicketOK, At
  <2> QED BY <2>1, <2>2
<1> QED BY <1>2, <1>3 DEF TicketsOK

LEMMA UpdateJiraKeeps ==
  ASSUME CallsOK, TasksOK, TicketsOK, NEW h \in Handlers, NEW set, UpdateJiraIntegration(h, set)
  PROVE  Moves(JiraOps) /\ TasksStep /\ TicketsOK' /\ UNCHANGED detailVars /\ LinksStay
<1> DEFINE c == [op |-> "integrate", set |-> set, seen |-> jira]
<1>1. Begin("integration", h, c) /\ UNCHANGED <<triageVars, taskVars>>
  BY DEF UpdateJiraIntegration
<1>2. CallOK(c)
  BY TriageCallIsOK DEF TriageOps, TriageCallOK, ReadOps, EditOps, TicketOps
<1>3. Moves({"idle", "integrate"}) /\ Moves(JiraOps)
  BY <1>1, <1>2, BeginMoves DEF JiraOps
<1>4. TicketsOK'
  BY <1>1, <1>3, OtherTickets DEF triageVars, jiraVars, TicketOps
<1> QED BY <1>1, <1>3, <1>4, UnchangedTasks DEF triageVars, jiraVars, LinksStay

LEMMA UpsertJiraKeeps ==
  ASSUME CallsOK, TasksOK, TicketsOK, NEW h \in Handlers, UpsertJiraIntegration(h)
  PROVE  Moves(JiraOps) /\ TasksStep /\ TicketsOK' /\ UNCHANGED detailVars /\ LinksStay
<1>1. /\ call[h].op = "integrate" /\ Return(h)
      /\ UNCHANGED <<detailVars, links, tickets, failed, dropped, taskVars>>
  BY DEF UpsertJiraIntegration, At
<1>2. Moves({"idle", "integrate"}) /\ Moves(JiraOps)
  BY <1>1, ReturnMoves DEF JiraOps
<1>3. TicketsOK'
  BY <1>1, <1>2, OtherTickets DEF TicketOps
<1> QED BY <1>1, <1>2, <1>3, UnchangedTasks DEF LinksStay

\* A call that works for a finding is the only one.
LEMMA TicketOfCall ==
  ASSUME CallsOK, TicketsOK, NEW h \in Handlers, Ticketing(h)
  PROVE  /\ call[h].finding \in Triaged /\ DOMAIN call[h] = {"op", "finding"}
         /\ \A g \in Handlers \ {h} : Ticketing(g) => call[g].finding # call[h].finding
         /\ links[call[h].finding] = "pending"
         /\ tickets[call[h].finding] <= 1 + failed[call[h].finding]
         /\ IF call[h].op = "link" THEN tickets[call[h].finding] > 0
                                   ELSE tickets[call[h].finding] <= failed[call[h].finding]
<1>1. call[h].finding \in Triaged /\ DOMAIN call[h] = {"op", "finding"}
  BY DEF Ticketing, TicketOps, CallsOK, CallOK, TriageCallOK
<1>2. TicketOK(h)
  BY DEF TicketsOK
<1> QED BY <1>1, <1>2 DEF TicketOK, TicketsOK, At

LEMMA ReserveKeeps ==
  ASSUME CallsOK, TasksOK, TicketsOK, NEW h \in Handlers, NEW f \in Triaged, ReserveJiraIssueLink(h, f)
  PROVE  Moves(JiraOps) /\ TasksStep /\ TicketsOK' /\ UNCHANGED detailVars /\ LinksStay
<1> DEFINE c == [op |-> "credentials", finding |-> f]
<1>1. /\ links[f] = "none" /\ links' = [links EXCEPT ![f] = "pending"] /\ Begin("jira", h, c)
      /\ UNCHANGED <<detailVars, jira, tickets, failed, dropped, taskVars>>
  BY DEF ReserveJiraIssueLink
<1>2. CallOK(c)
  BY TriageCallIsOK DEF TriageOps, TriageCallOK, ReadOps, EditOps, TicketOps
<1>3. Moves(JiraOps)
  BY <1>1, <1>2, BeginMoves DEF JiraOps, TicketOps
<1>4. c.op = "credentials" /\ c.finding = f
  OBVIOUS
<1> HIDE DEF c
<1>5. ~Ticketing(h) /\ call'[h] = c /\ \A g \in Handlers \ {h} : call'[g] = call[g]
  BY <1>1, CallAfter, IdleIsOK DEF Begin, Ticketing
<1>6. \A g \in Handlers : Ticketing(g) => call[g].finding # f
  BY <1>1, TicketOfCall
<1>7. tickets[f] <= failed[f] /\ tickets[f] \in Nat /\ failed[f] \in Nat
  BY <1>1 DEF TicketsOK
<1>8. /\ links' \in [Triaged -> {"none", "pending", "created"}] /\ links'[f] = "pending"
      /\ \A g \in Triaged \ {f} : links'[g] = links[g]
      /\ tickets' \in [Triaged -> Nat] /\ failed' \in [Triaged -> Nat]
  BY <1>1 DEF TicketsOK
<1>9. TicketsOK'
  BY <1>1, <1>4, <1>5, <1>6, <1>7, <1>8, OneTicket DEF Ticketing
<1>10. LinksStay
  BY <1>1, <1>8 DEF LinksStay
<1> QED BY <1>1, <1>3, <1>9, <1>10, UnchangedTasks

LEMMA CheckJiraKeeps ==
  ASSUME CallsOK, TasksOK, TicketsOK, NEW h \in Handlers, CheckJiraIntegration(h)
  PROVE  Moves(JiraOps) /\ TasksStep /\ TicketsOK' /\ UNCHANGED detailVars /\ LinksStay
<1> DEFINE f == call[h].finding
<1>1. PICK op \in {"issue", "release"} :
        /\ call' = [call EXCEPT ![h] = [call[h] EXCEPT !.op = op]]
        /\ UNCHANGED left \/ Count("fault")
  BY DEF CheckJiraIntegration, Proceed, CallsOK
<1>2. Ticketing(h) /\ call[h].op = "credentials" /\ UNCHANGED <<triageVars, taskVars>>
  BY DEF CheckJiraIntegration, At, Ticketing
<1>3. /\ f \in Triaged /\ DOMAIN call[h] = {"op", "finding"} /\ links[f] = "pending"
      /\ \A g \in Handlers \ {h} : Ticketing(g) => call[g].finding # f
      /\ tickets[f] <= failed[f] /\ tickets[f] <= 1 + failed[f]
  BY <1>2, TicketOfCall
<1> DEFINE d == [call[h] EXCEPT !.op = op]
<1>4. d.op = op /\ d.finding = f /\ DOMAIN d = {"op", "finding"}
  BY <1>3
<1>5. call' = [call EXCEPT ![h] = d] /\ left' \in [Kinds -> Nat]
  BY <1>1, CountKeeps DEF CallsOK
<1> HIDE DEF d
<1>6. CallOK(d)
  BY <1>3, <1>4, TriageCallIsOK DEF TriageOps, TriageCallOK, ReadOps, EditOps, TicketOps
<1>7. Moves(JiraOps)
  BY <1>2, <1>4, <1>5, <1>6, MoveMoves DEF JiraOps, TicketOps
<1>8. call'[h] = d /\ \A g \in Handlers \ {h} : call'[g] = call[g]
  BY <1>5, CallAfter
<1>9. UNCHANGED <<links, tickets, failed, dropped>>
  BY <1>2 DEF triageVars, jiraVars
<1>10. TicketsOK'
  BY <1>2, <1>3, <1>4, <1>8, <1>9, OneTicket DEF TicketsOK, Ticketing
<1> QED BY <1>2, <1>7, <1>9, <1>10, UnchangedTasks DEF triageVars, LinksStay

LEMMA CreateIssueKeeps ==
  ASSUME CallsOK, TasksOK, TicketsOK, NEW h \in Handlers, CreateJiraIssue(h)
  PROVE  Moves(JiraOps) /\ TasksStep /\ TicketsOK' /\ UNCHANGED detailVars /\ LinksStay
<1> DEFINE f == call[h].finding
<1>1. PICK op \in {"link", "release"} :
        /\ call' = [call EXCEPT ![h] = [call[h] EXCEPT !.op = op]]
        /\ UNCHANGED left \/ Count("fault")
        /\ \/ tickets' = [tickets EXCEPT ![f] = @ + 1] /\ UNCHANGED failed /\ op = "link"
           \/ UNCHANGED <<tickets, failed>> /\ op = "release"
           \/ /\ tickets' = [tickets EXCEPT ![f] = @ + 1] /\ op = "release"
              /\ failed' = [failed EXCEPT ![f] = @ + 1]
  BY DEF CreateJiraIssue, Proceed, CallsOK
<1>2. /\ Ticketing(h) /\ call[h].op = "issue"
      /\ UNCHANGED <<detailVars, jira, links, dropped, taskVars>>
  BY DEF CreateJiraIssue, At, Ticketing
<1>3. /\ f \in Triaged /\ DOMAIN call[h] = {"op", "finding"} /\ links[f] = "pending"
      /\ \A g \in Handlers \ {h} : Ticketing(g) => call[g].finding # f
      /\ tickets[f] <= failed[f]
  BY <1>2, TicketOfCall
<1> DEFINE d == [call[h] EXCEPT !.op = op]
<1>4. d.op = op /\ d.finding = f /\ DOMAIN d = {"op", "finding"}
  BY <1>3
<1>5. call' = [call EXCEPT ![h] = d] /\ left' \in [Kinds -> Nat]
  BY <1>1, CountKeeps DEF CallsOK
<1> HIDE DEF d
<1>6. CallOK(d)
  BY <1>3, <1>4, TriageCallIsOK DEF TriageOps, TriageCallOK, ReadOps, EditOps, TicketOps
<1>7. Moves(JiraOps)
  BY <1>2, <1>4, <1>5, <1>6, MoveMoves DEF JiraOps, TicketOps
<1>8. call'[h] = d /\ \A g \in Handlers \ {h} : call'[g] = call[g]
  BY <1>5, CallAfter
<1>9. /\ tickets' \in [Triaged -> Nat] /\ failed' \in [Triaged -> Nat]
      /\ \A g \in Triaged \ {f} : tickets'[g] = tickets[g] /\ failed'[g] = failed[g]
      /\ tickets'[f] <= 1 + failed'[f]
      /\ IF op = "link" THEN tickets'[f] > 0 ELSE tickets'[f] <= failed'[f]
  BY <1>1, <1>3 DEF TicketsOK
<1>10. TicketsOK'
  BY <1>2, <1>3, <1>4, <1>8, <1>9, OneTicket DEF TicketsOK, Ticketing
<1> QED BY <1>2, <1>7, <1>10, UnchangedTasks DEF LinksStay

LEMMA EndTicketKeeps ==
  ASSUME CallsOK, TasksOK, TicketsOK, NEW h \in Handlers,
         UpsertJiraIssueLink(h) \/ DeleteJiraIssueLink(h)
  PROVE  Moves(JiraOps) /\ TasksStep /\ TicketsOK' /\ UNCHANGED detailVars /\ LinksStay
<1> DEFINE f == call[h].finding
<1>1. /\ Ticketing(h) /\ call[h].op \in {"link", "release"} /\ Return(h)
      /\ links' = [links EXCEPT ![f] = IF call[h].op = "link" THEN "created" ELSE "none"]
      /\ UNCHANGED <<detailVars, jira, tickets, failed, dropped, taskVars>>
  BY DEF UpsertJiraIssueLink, DeleteJiraIssueLink, At, Ticketing
<1>2. /\ f \in Triaged /\ links[f] = "pending"
      /\ \A g \in Handlers \ {h} : Ticketing(g) => call[g].finding # f
      /\ tickets[f] <= 1 + failed[f]
      /\ IF call[h].op = "link" THEN tickets[f] > 0 ELSE tickets[f] <= failed[f]
  BY <1>1, TicketOfCall
<1>3. Moves(JiraOps)
  BY <1>1, ReturnMoves DEF JiraOps, TicketOps
<1>4. ~Ticketing(h)' /\ \A g \in Handlers \ {h} : call'[g] = call[g]
  <2>1. call'[h] = Idle /\ \A g \in Handlers \ {h} : call'[g] = call[g]
    BY <1>1, CallAfter DEF Return, Proceed
  <2> QED BY <2>1, IdleIsOK DEF Ticketing
<1>5. /\ links' \in [Triaged -> {"none", "pending", "created"}]
      /\ links'[f] = IF call[h].op = "link" THEN "created" ELSE "none"
      /\ \A g \in Triaged \ {f} : links'[g] = links[g]
      /\ tickets' \in [Triaged -> Nat] /\ failed' \in [Triaged -> Nat]
  BY <1>1, <1>2 DEF TicketsOK
<1>6. TicketsOK'
  BY <1>1, <1>2, <1>4, <1>5, OneTicket
<1>7. LinksStay
  BY <1>2, <1>5 DEF LinksStay
<1> QED BY <1>1, <1>3, <1>6, <1>7, UnchangedTasks

LEMMA HandleKeeps ==
  ASSUME CallsOK, TasksOK, DetailsOK, TicketsOK, TriageNext
  PROVE  Moves(TriageOps) /\ TasksStep /\ DetailsOK' /\ TicketsOK'
<1>1. ASSUME Moves(DetailOps) /\ TasksStep /\ DetailsOK' /\ UNCHANGED jiraVars
      PROVE  Moves(TriageOps) /\ TasksStep /\ DetailsOK' /\ TicketsOK'
  <2>1. DetailOps \cap TicketOps = {}
    BY DEF DetailOps, ReadOps, TicketOps, EditOps
  <2>2. TicketsOK'
    BY <1>1, <2>1, OtherTickets DEF jiraVars
  <2> QED BY <1>1, <2>2, TriageOpsSplit DEF Moves
<1>2. ASSUME Moves(JiraOps) /\ TasksStep /\ TicketsOK' /\ UNCHANGED detailVars /\ LinksStay
      PROVE  Moves(TriageOps) /\ TasksStep /\ DetailsOK' /\ TicketsOK'
  <2>1. JiraOps \cap CacheOps = {}
    BY DEF JiraOps, TicketOps, CacheOps, ReadOps
  <2>2. DetailsOK'
    BY <1>2, <2>1, OtherDetails
  <2> QED BY <1>2, <2>2, TriageOpsSplit DEF Moves
<1>3. CASE \E h \in Handlers, f \in Triaged :
             \/ \E set \in Changes : UpdateFinding(h, f, set)
             \/ GetFindingDetail(h, f) \/ ReserveJiraIssueLink(h, f)
  BY <1>1, <1>2, <1>3, UpdateFindingKeeps, GetDetailKeeps, ReserveKeeps
<1>4. CASE \E h \in Handlers :
             \/ \E chosen \in SUBSET Triaged \ {{}}, set \in Changes : BulkUpdateFindings(h, chosen, set)
             \/ UpdateRow(h) \/ ReadOldOwner(h) \/ DropDetail(h) \/ NotifyOwner(h)
             \/ ReadJiraLink(h) \/ SetDetail(h)
  BY <1>1, <1>4, BulkUpdateKeeps, UpdateRowKeeps, ReadOldOwnerKeeps, DropDetailKeeps, NotifyOwnerKeeps,
     ReadLinkKeeps, SetDetailKeeps
<1>5. CASE \E h \in Handlers :
             \/ \E set \in JiraChanges : UpdateJiraIntegration(h, set)
             \/ UpsertJiraIntegration(h)
             \/ CheckJiraIntegration(h) \/ CreateJiraIssue(h)
             \/ UpsertJiraIssueLink(h) \/ DeleteJiraIssueLink(h)
  BY <1>2, <1>5, UpdateJiraKeeps, UpsertJiraKeeps, CheckJiraKeeps, CreateIssueKeeps, EndTicketKeeps
<1>6. CASE \/ \E mentioned \in SUBSET Members : CreateFindingComment(mentioned)
           \/ \E f \in Triaged : ExpireDetail(f) \/ \E set \in PolicyActions : ExecuteAction(f, set)
  BY <1>1, <1>6, CommentKeeps, ExpireDetailKeeps, ExecuteActionKeeps
<1> QED BY <1>3, <1>4, <1>5, <1>6 DEF TriageNext

LEMMA CutOffTriage ==
  ASSUME CallsOK, DetailsOK, TicketsOK, NEW h \in Handlers, CutOff(h), TriageCutOff(h)
  PROVE  DetailsOK' /\ TicketsOK'
<1>1. call'[h] = Idle /\ \A g \in Handlers \ {h} : call'[g] = call[g]
  BY CallAfter DEF CutOff
<1>2. call'[h].op = "idle" /\ ~Ticketing(h)'
  BY <1>1, IdleIsOK DEF Ticketing
<1>3. DetailsOK'
  <2>1. /\ raced \subseteq raced' /\ \A f \in Triaged : Clearing(h, f) => f \in raced'
        /\ UNCHANGED <<rows, edits, policed, links, details>>
    BY DEF TriageCutOff, Clearing, rowVars
  <2>2. \A k \in Handlers, g \in Triaged : Clearing(k, g) => Clearing(k, g)' \/ g \in raced'
    BY <1>1, <2>1 DEF Clearing
  <2>3. \A k \in Handlers : call'[k].op \in ReadOps => call'[k] = call[k]
    BY <1>1, <1>2 DEF ReadOps
  <2>4. DOMAIN details' = Triaged
    BY <2>1 DEF DetailsOK
  <2> QED BY <2>1, <2>2, <2>3, <2>4, SameDetails
<1>4. CASE Ticketing(h)
  <2> DEFINE f == call[h].finding
  <2>1. /\ f \in Triaged /\ links[f] = "pending" /\ tickets[f] <= 1 + failed[f]
        /\ \A g \in Handlers \ {h} : Ticketing(g) => call[g].finding # f
    BY <1>4, TicketOfCall
  <2>2. dropped' = dropped \cup {f} /\ UNCHANGED <<links, tickets, failed>>
    BY <1>4 DEF TriageCutOff
  <2>3. TicketsOK'
    BY <1>1, <1>2, <2>1, <2>2, OneTicket DEF TicketsOK
  <2> QED BY <1>3, <2>3
<1>5. CASE ~Ticketing(h)
  <2>1. /\ UNCHANGED <<links, tickets, failed, dropped>>
        /\ \A k \in Handlers : Ticketing(k) => call'[k] = call[k]
        /\ \A k \in Handlers : Ticketing(k)' <=> Ticketing(k)
    BY <1>1, <1>2, <1>5 DEF TriageCutOff, Ticketing
  <2>2. ASSUME NEW k \in Handlers, Ticketing(k)'
        PROVE  TicketOK(k)'
    <3>1. TicketOK(k) /\ call'[k] = call[k]
      BY <2>1, <2>2 DEF TicketsOK
    <3> QED BY <2>1, <3>1 DEF TicketOK, At
  <2>3. TicketsOK'
    BY <2>1, <2>2 DEF TicketsOK
  <2> QED BY <1>3, <2>3
<1> QED BY <1>4, <1>5

LEMMA AtMostOne ==
  ASSUME NEW S, \A x, y \in S : x = y
  PROVE  Cardinality(S) <= 1
<1>1. CASE S = {}
  BY <1>1, FS_EmptySet
<1>2. ASSUME NEW x \in S PROVE Cardinality(S) <= 1
  <2>1. S = {x}
    BY <1>2
  <2> QED BY <2>1, FS_Singleton
<1> QED BY <1>1, <1>2

LEMMA TriageProperties ==
  ASSUME DetailsOK, TicketsOK
  PROVE  DetailIsFresh /\ TicketsAreLinked
<1>1. DetailIsFresh
  BY DEF DetailsOK, Clearing, Current, Founded, DetailIsFresh
<1>2. ASSUME NEW f \in Triaged
      PROVE  Cardinality({h \in Handlers : Ticketing(h) /\ call[h].finding = f}) <= 1
  BY AtMostOne DEF TicketsOK, TicketOK
<1>3. TicketsAreLinked
  BY <1>2 DEF TicketsOK, TicketsAreLinked
<1> QED BY <1>1, <1>3

-----------------------------------------------------------------------------
(* Threats.                                                                *)

\* What the call of a sync is about to announce.
FreshOf(c) == IF c.op = "reconcile" THEN c.fresh ELSE {}

LEMMA AnnouncingIs ==
  \A k : k \in Announcing <=> \E h \in Handlers : k \in FreshOf(call[h])
BY DEF Announcing, FreshOf, At

LEMMA OtherThreats ==
  ASSUME InventoryOK, HitsOK, NEW ops, ops \cap ThreatOps \subseteq {"idle"}, Moves(ops), UNCHANGED threatVars
  PROVE  InventoryOK' /\ HitsOK'
<1>1. \A h \in Handlers : \/ call'[h] = call[h]
                          \/ call[h].op \notin ThreatOps \ {"idle"} /\ call'[h].op \notin ThreatOps \ {"idle"}
  BY DEF Moves
<1>2. UNCHANGED <<inventory, hits, reported, lost>>
  BY DEF threatVars
<1>3. \A h \in Handlers : At(h, "replace") \/ At(h, "replace")' => call'[h] = call[h]
  BY <1>1 DEF At, ThreatOps, VisitOps
<1>4. \A p : /\ Replacing(p)' = Replacing(p)
             /\ \A A \in SUBSET Replacing(p) : UnseenBy(p, A)' = UnseenBy(p, A)
  <2> TAKE p
  <2>1. Replacing(p)' = Replacing(p)
    BY <1>3 DEF Replacing, At
  <2>2. ASSUME NEW A \in SUBSET Replacing(p)
        PROVE  UnseenBy(p, A)' = UnseenBy(p, A)
    <3>1. \A h \in A : call'[h] = call[h]
      BY <1>3 DEF Replacing
    <3> QED BY <1>2, <3>1 DEF UnseenBy
  <2> QED BY <2>1, <2>2
<1>5. InventoryOK'
  BY <1>2, <1>4 DEF InventoryOK
<1>6. \A h \in Handlers : FreshOf(call[h])' = FreshOf(call[h])
  BY <1>1 DEF FreshOf, ThreatOps
<1>7. Announcing' = Announcing
  BY <1>1 DEF Announcing, At, ThreatOps
<1>8. ASSUME NEW h \in Handlers
      PROVE  HitCallOK(call[h])'
  BY <1>1, <1>2 DEF HitsOK, HitCallOK, ThreatOps, VisitOps
<1>9. HitsOK'
  BY <1>2, <1>7, <1>8 DEF HitsOK
<1> QED BY <1>5, <1>9

\* A call that goes on without having replaced the inventory.
LEMMA OtherInventory ==
  ASSUME InventoryOK, UNCHANGED inventory,
         \A g \in Handlers : At(g, "replace")' => At(g, "replace") /\ call'[g] = call[g]
  PROVE  InventoryOK'
<1>1. ASSUME NEW p \in Scanned, NEW A \in SUBSET (Replacing(p)')
      PROVE  A \in SUBSET Replacing(p) /\ UnseenBy(p, A)' = UnseenBy(p, A)
  <2>1. \A g \in A : g \in Replacing(p) /\ call'[g] = call[g]
    BY DEF Replacing
  <2> QED BY <2>1 DEF UnseenBy
<1>2. ASSUME NEW p \in Scanned
      PROVE  (\A A \in SUBSET Replacing(p) : Cardinality(UnseenBy(p, A)) + Cardinality(A) <= Cardinality(Handlers))'
  <2>1. \A A \in SUBSET (Replacing(p)') : Cardinality(UnseenBy(p, A)') + Cardinality(A) <= Cardinality(Handlers)
    BY <1>1 DEF InventoryOK
  <2> QED BY <2>1
<1> QED BY <1>2 DEF InventoryOK

\* A step of one sync, which announces or has lost what it was about to.
LEMMA HitsGrow ==
  ASSUME CallsOK, HitsOK, NEW h \in Handlers, NEW c, call' = [call EXCEPT ![h] = c],
         hits \subseteq hits', reported \subseteq reported', lost \subseteq lost',
         HitCallOK(c)',
         FreshOf(call[h]) \subseteq reported' \cup lost' \cup FreshOf(c),
         hits' \subseteq hits \cup FreshOf(c)
  PROVE  HitsOK'
<1>1. call'[h] = c /\ \A g \in Handlers \ {h} : call'[g] = call[g]
  BY CallAfter
<1>2. ASSUME NEW g \in Handlers
      PROVE  HitCallOK(call[g])'
  <2>1. CASE g = h
    BY <1>1, <2>1 DEF HitCallOK
  <2>2. CASE g # h
    BY <1>1, <2>2 DEF HitsOK, HitCallOK
  <2> QED BY <2>1, <2>2
<1>3. ASSUME NEW k \in hits'
      PROVE  k \in reported' \cup lost' \/ \E g \in Handlers : k \in FreshOf(call[g])'
  <2>1. \A x \in FreshOf(c) : x \in FreshOf(call[h])'
    BY <1>1 DEF FreshOf
  <2>2. CASE k \in FreshOf(c)
    BY <2>1, <2>2
  <2>3. CASE k \in hits
    <3>1. k \in reported \cup lost \/ \E g \in Handlers : k \in FreshOf(call[g])
      BY <2>3, AnnouncingIs DEF HitsOK
    <3>2. ASSUME NEW g \in Handlers, k \in FreshOf(call[g])
          PROVE  k \in reported' \cup lost' \/ \E x \in Handlers : k \in FreshOf(call[x])'
      <4>1. CASE g = h
        BY <2>1, <3>2, <4>1
      <4>2. CASE g # h
        BY <1>1, <3>2, <4>2 DEF FreshOf
      <4> QED BY <4>1, <4>2
    <3> QED BY <3>1, <3>2
  <2> QED BY <2>2, <2>3
<1>4. (\A k : k \in Announcing <=> \E g \in Handlers : k \in FreshOf(call[g]))'
  BY DEF Announcing, FreshOf, At
<1>5. hits' \subseteq reported' \cup lost' \cup Announcing'
  BY <1>3, <1>4
<1> QED BY <1>2, <1>5 DEF HitsOK

ThreatStep == Moves(ThreatOps) /\ InventoryOK' /\ HitsOK'

VisitFields == {"op", "id", "todo", "kev", "project", "known", "inv", "seen", "found", "advs"}

ReconcileFields == {"op", "id", "todo", "kev", "project", "known", "fresh", "prior", "matched"}

\* A sync goes on; `c` is its call then.
LEMMA SyncGoesOn ==
  ASSUME CallsOK, InventoryOK, HitsOK, NEW h \in Handlers, NEW c, call' = [call EXCEPT ![h] = c],
         left' \in [Kinds -> Nat], call[h].op \in ThreatOps,
         c.op \in ThreatOps \ {"replace"}, c.op = "idle" => c = Idle, "op" \in DOMAIN c, ThreatCallOK(c),
         UNCHANGED inventory,
         hits \subseteq hits', reported \subseteq reported', lost \subseteq lost', HitCallOK(c)',
         FreshOf(call[h]) \subseteq reported' \cup lost' \cup FreshOf(c), hits' \subseteq hits \cup FreshOf(c)
  PROVE  ThreatStep
<1>1. CallOK(c)
  BY ThreatCallIsOK, IdleIsOK
<1>2. Moves(ThreatOps)
  BY <1>1, MoveMoves
<1>3. call'[h] = c /\ \A g \in Handlers \ {h} : call'[g] = call[g]
  BY CallAfter
<1>4. InventoryOK'
  BY <1>3, OtherInventory DEF At
<1>5. HitsOK'
  BY HitsGrow
<1> QED BY <1>2, <1>4, <1>5 DEF ThreatStep

LEMMA SyncCall ==
  ASSUME CallsOK, HitsOK, NEW h \in Handlers
  PROVE  /\ ThreatCallOK(call[h]) /\ HitCallOK(call[h]) /\ left \in [Kinds -> Nat]
         /\ call[h].op \in VisitOps => DOMAIN call[h] = VisitFields /\ FreshOf(call[h]) = {}
         /\ call[h].op = "reconcile" => DOMAIN call[h] = ReconcileFields /\ FreshOf(call[h]) = call[h].fresh
BY DEF CallsOK, CallOK, HitsOK, ThreatCallOK, VisitFields, ReconcileFields, FreshOf, VisitOps

LEMMA PushKeeps ==
  ASSUME CallsOK, InventoryOK, HitsOK, NEW p, NEW content, Push(p, content)
  PROVE  ThreatStep
<1>1. Moves({}) /\ Moves(ThreatOps) /\ UNCHANGED <<inventory, hits, reported, lost, call>>
  BY AtOnceMoves DEF Push, AtOnce
<1>2. InventoryOK'
  BY <1>1, OtherInventory DEF At
<1>3. Announcing' = Announcing /\ \A h \in Handlers : HitCallOK(call[h])' <=> HitCallOK(call[h])
  BY <1>1 DEF Announcing, At, HitCallOK
<1>4. HitsOK'
  BY <1>1, <1>3 DEF HitsOK
<1> QED BY <1>1, <1>2, <1>4 DEF ThreatStep

LEMMA StartSyncKeeps ==
  ASSUME CallsOK, InventoryOK, HitsOK, NEW h \in Handlers, SyncThreatIntel(h)
  PROVE  ThreatStep
<1>1. PICK kev, c : c = [op |-> "sync", id |-> left["sync"], todo |-> Scanned, kev |-> kev] /\ Begin("sync", h, c)
  BY DEF SyncThreatIntel
<1>2. /\ c.op = "sync" /\ DOMAIN c = {"op", "id", "todo", "kev"} /\ c.todo = Scanned
  BY <1>1
<1>3. /\ call' = [call EXCEPT ![h] = c] /\ call[h] = Idle /\ UNCHANGED threatVars
      /\ left' \in [Kinds -> Nat]
  BY <1>1, CountKeeps DEF SyncThreatIntel, Begin, CallsOK
<1>4. ThreatCallOK(c) /\ HitCallOK(c)'
  BY <1>2 DEF ThreatCallOK, HitCallOK, VisitOps
<1>5. FreshOf(call[h]) = {} /\ call[h].op \in ThreatOps
  BY <1>3, IdleIsOK DEF FreshOf, ThreatOps
<1>6. c.op \in ThreatOps \ {"replace", "idle"} /\ "op" \in DOMAIN c
  BY <1>2 DEF ThreatOps
<1> QED BY <1>3, <1>4, <1>5, <1>6, SyncGoesOn DEF threatVars

LEMMA ProjectKeeps ==
  ASSUME CallsOK, InventoryOK, HitsOK, NEW h \in Handlers, SyncProject(h)
  PROVE  ThreatStep
<1>0. PICK k, known : k = call[h] /\ known = hits
  OBVIOUS
<1>1. /\ call[h].op = "sync" /\ k.op = "sync" /\ k.todo \subseteq Scanned /\ DOMAIN k = {"op", "id", "todo", "kev"}
      /\ UNCHANGED threatVars /\ FreshOf(call[h]) = {}
      /\ left \in [Kinds -> Nat] /\ call[h].op \in ThreatOps
  BY <1>0, SyncCall DEF SyncProject, At, ThreatCallOK, FreshOf, ThreatOps
<1>2. CASE Return(h)
  <2>1. ThreatCallOK(Idle) /\ HitCallOK(Idle)' /\ Idle.op \in ThreatOps \ {"replace"}
    BY IdleIsOK DEF CallOK, HitCallOK, VisitOps, ThreatOps
  <2>2. call' = [call EXCEPT ![h] = Idle] /\ left' = left /\ "op" \in DOMAIN Idle
    BY <1>2 DEF Return, Proceed, Idle
  <2> QED BY <1>1, <2>1, <2>2, SyncGoesOn DEF threatVars
<1>3. ASSUME NEW p \in k.todo, NEW inv, Proceed(h, Visiting(k, p, inv))
      PROVE  ThreatStep
  <2>0. PICK c : c = [op |-> "clear", id |-> k.id, todo |-> k.todo \ {p}, kev |-> k.kev, project |-> p,
                      known |-> known, inv |-> inv, seen |-> {}, found |-> {}, advs |-> {}]
    OBVIOUS
  <2>1. call' = [call EXCEPT ![h] = c] /\ left' = left
    BY <1>0, <1>3, <2>0 DEF Visiting, Proceed
  <2>2. c.op = "clear" /\ DOMAIN c = VisitFields /\ c.project = p /\ c.todo = k.todo \ {p} /\ c.known = known
    BY <2>0 DEF VisitFields
  <2>3. ThreatCallOK(c)
    BY <1>1, <2>2 DEF ThreatCallOK, VisitFields
  <2>4. HitCallOK(c)'
    BY <1>0, <1>1, <2>2 DEF HitCallOK, threatVars
  <2>5. c.op \in ThreatOps \ {"replace", "idle"} /\ "op" \in DOMAIN c
    BY <2>2 DEF ThreatOps, VisitOps, VisitFields
  <2> QED BY <1>1, <2>1, <2>3, <2>4, <2>5, SyncGoesOn DEF threatVars
<1>4. ASSUME NEW p \in k.todo, Proceed(h, [k EXCEPT !.todo = @ \ {p}])
      PROVE  ThreatStep
  <2>0. PICK c : c = [k EXCEPT !.todo = @ \ {p}]
    OBVIOUS
  <2>1. call' = [call EXCEPT ![h] = c] /\ left' = left
    BY <1>4, <2>0 DEF Proceed
  <2>2. c.op = "sync" /\ DOMAIN c = {"op", "id", "todo", "kev"} /\ c.todo = k.todo \ {p}
    BY <1>1, <2>0
  <2>3. ThreatCallOK(c) /\ HitCallOK(c)'
    BY <1>1, <2>2 DEF ThreatCallOK, HitCallOK, VisitOps
  <2>4. c.op \in ThreatOps \ {"replace", "idle"} /\ "op" \in DOMAIN c
    BY <2>2 DEF ThreatOps
  <2> QED BY <1>1, <2>1, <2>3, <2>4, SyncGoesOn DEF threatVars
<1>5. \/ Return(h)
      \/ \E p \in k.todo : \/ \E inv : Proceed(h, Visiting(k, p, inv))
                           \/ Proceed(h, [k EXCEPT !.todo = @ \ {p}])
  <2>1. CASE k.todo = {} /\ Return(h)
    BY <2>1
  <2>2. ASSUME NEW p \in k.todo, NEW there, NEW inv,
               Proceed(h, IF there THEN Visiting(k, p, inv) ELSE [k EXCEPT !.todo = @ \ {p}])
        PROVE  \/ Proceed(h, Visiting(k, p, inv))
               \/ Proceed(h, [k EXCEPT !.todo = @ \ {p}])
    <3>1. CASE there
      BY <2>2, <3>1, Zenon
    <3>2. CASE ~there
      BY <2>2, <3>2, Zenon
    <3> QED BY <3>1, <3>2
  <2> QED BY <1>0, <2>1, <2>2, Zenon DEF SyncProject
<1> QED BY <1>2, <1>3, <1>4, <1>5

\* A sync that skips a project, or stops after the announcement.
LEMMA LeaveProject ==
  ASSUME CallsOK, InventoryOK, HitsOK, NEW h \in Handlers, call[h].op \in VisitOps \cup {"reconcile"},
         call' = [call EXCEPT ![h] = BetweenProjects(call[h])], left' \in [Kinds -> Nat],
         UNCHANGED <<inventory, hits>>, reported \subseteq reported', lost \subseteq lost',
         FreshOf(call[h]) \subseteq reported' \cup lost'
  PROVE  ThreatStep
<1>0. PICK k, c : k = call[h] /\ c = BetweenProjects(k)
  OBVIOUS
<1>1. c.op = "sync" /\ DOMAIN c = {"op", "id", "todo", "kev"} /\ c.todo = k.todo
  BY <1>0 DEF BetweenProjects
<1>2. k.todo \subseteq Scanned
  BY <1>0, SyncCall DEF ThreatCallOK
<1>3. ThreatCallOK(c) /\ HitCallOK(c)'
  BY <1>1, <1>2 DEF ThreatCallOK, HitCallOK, VisitOps
<1>4. c.op \in ThreatOps \ {"replace", "idle"} /\ "op" \in DOMAIN c /\ call[h].op \in ThreatOps
  BY <1>1 DEF ThreatOps
<1> QED BY <1>0, <1>3, <1>4, SyncGoesOn

LEMMA SkipKeeps ==
  ASSUME CallsOK, InventoryOK, HitsOK, NEW h \in Handlers, SkipProject(h)
  PROVE  ThreatStep
<1>1. /\ call[h].op \in VisitOps \cup {"reconcile"} /\ left' \in [Kinds -> Nat]
      /\ call' = [call EXCEPT ![h] = BetweenProjects(call[h])]
      /\ UNCHANGED <<inventory, hits, reported>> /\ lost \subseteq lost'
  BY SyncCall, CountKeeps DEF SkipProject, ThreatsCutOff, VisitOps
<1>2. FreshOf(call[h]) \subseteq lost'
  BY DEF SkipProject, ThreatsCutOff, FreshOf, At
<1> QED BY <1>1, <1>2, LeaveProject

LEMMA AnnounceKeeps ==
  ASSUME CallsOK, InventoryOK, HitsOK, NEW h \in Handlers, NotifyForHits(h)
  PROVE  ThreatStep
<1>1. /\ call[h].op \in VisitOps \cup {"reconcile"} /\ left' \in [Kinds -> Nat]
      /\ call' = [call EXCEPT ![h] = BetweenProjects(call[h])]
      /\ UNCHANGED <<inventory, hits, lost>> /\ reported' = reported \cup call[h].fresh
  BY SyncCall DEF NotifyForHits, Proceed, At
<1>2. FreshOf(call[h]) \subseteq reported'
  BY <1>1, SyncCall DEF NotifyForHits, At
<1> QED BY <1>1, <1>2, LeaveProject

\* What becomes of a visit; the first has seen the inventory as it is.
Deleted(k, seen) == [k EXCEPT !.op = "replace", !.seen = seen]

Queried(k, found, advs) == [k EXCEPT !.op = "advise", !.found = found, !.advs = advs]

LEMMA DeletedForm ==
  ASSUME NEW k, DOMAIN k = VisitFields, NEW seen, NEW c, c = Deleted(k, seen)
  PROVE  /\ c.op = "replace" /\ DOMAIN c = VisitFields /\ c.seen = seen
         /\ c.project = k.project /\ c.todo = k.todo /\ c.known = k.known
BY DEF Deleted, VisitFields

LEMMA QueriedForm ==
  ASSUME NEW k, DOMAIN k = VisitFields, NEW found, NEW advs, NEW c, c = Queried(k, found, advs)
  PROVE  /\ c.op = "advise" /\ DOMAIN c = VisitFields
         /\ c.project = k.project /\ c.todo = k.todo /\ c.known = k.known
<1>1. k = [x \in DOMAIN k |-> k[x]] \/ TRUE
  OBVIOUS
<1>2. c.op = "advise"
  BY DEF Queried, VisitFields
<1>3. DOMAIN c = VisitFields
  BY DEF Queried
<1>4. c.project = k.project /\ c.todo = k.todo /\ c.known = k.known
  BY DEF Queried, VisitFields
<1> QED BY <1>2, <1>3, <1>4

LEMMA VisitIsOK ==
  ASSUME CallsOK, HitsOK, NEW h \in Handlers, call[h].op \in VisitOps, hits' = hits,
         NEW c, c.op \in VisitOps, DOMAIN c = VisitFields,
         c.project = call[h].project, c.todo = call[h].todo, c.known = call[h].known
  PROVE  ThreatCallOK(c) /\ HitCallOK(c)' /\ CallOK(c) /\ "op" \in DOMAIN c /\ c.op \in ThreatOps \ {"idle"}
<1>1. ThreatCallOK(call[h]) /\ HitCallOK(call[h])
  BY SyncCall
<1>2. "op" \in DOMAIN c /\ c.op \in ThreatOps \ {"idle"}
  BY DEF VisitFields, ThreatOps, VisitOps
<1>3. ThreatCallOK(c)
  BY <1>1 DEF ThreatCallOK, VisitFields, VisitOps
<1>4. HitCallOK(c)'
  BY <1>1 DEF HitCallOK, VisitOps
<1> QED BY <1>2, <1>3, <1>4, ThreatCallIsOK

\* The DELETE sees all that is there.
LEMMA DeleteKeeps ==
  ASSUME CallsOK, InventoryOK, HitsOK, NEW h \in Handlers, ClearDependencies(h)
  PROVE  ThreatStep
<1>0. PICK k, c : k = call[h] /\ c = Deleted(k, inventory[k.project])
  OBVIOUS
<1>1. /\ call[h].op = "clear" /\ call[h].op \in VisitOps /\ UNCHANGED threatVars
      /\ call' = [call EXCEPT ![h] = c] /\ left' = left /\ left \in [Kinds -> Nat]
      /\ DOMAIN k = VisitFields /\ call[h].op \in ThreatOps /\ FreshOf(call[h]) = {}
  BY <1>0, SyncCall DEF ClearDependencies, Deleted, Proceed, At, VisitOps, ThreatOps
<1>2. /\ c.op = "replace" /\ DOMAIN c = VisitFields /\ c.seen = inventory[c.project]
      /\ c.project = k.project /\ c.todo = k.todo /\ c.known = k.known
  BY <1>0, <1>1, DeletedForm
<1>3. UNCHANGED <<inventory, hits, reported, lost>>
  BY <1>1 DEF threatVars
<1>4. HitCallOK(c)' /\ CallOK(c) /\ c.op \in ThreatOps \ {"idle"}
  BY <1>0, <1>1, <1>2, <1>3, VisitIsOK DEF VisitOps
<1>5. Moves(ThreatOps)
  BY <1>1, <1>4, MoveMoves
<1>6. HitsOK'
  BY <1>1, <1>3, <1>4, HitsGrow
<1>7. call'[h] = c /\ \A g \in Handlers \ {h} : call'[g] = call[g]
  BY <1>1, CallAfter
<1>8. ASSUME NEW p \in Scanned, NEW A \in SUBSET (Replacing(p)')
      PROVE  Cardinality(UnseenBy(p, A)') + Cardinality(A) <= Cardinality(Handlers)
  <2>1. CASE h \in A
    <3>1. c.project = p /\ c.seen = inventory[p]
      BY <1>2, <1>7, <2>1 DEF Replacing
    <3>2. UnseenBy(p, A)' = {}
      BY <1>3, <1>7, <2>1, <3>1 DEF UnseenBy
    <3>3. IsFiniteSet(Handlers) /\ A \in SUBSET Handlers
      BY Constants DEF Replacing
    <3>4. Cardinality(A) \in Nat /\ Cardinality(A) <= Cardinality(Handlers)
      BY <3>3, FS_Subset, FS_CardinalityType
    <3> QED BY <3>2, <3>4, FS_EmptySet
  <2>2. CASE h \notin A
    <3>1. A \in SUBSET Replacing(p)
      BY <1>7, <2>2 DEF Replacing, At
    <3>2. UnseenBy(p, A)' = UnseenBy(p, A)
      <4>1. \A g \in A : call'[g] = call[g]
        BY <1>7, <2>2, <3>1 DEF Replacing
      <4> QED BY <1>3, <4>1 DEF UnseenBy
    <3> QED BY <3>1, <3>2 DEF InventoryOK
  <2> QED BY <2>1, <2>2
<1>9. ASSUME NEW p \in Scanned
      PROVE  (\A A \in SUBSET Replacing(p) : Cardinality(UnseenBy(p, A)) + Cardinality(A) <= Cardinality(Handlers))'
  BY <1>8
<1>10. InventoryOK'
  BY <1>3, <1>9 DEF InventoryOK
<1> QED BY <1>5, <1>6, <1>10 DEF ThreatStep

\* What was committed since stays, and the own rows come.
LEMMA UpsertKeeps ==
  ASSUME CallsOK, InventoryOK, HitsOK, NEW h \in Handlers, UpsertDependencies(h)
  PROVE  ThreatStep
<1>0. PICK k, c, q, row : /\ k = call[h] /\ c = [k EXCEPT !.op = "query"]
                          /\ q = k.project /\ row = [by |-> k.id, deps |-> k.inv]
  OBVIOUS
<1>1. /\ call[h].op = "replace" /\ call[h].op \in VisitOps /\ UNCHANGED <<hits, reported, lost>>
      /\ call' = [call EXCEPT ![h] = c] /\ left' = left /\ left \in [Kinds -> Nat]
      /\ inventory' = [inventory EXCEPT ![q] = (@ \ k.seen) \cup {row}]
      /\ DOMAIN k = VisitFields /\ call[h].op \in ThreatOps /\ FreshOf(call[h]) = {} /\ q \in Scanned
  BY <1>0, SyncCall DEF UpsertDependencies, Proceed, At, VisitOps, ThreatOps, ThreatCallOK
<1>2. c.op = "query" /\ DOMAIN c = VisitFields /\ c.project = k.project /\ c.todo = k.todo /\ c.known = k.known
  BY <1>0, <1>1 DEF VisitFields
<1>3. HitCallOK(c)' /\ CallOK(c) /\ c.op \in ThreatOps \ {"idle"}
  <2>1. c.op \in VisitOps /\ hits' = hits
    BY <1>1, <1>2 DEF VisitOps
  <2>2. c.project = call[h].project /\ c.todo = call[h].todo /\ c.known = call[h].known
    BY <1>0, <1>2
  <2> QED BY <1>1, <1>2, <2>1, <2>2, VisitIsOK
<1>4. Moves(ThreatOps)
  BY <1>1, <1>3, MoveMoves
<1>5. HitsOK'
  BY <1>1, <1>3, HitsGrow
<1>6. call'[h] = c /\ \A g \in Handlers \ {h} : call'[g] = call[g]
  BY <1>1, CallAfter
<1>7. /\ DOMAIN inventory' = Scanned /\ inventory'[q] = (inventory[q] \ k.seen) \cup {row}
      /\ \A p \in Scanned \ {q} : inventory'[p] = inventory[p]
  BY <1>1 DEF InventoryOK
<1>8. ASSUME NEW p \in Scanned PROVE IsFiniteSet(inventory'[p])
  <2>1. CASE p = q
    <3>1. IsFiniteSet(inventory[q] \ k.seen)
      BY <2>1, FS_Difference DEF InventoryOK
    <3> QED BY <1>7, <2>1, <3>1, FS_AddElement
  <2>2. CASE p # q
    BY <1>7, <2>2 DEF InventoryOK
  <2> QED BY <2>1, <2>2
<1>9. ASSUME NEW p \in Scanned, NEW A \in SUBSET (Replacing(p)')
      PROVE  Cardinality(UnseenBy(p, A)') + Cardinality(A) <= Cardinality(Handlers)
  <2>1. h \notin A /\ A \in SUBSET Replacing(p) /\ \A g \in A : call'[g] = call[g]
    BY <1>2, <1>6 DEF Replacing, At
  <2>2. CASE p # q
    <3>1. UnseenBy(p, A)' = UnseenBy(p, A)
      BY <1>7, <2>1, <2>2 DEF UnseenBy
    <3> QED BY <2>1, <3>1 DEF InventoryOK
  <2>3. CASE p = q
    <3> DEFINE B == A \cup {h}
               old == UnseenBy(p, B)
    <3>1. h \in Replacing(p) /\ B \in SUBSET Replacing(p)
      BY <1>0, <1>1, <2>1, <2>3 DEF Replacing, At
    <3>2. UnseenBy(p, A)' \subseteq old \cup {row}
      <4>1. UnseenBy(p, A)' = ((inventory[q] \ k.seen) \cup {row}) \ UNION {call[g].seen : g \in A}
        BY <1>7, <2>1, <2>3 DEF UnseenBy
      <4>3. ASSUME NEW x \in UnseenBy(p, A)', x # row
            PROVE  x \in old
        <5>1. x \in inventory[q] /\ x \notin call[h].seen /\ \A g \in A : x \notin call[g].seen
          BY <1>0, <4>1, <4>3
        <5>2. \A g \in B : x \notin call[g].seen
          BY <5>1
        <5> QED BY <2>3, <5>1, <5>2 DEF UnseenBy
      <4> QED BY <4>3
    <3>3. IsFiniteSet(old) /\ IsFiniteSet(Handlers) /\ A \in SUBSET Handlers
      BY Constants, FS_Subset DEF InventoryOK, UnseenBy, Replacing
    <3>4. Cardinality(old) + Cardinality(B) <= Cardinality(Handlers)
      BY <3>1 DEF InventoryOK
    <3> HIDE DEF old, B
    <3>5. IsFiniteSet(A) /\ Cardinality(A) \in Nat /\ Cardinality(old) \in Nat /\ Cardinality(Handlers) \in Nat
      BY <3>3, FS_Subset, FS_CardinalityType
    <3>6. Cardinality(B) = Cardinality(A) + 1
      BY <2>1, <3>5, FS_AddElement DEF B
    <3>7. IsFiniteSet(old \cup {row}) /\ Cardinality(old \cup {row}) <= Cardinality(old) + 1
          /\ Cardinality(old \cup {row}) \in Nat
      <4>1. IsFiniteSet(old \cup {row})
        BY <3>3, FS_AddElement
      <4>2. Cardinality(old \cup {row}) = IF row \in old THEN Cardinality(old) ELSE Cardinality(old) + 1
        BY <3>3, FS_AddElement
      <4> QED BY <3>5, <4>1, <4>2, FS_CardinalityType
    <3>8. Cardinality(UnseenBy(p, A)') <= Cardinality(old \cup {row}) /\ Cardinality(UnseenBy(p, A)') \in Nat
      BY <3>2, <3>7, FS_Subset, FS_CardinalityType
    <3> QED BY <3>4, <3>5, <3>6, <3>7, <3>8
  <2> QED BY <2>2, <2>3
<1>10. ASSUME NEW p \in Scanned
       PROVE  (\A A \in SUBSET Replacing(p) : Cardinality(UnseenBy(p, A)) + Cardinality(A) <= Cardinality(Handlers))'
  BY <1>9
<1>11. InventoryOK'
  BY <1>7, <1>8, <1>10 DEF InventoryOK
<1> QED BY <1>4, <1>5, <1>11 DEF ThreatStep

LEMMA VisitGoesOn ==
  ASSUME CallsOK, InventoryOK, HitsOK, NEW h \in Handlers, call[h].op \in VisitOps,
         NEW c, c.op \in VisitOps \ {"replace"}, DOMAIN c = VisitFields, call' = [call EXCEPT ![h] = c],
         c.project = call[h].project, c.todo = call[h].todo, c.known = call[h].known,
         left' \in [Kinds -> Nat], UNCHANGED <<inventory, hits, reported, lost>>
  PROVE  ThreatStep
<1>1. ThreatCallOK(c) /\ HitCallOK(c)' /\ "op" \in DOMAIN c /\ c.op \in ThreatOps \ {"idle", "replace"}
  BY VisitIsOK
<1>2. FreshOf(call[h]) = {} /\ call[h].op \in ThreatOps
  BY SyncCall DEF ThreatOps
<1> QED BY <1>1, <1>2, SyncGoesOn

LEMMA QueryKeeps ==
  ASSUME CallsOK, InventoryOK, HitsOK, NEW h \in Handlers, QueryOSV(h)
  PROVE  ThreatStep
<1>0. PICK k : k = call[h]
  OBVIOUS
<1>1. /\ call[h].op = "query" /\ call[h].op \in VisitOps /\ UNCHANGED <<inventory, hits, reported, lost>>
      /\ DOMAIN k = VisitFields
  BY <1>0, SyncCall DEF QueryOSV, At, VisitOps, threatVars
<1>2. PICK missing, found, c :
        /\ c = Queried(k, found, DedupeQueryAdvisories(found)) /\ call' = [call EXCEPT ![h] = c]
        /\ IF missing = {} THEN UNCHANGED left ELSE Count("fault")
  <2>1. PICK missing \in SUBSET Advisories :
          LET found == QueryBatchWithDeps(call[h].inv, Advisories \ missing) IN
            /\ call' = [call EXCEPT ![h] = [call[h] EXCEPT !.op = "advise", !.found = found,
                                                           !.advs = DedupeQueryAdvisories(found)]]
            /\ IF missing = {} THEN UNCHANGED left ELSE Count("fault")
    BY Zenon DEF QueryOSV
  <2> QED BY <1>0, <2>1, Zenon DEF Queried
<1>3. /\ c.op = "advise" /\ DOMAIN c = VisitFields
      /\ c.project = k.project /\ c.todo = k.todo /\ c.known = k.known
  BY <1>1, <1>2, QueriedForm
<1>4. left' \in [Kinds -> Nat]
  BY <1>2, CountKeeps DEF CallsOK
<1> QED BY <1>0, <1>1, <1>2, <1>3, <1>4, VisitGoesOn DEF VisitOps

LEMMA AdviseKeeps ==
  ASSUME CallsOK, InventoryOK, HitsOK, NEW h \in Handlers, NEW a, UpsertAdvisory(h, a)
  PROVE  ThreatStep
<1>0. PICK k, c : k = call[h] /\ c = [k EXCEPT !.advs = @ \ {a}]
  OBVIOUS
<1>1. /\ call[h].op = "advise" /\ call[h].op \in VisitOps /\ UNCHANGED <<inventory, hits, reported, lost>>
      /\ DOMAIN k = VisitFields /\ call' = [call EXCEPT ![h] = c] /\ left' \in [Kinds -> Nat]
  BY <1>0, SyncCall DEF UpsertAdvisory, At, VisitOps, Proceed
<1>2. /\ c.op = "advise" /\ DOMAIN c = VisitFields
      /\ c.project = k.project /\ c.todo = k.todo /\ c.known = k.known
  BY <1>0, <1>1 DEF VisitFields
<1> QED BY <1>0, <1>1, <1>2, VisitGoesOn DEF VisitOps

\* All hits the sync knew are among the rows it reads.
LEMMA LoadKeeps ==
  ASSUME CallsOK, InventoryOK, HitsOK, NEW h \in Handlers, LoadPrior(h)
  PROVE  ThreatStep
<1>0. PICK k, prior, matched, c :
        /\ k = call[h] /\ prior = {x \in hits : x.project = k.project}
        /\ matched = {[project |-> k.project, dep |-> q.dep, advisory |-> q.advisory] : q \in MatchQueryHits(k.found)}
        /\ c = [op |-> "reconcile", id |-> k.id, todo |-> k.todo, kev |-> k.kev, project |-> k.project,
                known |-> k.known, fresh |-> {}, prior |-> prior, matched |-> matched]
  OBVIOUS
<1>1. /\ call[h].op = "advise" /\ call[h].op \in VisitOps /\ UNCHANGED <<inventory, hits, reported, lost>>
      /\ call' = [call EXCEPT ![h] = c] /\ left' \in [Kinds -> Nat]
      /\ k.todo \subseteq Scanned /\ k.project \in Scanned /\ k.known \subseteq hits
      /\ FreshOf(call[h]) = {} /\ call[h].op \in ThreatOps
  BY <1>0, SyncCall DEF LoadPrior, At, VisitOps, Proceed, threatVars, ThreatCallOK, HitCallOK, ThreatOps
<1>2. /\ c.op = "reconcile" /\ DOMAIN c = ReconcileFields /\ c.project = k.project /\ c.todo = k.todo
      /\ c.known = k.known /\ c.fresh = {} /\ c.prior = prior /\ c.matched = matched
  BY <1>0 DEF ReconcileFields
<1>3. ThreatCallOK(c)
  BY <1>1, <1>2 DEF ThreatCallOK, ReconcileFields, VisitOps
<1>4. HitCallOK(c)'
  BY <1>0, <1>1, <1>2 DEF HitCallOK, VisitOps
<1>5. c.op \in ThreatOps \ {"idle", "replace"} /\ "op" \in DOMAIN c
  BY <1>2 DEF ThreatOps, ReconcileFields
<1> QED BY <1>1, <1>3, <1>4, <1>5, SyncGoesOn

LEMMA ReconcileKeeps ==
  ASSUME CallsOK, InventoryOK, HitsOK, NEW h \in Handlers, NEW x, ReconcileHit(h, x)
  PROVE  ThreatStep
<1>0. PICK k, fresh, c :
        /\ k = call[h] /\ fresh = IF x \in k.prior THEN k.fresh ELSE k.fresh \cup {x}
        /\ c = [k EXCEPT !.matched = k.matched \ {x}, !.prior = k.prior \cup {x}, !.fresh = fresh]
  OBVIOUS
<1>1. /\ call[h].op = "reconcile" /\ k.op = "reconcile" /\ x \in k.matched
      /\ UNCHANGED <<inventory, reported, lost>> /\ hits' = hits \cup {x}
      /\ call' = [call EXCEPT ![h] = c] /\ left' \in [Kinds -> Nat]
      /\ DOMAIN k = ReconcileFields /\ FreshOf(call[h]) = k.fresh /\ call[h].op \in ThreatOps
      /\ ThreatCallOK(k) /\ HitCallOK(k)
  BY <1>0, SyncCall, Zenon DEF ReconcileHit, At, Proceed, ThreatOps
<1>2. /\ c.op = "reconcile" /\ DOMAIN c = ReconcileFields /\ c.project = k.project /\ c.todo = k.todo
      /\ c.known = k.known
  BY <1>0, <1>1 DEF ReconcileFields
<1>3. c.fresh = fresh /\ c.prior = k.prior \cup {x} /\ c.matched = k.matched \ {x}
  BY <1>0, <1>1 DEF ReconcileFields
<1>4. ThreatCallOK(c)
  BY <1>1, <1>2 DEF ThreatCallOK, ReconcileFields, VisitOps
<1>5. x.project = k.project /\ (x \in k.prior => x \in hits) /\ (x \in k.known => x \in k.prior)
  BY <1>1 DEF HitCallOK
<1>6. HitCallOK(c)'
  BY <1>0, <1>1, <1>2, <1>3, <1>5 DEF HitCallOK, VisitOps
<1>7. k.fresh \subseteq FreshOf(c) /\ hits' \subseteq hits \cup FreshOf(c)
  BY <1>0, <1>1, <1>2, <1>3, <1>5 DEF FreshOf
<1>8. c.op \in ThreatOps \ {"idle", "replace"} /\ "op" \in DOMAIN c
  BY <1>2 DEF ThreatOps, ReconcileFields
<1> QED BY <1>1, <1>4, <1>6, <1>7, <1>8, SyncGoesOn

LEMMA WatchKeeps ==
  ASSUME CallsOK, InventoryOK, HitsOK, ThreatsNext
  PROVE  Moves(ThreatOps) /\ InventoryOK' /\ HitsOK'
<1>1. ThreatStep
  BY PushKeeps, StartSyncKeeps, ProjectKeeps, SkipKeeps, DeleteKeeps, UpsertKeeps, QueryKeeps, AdviseKeeps,
     LoadKeeps, ReconcileKeeps, AnnounceKeeps DEF ThreatsNext
<1> QED BY <1>1 DEF ThreatStep

LEMMA CutOffThreats ==
  ASSUME CallsOK, InventoryOK, HitsOK, NEW h \in Handlers, CutOff(h), ThreatsCutOff(h)
  PROVE  InventoryOK' /\ HitsOK'
<1>1. call' = [call EXCEPT ![h] = Idle] /\ UNCHANGED <<inventory, hits, reported>> /\ lost \subseteq lost'
  BY DEF CutOff, ThreatsCutOff
<1>2. call'[h] = Idle /\ Idle.op = "idle" /\ \A g \in Handlers \ {h} : call'[g] = call[g]
  BY <1>1, CallAfter, IdleIsOK
<1>3. InventoryOK'
  BY <1>1, <1>2, OtherInventory DEF At
<1>4. HitCallOK(Idle)'
  BY <1>2 DEF HitCallOK, VisitOps
<1>5. FreshOf(call[h]) \subseteq lost'
  BY DEF ThreatsCutOff, FreshOf, At
<1>6. HitsOK'
  BY <1>1, <1>4, <1>5, HitsGrow
<1> QED BY <1>3, <1>6

LEMMA ThreatProperties ==
  ASSUME InventoryOK, HitsOK
  PROVE  InventoryIsBounded /\ HitsAreReportedOnce
<1>1. ASSUME NEW p \in Scanned
      PROVE  Cardinality(inventory[p]) <= Cardinality(Handlers)
  <2>1. UnseenBy(p, {}) = inventory[p]
    BY DEF UnseenBy
  <2>2. Cardinality(UnseenBy(p, {})) + Cardinality({}) <= Cardinality(Handlers)
    BY DEF InventoryOK
  <2>3. Cardinality(inventory[p]) \in Nat /\ Cardinality({}) = 0
    BY FS_CardinalityType, FS_EmptySet DEF InventoryOK
  <2> QED BY <2>1, <2>2, <2>3
<1>2. HitsAreReportedOnce
  BY DEF HitsOK, HitsAreReportedOnce, HitCallOK, Announcing, At
<1> QED BY <1>1, <1>2 DEF InventoryIsBounded

-----------------------------------------------------------------------------
(* Correlation: what the matches and the scores are.                       *)

LEMMA RelatedIsSymmetric ==
  ASSUME NEW f \in Findings, NEW g \in Findings, Related(f, g)
  PROVE  Related(g, f)
<1>1. Near(f, g) => Near(g, f)
  <2>1. /\ Facts[f].line \in Nat /\ Facts[g].line \in Nat
        /\ CategoryOf[Facts[g].scanner] = CategoryOf[Facts[f].scanner]
    BY Constants DEF Related
  <2>2. \A n \in {5, 15} : Facts[f].line - Facts[g].line \in -n..n => Facts[g].line - Facts[f].line \in -n..n
    BY <2>1
  <2> QED BY <2>1, <2>2 DEF Near
<1>2. Facts[f].signals \cap Facts[g].signals = Facts[g].signals \cap Facts[f].signals
  OBVIOUS
<1> QED BY <1>1, <1>2 DEF Related

LEMMA MatchesAreRelated ==
  ASSUME NEW f
  PROVE  FindBatchMatches(f) = {g \in stored : Related(f, g)}
BY DEF FindBatchMatches, Related

LEMMA MinOfTwo ==
  ASSUME NEW a \in Nat, NEW b \in Nat
  PROVE  Min({a, b}) = IF a <= b THEN a ELSE b
<1>1. \E x \in {a, b} : \A y \in {a, b} : x <= y
  OBVIOUS
<1>2. Min({a, b}) \in {a, b} /\ \A y \in {a, b} : Min({a, b}) <= y
  BY <1>1 DEF Min
<1> QED BY <1>2

\* The scanners of a finite set of findings are finitely many.
LEMMA ScannersAreFinite ==
  ASSUME NEW M, IsFiniteSet(M)
  PROVE  /\ IsFiniteSet({Facts[g].scanner : g \in M})
         /\ Cardinality({Facts[g].scanner : g \in M}) \in Nat
<1> DEFINE T == {Facts[g].scanner : g \in M}
           map == [g \in M |-> Facts[g].scanner]
<1>1. map \in Surjection(M, T)
  BY DEF Surjection
<1> HIDE DEF T, map
<1>2. IsFiniteSet(T)
  BY <1>1, FS_Surjection
<1>3. Cardinality(T) \in Nat
  BY <1>2, FS_CardinalityType
<1> QED BY <1>2, <1>3 DEF T

LEMMA ScoreGrows ==
  ASSUME NEW f, NEW M, NEW N, IsFiniteSet(N), M \subseteq N
  PROVE  Score(f, M) \in Nat /\ Score(f, N) \in Nat /\ Score(f, M) <= Score(f, N)
<1> DEFINE p == Cardinality(Peers(f))
           m == {Facts[g].scanner : g \in M}
           n == {Facts[g].scanner : g \in N}
<1>1. p \in Nat
  BY Constants, FS_Subset, FS_CardinalityType DEF Peers
<1>2. IsFiniteSet(M)
  BY FS_Subset
<1>3. m \in SUBSET n /\ IsFiniteSet(n) /\ Cardinality(m) \in Nat /\ Cardinality(n) \in Nat
  BY <1>2, ScannersAreFinite
<1> HIDE DEF p, m, n
<1>4. Cardinality(m) <= Cardinality(n)
  BY <1>3, FS_Subset
<1>5. /\ Min({p, Cardinality(m)}) = (IF p <= Cardinality(m) THEN p ELSE Cardinality(m))
      /\ Min({p, Cardinality(n)}) = (IF p <= Cardinality(n) THEN p ELSE Cardinality(n))
  BY <1>1, <1>3, MinOfTwo
<1>6. /\ Score(f, M) = (IF p = 0 \/ m = {} THEN 0 ELSE p + Min({p, Cardinality(m)}))
      /\ Score(f, N) = (IF p = 0 \/ n = {} THEN 0 ELSE p + Min({p, Cardinality(n)}))
  BY DEF Score, p, m, n
<1> QED BY <1>1, <1>3, <1>4, <1>5, <1>6

LEMMA CorrelatedArePaired ==
  ASSUME PairsOK, NEW g \in stored
  PROVE  /\ Correlated(g, {"same_family_batch"}) = {x \in stored : {g, x} \in Batch}
         /\ Correlated(g, {"same_family_batch"}) \subseteq FindBatchMatches(g)
<1>1. \A x : x \in Correlated(g, {"same_family_batch"}) <=> \E q \in Batch : g \in q /\ x \in q /\ x # g
  BY DEF Correlated, Batch
<1>2. ASSUME NEW q \in Batch, g \in q, NEW x \in q, x # g
      PROVE  x \in stored /\ q = {g, x} /\ Related(g, x)
  <2>1. PICK a \in stored, b \in stored : Related(a, b) /\ q = {a, b}
    BY <1>2 DEF PairsOK
  <2>2. a \in Findings /\ b \in Findings
    BY DEF PairsOK
  <2>3. \/ g = a /\ x = b
        \/ g = b /\ x = a
    BY <1>2, <2>1
  <2> QED BY <2>1, <2>2, <2>3, RelatedIsSymmetric
<1>3. \A x \in stored : {g, x} \in Batch => x # g
  <2> SUFFICES ASSUME {g, g} \in Batch PROVE FALSE
    OBVIOUS
  <2>1. PICK a \in stored, b \in stored : Related(a, b) /\ {g, g} = {a, b}
    BY DEF PairsOK
  <2> QED BY <2>1 DEF Related
<1>4. ASSUME NEW x
      PROVE  x \in Correlated(g, {"same_family_batch"}) <=> x \in stored /\ {g, x} \in Batch
  <2>1. CASE x \in Correlated(g, {"same_family_batch"})
    BY <1>1, <1>2, <2>1
  <2>2. CASE x \in stored /\ {g, x} \in Batch
    <3>1. x # g /\ g \in {g, x} /\ x \in {g, x}
      BY <1>3, <2>2
    <3> QED BY <1>1, <2>2, <3>1
  <2> QED BY <2>1, <2>2
<1>5. ASSUME NEW x \in Correlated(g, {"same_family_batch"})
      PROVE  x \in FindBatchMatches(g)
  BY <1>1, <1>2, <1>5, MatchesAreRelated
<1> QED BY <1>4, <1>5

LEMMA MatchesAreFinite ==
  ASSUME PairsOK, NEW f
  PROVE  IsFiniteSet(FindBatchMatches(f)) /\ FindBatchMatches(f) \subseteq stored
BY MatchesAreRelated, FS_Subset DEF PairsOK

-----------------------------------------------------------------------------
(* Correlation: the steps.                                                 *)

CorrelationStep == PairsOK' /\ RefreshesOK'

LEMMA OtherRefreshes ==
  ASSUME PairsOK, RefreshesOK, NEW ops, ops \cap RefreshOps = {}, Moves(ops),
         Batch' = Batch, UNCHANGED <<stored, confidence, overlapped>>
  PROVE  CorrelationStep
<1>1. \A h \in Handlers : \/ call'[h] = call[h]
                          \/ call[h].op \notin RefreshOps /\ call'[h].op \notin RefreshOps
  BY DEF Moves
<1>2. \A h \in Handlers : Refreshing(h)' <=> Refreshing(h)
  BY <1>1 DEF Refreshing, RefreshOps
<1>3. \A h \in Handlers : Refreshing(h) => call'[h] = call[h]
  BY <1>1 DEF Refreshing, RefreshOps
<1>4. \A f : FindBatchMatches(f)' = FindBatchMatches(f)
  BY DEF FindBatchMatches
<1>5. \A f : Exact(f)' <=> Exact(f)
  BY <1>4 DEF Exact
<1>6. PairsOK'
  BY <1>4 DEF PairsOK
<1>7. ASSUME NEW h \in Handlers
      PROVE  RefreshCallOK(call[h])'
  <2>1. CASE Refreshing(h)
    BY <1>3, <1>4, <2>1 DEF RefreshesOK, RefreshCallOK
  <2>2. CASE ~Refreshing(h)
    BY <1>2, <2>2 DEF Refreshing, RefreshOps, RefreshCallOK
  <2> QED BY <2>1, <2>2
<1>8. ASSUME ~overlapped, NEW h \in Handlers, Refreshing(h)
      PROVE  AloneOK(call[h])'
  <2>1. AloneOK(call[h]) /\ call'[h] = call[h]
    BY <1>3, <1>8 DEF RefreshesOK
  <2>2. Unpaired(call[h])' = Unpaired(call[h])
    BY <2>1 DEF Unpaired
  <2>3. Unscored(call[h])' = Unscored(call[h])
    BY <1>4, <2>1 DEF Unscored
  <2> QED BY <1>4, <1>5, <2>1, <2>2, <2>3 DEF AloneOK
<1>9. RefreshesOK'
  BY <1>2, <1>5, <1>7, <1>8 DEF RefreshesOK
<1> QED BY <1>6, <1>9 DEF CorrelationStep

\* A step of the only refresh, if it is.
LEMMA OneRefresh ==
  ASSUME CallsOK, RefreshesOK, NEW h \in Handlers, Refreshing(h), UNCHANGED <<stored, overlapped>>,
         NEW c, call' = [call EXCEPT ![h] = c], c.op \in RefreshOps,
         RefreshCallOK(c)',
         ~overlapped /\ AloneOK(call[h]) => AloneOK(c)'
  PROVE  RefreshesOK'
<1>1. call'[h] = c /\ \A g \in Handlers \ {h} : call'[g] = call[g]
  BY CallAfter
<1>2. \A g \in Handlers : Refreshing(g)' <=> Refreshing(g)
  BY <1>1 DEF Refreshing, RefreshOps
<1>3. \A f : FindBatchMatches(f)' = FindBatchMatches(f)
  BY DEF FindBatchMatches
<1>4. ASSUME NEW g \in Handlers
      PROVE  RefreshCallOK(call[g])'
  <2>1. CASE g = h
    BY <1>1, <2>1 DEF RefreshCallOK
  <2>2. CASE g # h
    BY <1>1, <1>3, <2>2 DEF RefreshesOK, RefreshCallOK
  <2> QED BY <2>1, <2>2
<1>5. ASSUME ~overlapped
      PROVE  /\ \A g, k \in Handlers : Refreshing(g)' /\ Refreshing(k)' => g = k
             /\ \A g \in Handlers : Refreshing(g)' => AloneOK(call[g])'
  <2>1. AloneOK(call[h]) /\ \A g, k \in Handlers : Refreshing(g) /\ Refreshing(k) => g = k
    BY <1>5 DEF RefreshesOK
  <2>2. AloneOK(c)'
    BY <1>5, <2>1
  <2>3. AloneOK(call[h])'
    BY <1>1, <2>2 DEF AloneOK, Unpaired, Unscored
  <2> QED BY <1>2, <2>1, <2>3
<1> QED BY <1>2, <1>4, <1>5 DEF RefreshesOK

LEMMA RefreshCallIsOK ==
  ASSUME NEW c, "op" \in DOMAIN c, c.op \in CorrelationOps \ {"idle"}, CorrelationCallOK(c)
  PROVE  CallOK(c)
BY CorrelationCallIsOK

\* The scan inserts a finding and begins its refresh.
LEMMA InsertKeeps ==
  ASSUME CallsOK, PairsOK, RefreshesOK, NEW h \in Handlers, NEW f \in Findings, Insert(h, f)
  PROVE  Moves(CorrelationOps) /\ CorrelationStep
<1> DEFINE c == [op |-> "match", finding |-> f]
<1>1. /\ f \notin stored /\ stored' = stored \cup {f} /\ UNCHANGED <<pairs, confidence>>
      /\ Begin("scan", h, c) /\ call[h] = Idle /\ call' = [call EXCEPT ![h] = c]
      /\ overlapped' = (overlapped \/ \E g \in Handlers : Refreshing(g))
  BY DEF Insert, Begin
<1>2. CallOK(c) /\ c.op = "match" /\ c.finding = f
  BY RefreshCallIsOK DEF CorrelationCallOK, CorrelationOps, RefreshOps
<1> HIDE DEF c
<1>3. Moves(CorrelationOps)
  BY <1>1, <1>2, BeginMoves DEF CorrelationOps, RefreshOps
<1>4. call'[h] = c /\ (\A g \in Handlers \ {h} : call'[g] = call[g]) /\ ~Refreshing(h)
  BY <1>1, CallAfter, IdleIsOK DEF Refreshing
<1>5. Batch' = Batch
  BY <1>1 DEF Batch
<1>6. \A g : /\ FindBatchMatches(g)' = {x \in stored' : Related(g, x)}
             /\ FindBatchMatches(g) = {x \in stored : Related(g, x)}
  BY MatchesAreRelated DEF FindBatchMatches, Related
<1>7. stored \subseteq Findings /\ stored' \subseteq Findings /\ IsFiniteSet(stored')
  BY <1>1, FS_AddElement DEF PairsOK
<1>8. \A g : IsFiniteSet(FindBatchMatches(g)') /\ FindBatchMatches(g) \subseteq FindBatchMatches(g)'
  BY <1>1, <1>6, <1>7, FS_Subset
<1>9. \A g : Score(g, FindBatchMatches(g)) \in Nat /\ Score(g, FindBatchMatches(g)') \in Nat
             /\ Score(g, FindBatchMatches(g)) <= Score(g, FindBatchMatches(g)')
  BY <1>8, ScoreGrows
<1>10. PairsOK'
  <2>1. \A g \in stored' : confidence'[g] <= Score(g, FindBatchMatches(g)')
    <3> TAKE g \in stored'
    <3>1. confidence'[g] = confidence[g] /\ confidence[g] \in Nat
      BY <1>1, <1>7 DEF PairsOK
    <3>2. CASE g \in stored
      BY <1>9, <3>1, <3>2 DEF PairsOK
    <3>3. CASE g \notin stored
      BY <1>7, <1>9, <3>1, <3>3 DEF PairsOK
    <3> QED BY <3>2, <3>3
  <2>2. overlapped' \in BOOLEAN
    BY <1>1
  <2>3. (\A q \in Batch' : \E x, y \in stored' : Related(x, y) /\ q = {x, y})
    BY <1>1, <1>5 DEF PairsOK
  <2>4. confidence' \in [Findings -> Nat] /\ \A g \in Findings \ stored' : confidence'[g] = 0
    BY <1>1 DEF PairsOK
  <2>5. (\A q \in Batch : \E x, y \in stored : Related(x, y) /\ q = {x, y})'
    BY <2>3 DEF Related, Near
  <2>6. (\A g \in stored : confidence[g] <= Score(g, FindBatchMatches(g)))'
    BY <2>1 DEF Score, Peers
  <2> QED BY <1>7, <2>2, <2>4, <2>5, <2>6 DEF PairsOK
<1>11. ASSUME NEW g \in Handlers
       PROVE  RefreshCallOK(call[g])'
  <2>1. CASE g = h
    BY <1>1, <1>2, <1>4, <2>1 DEF RefreshCallOK
  <2>2. CASE g # h
    <3>1. call'[g] = call[g] /\ RefreshCallOK(call[g])
      BY <1>4, <2>2 DEF RefreshesOK
    <3>2. call[g].op = "write" => call[g].score <= Score(call[g].scored, FindBatchMatches(call[g].scored)')
      BY <1>9, <3>1 DEF RefreshCallOK
    <3>3. (Score(call[g].scored, FindBatchMatches(call[g].scored)))'
            = Score(call[g].scored, FindBatchMatches(call[g].scored)')
      BY <3>1 DEF Score, Peers
    <3>4. stored \subseteq stored'
      BY <1>1
    <3> QED BY <1>8, <3>1, <3>2, <3>3, <3>4 DEF RefreshCallOK
  <2> QED BY <2>1, <2>2
<1>12. ASSUME ~overlapped'
       PROVE  /\ \A g, k \in Handlers : Refreshing(g)' /\ Refreshing(k)' => g = k
              /\ \A g \in Handlers : Refreshing(g)' => AloneOK(call[g])'
              /\ Refreshing(h)'
  <2>1. ~overlapped /\ \A g \in Handlers : ~Refreshing(g)
    BY <1>1, <1>12
  <2>2. \A g \in Handlers : Refreshing(g)' <=> g = h
    BY <1>2, <1>4, <2>1 DEF Refreshing
  <2>3. /\ \A x, y \in stored : {x, y} \in Batch <=> Related(x, y)
        /\ \A x \in stored : Exact(x)
    BY <2>1 DEF RefreshesOK
  <2>4. ASSUME NEW x \in stored', NEW y \in stored'
        PROVE  {x, y} \in Batch' <=> Related(x, y) /\ x # f /\ y # f
    <3>1. CASE x = f \/ y = f
      <4>1. {x, y} \notin Batch
        BY <1>1, <3>1 DEF PairsOK
      <4> QED BY <1>5, <3>1, <4>1
    <3>2. CASE x # f /\ y # f
      BY <1>1, <1>5, <2>3, <3>2
    <3> QED BY <3>1, <3>2
  <2>5. ASSUME NEW x \in stored', x \notin FindBatchMatches(f)' \cup {f}
        PROVE  confidence'[x] = Score(x, FindBatchMatches(x)')
    <3>1. x \in stored /\ x \in Findings /\ confidence[x] = Score(x, FindBatchMatches(x))
      BY <1>1, <1>7, <2>3, <2>5 DEF Exact
    <3>2. ~Related(x, f)
      BY <1>6, <2>5, <3>1, RelatedIsSymmetric
    <3>3. FindBatchMatches(x)' = FindBatchMatches(x)
      BY <1>1, <1>6, <3>2
    <3> QED BY <1>1, <3>1, <3>3
  <2>6. /\ c.op = "match" /\ c.finding = f /\ call'[h] = c
        /\ Unpaired(c)' = stored' /\ Unscored(c)' = FindBatchMatches(f)' \cup {f}
    BY <1>2, <1>4 DEF Unpaired, Unscored
  <2>7. AloneOK(c)'
    <3>1. (\A x \in stored \ Unscored(c) : Exact(x))'
      BY <2>5, <2>6 DEF Exact, Score, Peers
    <3>2. (\A x, y \in stored :
             {x, y} \in Batch <=>
               /\ Related(x, y)
               /\ ~(x = c.finding /\ y \in Unpaired(c)) /\ ~(y = c.finding /\ x \in Unpaired(c)))'
      BY <2>4, <2>6 DEF Related, Near
    <3> QED BY <2>6, <3>1, <3>2 DEF AloneOK
  <2>8. AloneOK(call[h])'
    BY <2>6, <2>7 DEF AloneOK, Unpaired, Unscored
  <2> QED BY <2>2, <2>8
<1>13. RefreshesOK'
  BY <1>11, <1>12 DEF RefreshesOK
<1> QED BY <1>3, <1>10, <1>13 DEF CorrelationStep

LEMMA RefreshingCall ==
  ASSUME CallsOK, RefreshesOK, NEW h \in Handlers, call[h].op \in RefreshOps
  PROVE  /\ Refreshing(h) /\ call[h].finding \in stored /\ CorrelationCallOK(call[h])
         /\ call[h].op \in CorrelationOps /\ RefreshCallOK(call[h])
BY DEF CallsOK, CallOK, RefreshesOK, RefreshCallOK, Refreshing, RefreshOps, CorrelationOps

\* A refresh goes on, and neither findings nor pairs nor scores change.
LEMMA StillMatches ==
  ASSUME UNCHANGED stored
  PROVE  /\ \A f : FindBatchMatches(f)' = FindBatchMatches(f)
         /\ \A f : Score(f, FindBatchMatches(f))' = Score(f, FindBatchMatches(f))
BY DEF FindBatchMatches, Score, Peers

LEMMA StillPairs ==
  ASSUME PairsOK, UNCHANGED correlationVars
  PROVE  /\ PairsOK' /\ Batch' = Batch /\ \A f : Exact(f)' <=> Exact(f)
         /\ UNCHANGED <<stored, confidence, overlapped>>
<1>1. Batch' = Batch /\ UNCHANGED <<stored, confidence, overlapped>>
  BY DEF correlationVars, Batch
<1>2. \A f : Exact(f)' <=> Exact(f)
  BY <1>1, StillMatches DEF Exact
<1>3. PairsOK'
  BY <1>1, StillMatches DEF PairsOK, Related, Near
<1> QED BY <1>1, <1>2, <1>3

LEMMA MatchKeeps ==
  ASSUME CallsOK, PairsOK, RefreshesOK, NEW h \in Handlers, RefreshBatchCorrelation(h)
  PROVE  Moves(CorrelationOps) /\ CorrelationStep
<1>0. PICK f, m, c : /\ f = call[h].finding /\ m = FindBatchMatches(f)
                     /\ c = [op |-> "forget", finding |-> f, found |-> m]
  OBVIOUS
<1>1. call[h].op = "match" /\ Proceed(h, c) /\ call' = [call EXCEPT ![h] = c] /\ UNCHANGED correlationVars
  BY <1>0 DEF RefreshBatchCorrelation, At, Proceed
<1>2. Refreshing(h) /\ f \in stored
  BY <1>0, <1>1, RefreshingCall DEF RefreshOps
<1>3. /\ CallOK(c) /\ c.op = "forget" /\ c.finding = f /\ c.found = m
      /\ c.op \in CorrelationOps /\ c.op \in RefreshOps
  BY <1>0, RefreshCallIsOK DEF CorrelationCallOK, CorrelationOps, RefreshOps
<1>4. Moves(CorrelationOps)
  BY <1>1, <1>3, ProceedMoves DEF CorrelationOps, RefreshOps
<1>5. /\ PairsOK' /\ Batch' = Batch /\ UNCHANGED <<stored, confidence, overlapped>>
      /\ \A x : Exact(x)' <=> Exact(x)
      /\ \A x : FindBatchMatches(x)' = FindBatchMatches(x)
      /\ FindBatchMatches(f) = m
  BY <1>0, <1>1, StillPairs, StillMatches
<1>6. RefreshCallOK(c)'
  BY <1>2, <1>3, <1>5 DEF RefreshCallOK
<1>7. ASSUME AloneOK(call[h])
      PROVE  AloneOK(c)'
  <2>1. Unpaired(c)' = stored /\ Unpaired(call[h]) = stored
    BY <1>1, <1>3, <1>5 DEF Unpaired
  <2>2. Unscored(c)' = m \cup {f} /\ Unscored(call[h]) = m \cup {f}
    BY <1>0, <1>1, <1>3, <1>5 DEF Unscored
  <2> QED BY <1>0, <1>3, <1>5, <1>7, <2>1, <2>2 DEF AloneOK, Related, Near
<1>8. RefreshesOK'
  BY <1>1, <1>2, <1>3, <1>5, <1>6, <1>7, OneRefresh
<1> QED BY <1>4, <1>5, <1>8 DEF CorrelationStep

\* The pairs of the new finding are cleared: when it runs alone there are none.
LEMMA ClearKeeps ==
  ASSUME CallsOK, PairsOK, RefreshesOK, NEW h \in Handlers, ClearCorrelations(h)
  PROVE  Moves(CorrelationOps) /\ CorrelationStep
<1>0. PICK f, m, c : /\ f = call[h].finding /\ m = call[h].found
                     /\ c = [op |-> "pair", finding |-> f, todo |-> m, found |-> m]
  OBVIOUS
<1> DEFINE cleared == {q \in DOMAIN pairs : f \in q /\ pairs[q] = "same_family_batch"}
<1>1. /\ call[h].op = "forget" /\ Proceed(h, c) /\ call' = [call EXCEPT ![h] = c]
      /\ pairs' = [q \in DOMAIN pairs \ cleared |-> pairs[q]]
      /\ UNCHANGED <<stored, confidence, overlapped>>
  BY <1>0 DEF ClearCorrelations, At, Proceed
<1>2. Refreshing(h) /\ f \in stored /\ m \subseteq FindBatchMatches(f)
  BY <1>0, <1>1, RefreshingCall DEF RefreshOps, RefreshCallOK
<1>3. /\ CallOK(c) /\ c.op = "pair" /\ c.finding = f /\ c.found = m /\ c.todo = m
      /\ c.op \in CorrelationOps /\ c.op \in RefreshOps
  BY <1>0, RefreshCallIsOK DEF CorrelationCallOK, CorrelationOps, RefreshOps
<1>4. Moves(CorrelationOps)
  BY <1>1, <1>3, ProceedMoves DEF CorrelationOps, RefreshOps
<1>5. Batch' = {q \in Batch : f \notin q}
  BY <1>1 DEF Batch
<1>6. /\ \A x : FindBatchMatches(x)' = FindBatchMatches(x)
      /\ \A x : Score(x, FindBatchMatches(x))' = Score(x, FindBatchMatches(x))
      /\ \A x : Exact(x)' <=> Exact(x)
  BY <1>1, StillMatches DEF Exact
<1>7. PairsOK'
  BY <1>1, <1>5, <1>6 DEF PairsOK, Related, Near
<1>8. RefreshCallOK(c)'
  BY <1>1, <1>2, <1>3, <1>6 DEF RefreshCallOK
<1>9. ASSUME AloneOK(call[h])
      PROVE  AloneOK(c)'
  <2>1. Unpaired(c)' = m /\ Unpaired(call[h]) = stored /\ m = FindBatchMatches(f)
    BY <1>0, <1>1, <1>3, <1>9 DEF Unpaired, AloneOK
  <2>2. /\ Unscored(c)' = FindBatchMatches(f) \cup {f}
        /\ Unscored(call[h]) = FindBatchMatches(f) \cup {f}
    BY <1>0, <1>1, <1>3, <1>6 DEF Unscored
  <2>3. ASSUME NEW x \in stored, NEW y \in stored
        PROVE  {x, y} \in Batch' <=>
                 /\ Related(x, y)
                 /\ ~(x = f /\ y \in FindBatchMatches(f)) /\ ~(y = f /\ x \in FindBatchMatches(f))
    <3>1. {x, y} \in Batch <=> Related(x, y) /\ x # f /\ y # f
      BY <1>0, <1>9, <2>1 DEF AloneOK
    <3>2. x \in Findings /\ y \in Findings
      BY DEF PairsOK
    <3>3. CASE x # f /\ y # f
      BY <1>5, <3>1, <3>3
    <3>4. CASE x = f
      BY <1>5, <3>4, MatchesAreRelated
    <3>5. CASE y = f
      BY <1>5, <3>2, <3>5, MatchesAreRelated, RelatedIsSymmetric
    <3> QED BY <3>3, <3>4, <3>5
  <2> QED BY <1>0, <1>1, <1>3, <1>6, <1>9, <2>1, <2>2, <2>3 DEF AloneOK, Related, Near
<1>10. RefreshesOK'
  BY <1>1, <1>2, <1>3, <1>8, <1>9, OneRefresh
<1> QED BY <1>4, <1>7, <1>10 DEF CorrelationStep

\* One pair is written, of the new finding and one it matches.
LEMMA PairKeeps ==
  ASSUME CallsOK, PairsOK, RefreshesOK, NEW h \in Handlers, ReplaceCorrelationSet(h)
  PROVE  Moves(CorrelationOps) /\ CorrelationStep
<1>0. PICK f, k, m, n :
        f = call[h].finding /\ k = call[h] /\ m = k.found /\ n = k.todo
  OBVIOUS
<1>1. /\ call[h].op = "pair" /\ UNCHANGED <<stored, confidence, overlapped>>
      /\ Refreshing(h) /\ f \in stored
      /\ DOMAIN k = {"op", "finding", "todo", "found"}
      /\ n \subseteq m /\ m \subseteq FindBatchMatches(f)
  BY <1>0, RefreshingCall DEF ReplaceCorrelationSet, At, RefreshOps, RefreshCallOK, CorrelationCallOK
<1>2. /\ \A x : FindBatchMatches(x)' = FindBatchMatches(x)
      /\ \A x : Score(x, FindBatchMatches(x))' = Score(x, FindBatchMatches(x))
      /\ \A x : Exact(x)' <=> Exact(x)
      /\ FindBatchMatches(f) = {g \in stored : Related(f, g)}
  BY <1>1, StillMatches, MatchesAreRelated DEF Exact
<1>3. ASSUME NEW g \in n, pairs' = PutRow(pairs, {f, g}, "same_family_batch"),
             Proceed(h, [k EXCEPT !.todo = @ \ {g}])
      PROVE  Moves(CorrelationOps) /\ CorrelationStep
  <2>0. PICK c : c = [k EXCEPT !.todo = @ \ {g}]
    OBVIOUS
  <2>1. Proceed(h, c) /\ call' = [call EXCEPT ![h] = c]
    BY <1>3, <2>0 DEF Proceed
  <2>2. /\ c.op = "pair" /\ c.finding = f /\ c.found = m /\ c.todo = n \ {g}
        /\ DOMAIN c = {"op", "finding", "todo", "found"}
    BY <1>0, <1>1, <2>0
  <2>3. CallOK(c) /\ c.op \in CorrelationOps /\ c.op \in RefreshOps
    BY <2>2, RefreshCallIsOK DEF CorrelationCallOK, CorrelationOps, RefreshOps
  <2>4. Moves(CorrelationOps)
    BY <1>1, <2>1, <2>3, ProceedMoves DEF CorrelationOps, RefreshOps
  <2>5. Batch' = Batch \cup {{f, g}}
    BY <1>3 DEF Batch, PutRow
  <2>6. g \in stored /\ Related(f, g)
    BY <1>1, <1>2
  <2>7. PairsOK'
    <3>1. \A q \in Batch' : \E x, y \in stored : Related(x, y) /\ q = {x, y}
      BY <1>1, <2>5, <2>6 DEF PairsOK
    <3> QED BY <1>1, <1>2, <3>1 DEF PairsOK, Related, Near
  <2>8. RefreshCallOK(c)'
    BY <1>1, <1>2, <2>2 DEF RefreshCallOK
  <2>9. ASSUME AloneOK(call[h])
        PROVE  AloneOK(c)'
    <3>1. Unpaired(c)' = n \ {g} /\ Unpaired(call[h]) = n
      BY <1>0, <1>1, <2>2 DEF Unpaired
    <3>2. /\ Unscored(c)' = FindBatchMatches(f) \cup {f}
          /\ Unscored(call[h]) = FindBatchMatches(f) \cup {f}
      BY <1>0, <1>1, <1>2, <2>2 DEF Unscored
    <3>3. ASSUME NEW x \in stored, NEW y \in stored
          PROVE  {x, y} \in Batch' <=>
                   /\ Related(x, y)
                   /\ ~(x = f /\ y \in n \ {g}) /\ ~(y = f /\ x \in n \ {g})
      <4>1. {x, y} \in Batch <=>
              Related(x, y) /\ ~(x = f /\ y \in n) /\ ~(y = f /\ x \in n)
        BY <1>0, <2>9, <3>1 DEF AloneOK
      <4>2. f \in Findings /\ g \in Findings /\ f # g /\ Related(g, f)
        BY <1>1, <2>6, RelatedIsSymmetric DEF PairsOK, Related
      <4>3. CASE x = f /\ y = g
        BY <2>5, <2>6, <4>2, <4>3
      <4>4. CASE x = g /\ y = f
        BY <2>5, <2>6, <4>2, <4>4
      <4>5. CASE ~(x = f /\ y = g) /\ ~(x = g /\ y = f)
        <5>1. {x, y} # {f, g}
          BY <4>2, <4>5
        <5> QED BY <2>5, <4>1, <4>5, <5>1
      <4> QED BY <4>3, <4>4, <4>5
    <3>4. (\A x, y \in stored :
             {x, y} \in Batch <=>
               /\ Related(x, y)
               /\ ~(x = c.finding /\ y \in Unpaired(c)) /\ ~(y = c.finding /\ x \in Unpaired(c)))'
      BY <1>1, <2>2, <3>1, <3>3 DEF Related, Near
    <3>5. (\A x \in stored \ Unscored(c) : Exact(x))'
      BY <1>1, <1>2, <2>9, <3>2 DEF AloneOK
    <3>6. (c.op \in {"forget", "pair"} => c.found = FindBatchMatches(c.finding))'
      BY <1>0, <1>1, <1>2, <2>2, <2>9 DEF AloneOK
    <3> QED BY <2>2, <3>4, <3>5, <3>6 DEF AloneOK
  <2>10. RefreshesOK'
    BY <1>1, <2>1, <2>3, <2>8, <2>9, OneRefresh
  <2> QED BY <2>4, <2>7, <2>10 DEF CorrelationStep
<1>4. CASE /\ n = {} /\ UNCHANGED pairs
           /\ Proceed(h, Recalculating(f, m \cup {f}))
  <2>0. PICK c : c = Recalculating(f, m \cup {f})
    OBVIOUS
  <2>1. Proceed(h, c) /\ call' = [call EXCEPT ![h] = c] /\ UNCHANGED correlationVars
    BY <1>1, <1>4, <2>0 DEF Proceed, correlationVars
  <2>2. /\ c.op = "score" /\ c.finding = f /\ c.todo = m \cup {f}
        /\ DOMAIN c = {"op", "finding", "todo"}
    BY <2>0 DEF Recalculating
  <2>3. CallOK(c) /\ c.op \in CorrelationOps /\ c.op \in RefreshOps
    BY <2>2, RefreshCallIsOK DEF CorrelationCallOK, CorrelationOps, RefreshOps
  <2>4. Moves(CorrelationOps)
    BY <1>1, <2>1, <2>3, ProceedMoves DEF CorrelationOps, RefreshOps
  <2>5. PairsOK' /\ Batch' = Batch
    BY <2>1, StillPairs
  <2>6. RefreshCallOK(c)'
    BY <1>1, <1>2, <2>2 DEF RefreshCallOK
  <2>7. ASSUME AloneOK(call[h])
        PROVE  AloneOK(c)'
    <3>1. Unpaired(c)' = {} /\ Unpaired(call[h]) = {}
      BY <1>0, <1>1, <1>4, <2>2 DEF Unpaired
    <3>2. /\ Unscored(c)' = FindBatchMatches(f) \cup {f}
          /\ Unscored(call[h]) = FindBatchMatches(f) \cup {f}
      BY <1>0, <1>1, <1>2, <2>2, <2>7 DEF Unscored, AloneOK
    <3>3. (\A x, y \in stored :
             {x, y} \in Batch <=>
               /\ Related(x, y)
               /\ ~(x = c.finding /\ y \in Unpaired(c)) /\ ~(y = c.finding /\ x \in Unpaired(c)))'
      BY <1>1, <2>5, <2>7, <3>1 DEF Related, Near, AloneOK
    <3>4. (\A x \in stored \ Unscored(c) : Exact(x))'
      BY <1>1, <1>2, <2>7, <3>2 DEF AloneOK
    <3> QED BY <2>2, <3>3, <3>4 DEF AloneOK
  <2>8. RefreshesOK'
    BY <1>1, <2>1, <2>3, <2>6, <2>7, OneRefresh
  <2> QED BY <2>4, <2>5, <2>8 DEF CorrelationStep
<1> QED BY <1>0, <1>3, <1>4 DEF ReplaceCorrelationSet

\* The last score is written: the refresh ends.
LEMMA ScoredKeeps ==
  ASSUME CallsOK, PairsOK, RefreshesOK, NEW h \in Handlers, call[h].op = "score", call[h].todo = {},
         Return(h), UNCHANGED correlationVars
  PROVE  Moves(CorrelationOps) /\ CorrelationStep
<1>1. Refreshing(h) /\ call[h].op \in CorrelationOps
  BY RefreshingCall DEF RefreshOps
<1>2. Moves(CorrelationOps)
  BY <1>1, ReturnMoves DEF CorrelationOps
<1>3. call'[h].op = "idle" /\ \A g \in Handlers \ {h} : call'[g] = call[g]
  BY CallAfter, IdleIsOK DEF Return, Proceed
<1>4. /\ PairsOK' /\ Batch' = Batch /\ \A f : Exact(f)' <=> Exact(f)
      /\ UNCHANGED <<stored, confidence, overlapped>>
      /\ \A f : FindBatchMatches(f)' = FindBatchMatches(f)
  BY StillPairs, StillMatches
<1>5. \A g \in Handlers : Refreshing(g)' <=> Refreshing(g) /\ g # h
  BY <1>3 DEF Refreshing
<1>6. ASSUME NEW g \in Handlers
      PROVE  RefreshCallOK(call[g])'
  <2>1. CASE g = h
    BY <1>3, <2>1 DEF RefreshCallOK, RefreshOps
  <2>2. CASE g # h
    BY <1>3, <1>4, <2>2 DEF RefreshesOK, RefreshCallOK
  <2> QED BY <2>1, <2>2
<1>7. ASSUME ~overlapped'
      PROVE  /\ \A g \in Handlers : ~Refreshing(g)'
             /\ (\A f, g \in stored : {f, g} \in Batch <=> Related(f, g))'
             /\ (\A f \in stored : Exact(f))'
  <2>1. ~overlapped /\ AloneOK(call[h]) /\ \A g \in Handlers : ~Refreshing(g)'
    BY <1>1, <1>4, <1>5, <1>7 DEF RefreshesOK
  <2>2. Unpaired(call[h]) = {} /\ Unscored(call[h]) = {}
    BY DEF Unpaired, Unscored
  <2>3. /\ \A f, g \in stored : {f, g} \in Batch <=> Related(f, g)
        /\ \A f \in stored : Exact(f)
    BY <2>1, <2>2 DEF AloneOK
  <2>4. (\A f, g \in stored : {f, g} \in Batch <=> Related(f, g))'
    BY <1>4, <2>3 DEF Related, Near
  <2> QED BY <1>4, <2>1, <2>3, <2>4
<1>8. RefreshesOK'
  BY <1>6, <1>7 DEF RefreshesOK
<1> QED BY <1>2, <1>4, <1>8 DEF CorrelationStep

\* A score is computed from the pairs as they are.
LEMMA ScoreKeeps ==
  ASSUME CallsOK, PairsOK, RefreshesOK, NEW h \in Handlers, RecalculateConfidence(h)
  PROVE  Moves(CorrelationOps) /\ CorrelationStep
<1>0. PICK f, m : f = call[h].finding /\ m = call[h].todo
  OBVIOUS
<1>1. /\ call[h].op = "score" /\ UNCHANGED correlationVars /\ call[h].op \in CorrelationOps
      /\ Refreshing(h) /\ f \in stored /\ m \subseteq stored
  BY <1>0, RefreshingCall DEF RecalculateConfidence, At, RefreshOps, RefreshCallOK
<1>2. CASE m = {} /\ Return(h)
  BY <1>0, <1>1, <1>2, ScoredKeeps
<1>3. ASSUME NEW g \in m,
             Proceed(h, [op |-> "write", finding |-> f, todo |-> m \ {g}, scored |-> g,
                         score |-> Score(g, Correlated(g, {"same_family_batch"}))])
      PROVE  Moves(CorrelationOps) /\ CorrelationStep
  <2>0. PICK s, c : /\ s = Score(g, Correlated(g, {"same_family_batch"}))
                    /\ c = [op |-> "write", finding |-> f, todo |-> m \ {g}, scored |-> g, score |-> s]
    OBVIOUS
  <2>1. Proceed(h, c) /\ call' = [call EXCEPT ![h] = c]
    BY <1>3, <2>0 DEF Proceed
  <2>2. /\ c.op = "write" /\ c.finding = f /\ c.todo = m \ {g} /\ c.scored = g /\ c.score = s
        /\ DOMAIN c = {"op", "finding", "todo", "scored", "score"}
    BY <2>0
  <2>3. CallOK(c) /\ c.op \in CorrelationOps /\ c.op \in RefreshOps
    BY <2>2, RefreshCallIsOK DEF CorrelationCallOK, CorrelationOps, RefreshOps
  <2>4. Moves(CorrelationOps)
    BY <1>1, <2>1, <2>3, ProceedMoves
  <2>5. /\ PairsOK' /\ Batch' = Batch /\ \A x : Exact(x)' <=> Exact(x)
        /\ UNCHANGED <<stored, confidence, overlapped>>
        /\ \A x : FindBatchMatches(x)' = FindBatchMatches(x)
        /\ \A x : Score(x, FindBatchMatches(x))' = Score(x, FindBatchMatches(x))
    BY <1>1, StillPairs, StillMatches
  <2>6. g \in stored /\ s \in Nat /\ s <= Score(g, FindBatchMatches(g))
    BY <1>1, <2>0, CorrelatedArePaired, MatchesAreFinite, ScoreGrows
  <2>7. RefreshCallOK(c)'
    <3>1. c.score <= Score(c.scored, FindBatchMatches(c.scored))'
      BY <2>2, <2>5, <2>6
    <3> QED BY <1>1, <2>2, <2>5, <2>6, <3>1 DEF RefreshCallOK
  <2>8. ASSUME AloneOK(call[h])
        PROVE  AloneOK(c)'
    <3>1. Unpaired(c)' = {} /\ Unpaired(call[h]) = {}
      BY <1>1, <2>2 DEF Unpaired
    <3>2. Unscored(c)' = m /\ Unscored(call[h]) = m
      BY <1>0, <1>1, <2>2 DEF Unscored
    <3>3. \A x, y \in stored : {x, y} \in Batch <=> Related(x, y)
      BY <2>8, <3>1 DEF AloneOK
    <3>4. Correlated(g, {"same_family_batch"}) = FindBatchMatches(g)
      BY <2>6, <3>3, CorrelatedArePaired, MatchesAreRelated
    <3>5. c.score = Score(c.scored, FindBatchMatches(c.scored))'
      BY <2>0, <2>2, <2>5, <3>4
    <3>6. (\A x, y \in stored :
             {x, y} \in Batch <=>
               /\ Related(x, y)
               /\ ~(x = c.finding /\ y \in Unpaired(c)) /\ ~(y = c.finding /\ x \in Unpaired(c)))'
      BY <2>5, <3>1, <3>3 DEF Related, Near
    <3>7. (\A x \in stored \ Unscored(c) : Exact(x))'
      BY <2>5, <2>8, <3>2 DEF AloneOK
    <3> QED BY <2>2, <3>5, <3>6, <3>7 DEF AloneOK
  <2>9. RefreshesOK'
    BY <1>1, <2>1, <2>3, <2>5, <2>7, <2>8, OneRefresh
  <2> QED BY <2>4, <2>5, <2>9 DEF CorrelationStep
<1> QED BY <1>0, <1>2, <1>3 DEF RecalculateConfidence

\* The score is written.
LEMMA WriteKeeps ==
  ASSUME CallsOK, PairsOK, RefreshesOK, NEW h \in Handlers, WriteConfidence(h)
  PROVE  Moves(CorrelationOps) /\ CorrelationStep
<1>0. PICK f, m, g, s, c :
        /\ f = call[h].finding /\ m = call[h].todo /\ g = call[h].scored /\ s = call[h].score
        /\ c = Recalculating(f, m)
  OBVIOUS
<1>1. /\ call[h].op = "write" /\ call[h].op \in CorrelationOps /\ Refreshing(h)
      /\ f \in stored /\ m \subseteq stored /\ g \in stored
      /\ s \in Nat /\ s <= Score(g, FindBatchMatches(g))
  BY <1>0, RefreshingCall DEF WriteConfidence, At, RefreshOps, RefreshCallOK
<1>2. /\ Proceed(h, c) /\ call' = [call EXCEPT ![h] = c] /\ UNCHANGED <<stored, pairs, overlapped>>
      /\ confidence' = [confidence EXCEPT ![g] = s]
  BY <1>0 DEF WriteConfidence, Proceed
<1>3. c.op = "score" /\ c.finding = f /\ c.todo = m /\ DOMAIN c = {"op", "finding", "todo"}
  BY <1>0 DEF Recalculating
<1>4. CallOK(c) /\ c.op \in CorrelationOps /\ c.op \in RefreshOps
  BY <1>3, RefreshCallIsOK DEF CorrelationCallOK, CorrelationOps, RefreshOps
<1>5. Moves(CorrelationOps)
  BY <1>1, <1>2, <1>4, ProceedMoves
<1>6. /\ Batch' = Batch
      /\ \A x : FindBatchMatches(x)' = FindBatchMatches(x)
      /\ \A x : Score(x, FindBatchMatches(x))' = Score(x, FindBatchMatches(x))
  BY <1>2, StillMatches DEF Batch
<1>7. /\ confidence \in [Findings -> Nat] /\ g \in Findings /\ stored \subseteq Findings
      /\ \A x \in Findings : confidence'[x] = IF x = g THEN s ELSE confidence[x]
  BY <1>1, <1>2 DEF PairsOK
<1>8. PairsOK'
  <2>1. confidence' \in [Findings -> Nat] /\ \A x \in Findings \ stored : confidence'[x] = 0
    BY <1>1, <1>2, <1>7 DEF PairsOK
  <2>2. (\A x \in stored : confidence[x] <= Score(x, FindBatchMatches(x)))'
    BY <1>1, <1>2, <1>6, <1>7 DEF PairsOK
  <2>3. (\A q \in Batch : \E x, y \in stored : Related(x, y) /\ q = {x, y})'
    BY <1>2, <1>6 DEF PairsOK, Related, Near
  <2> QED BY <1>2, <2>1, <2>2, <2>3 DEF PairsOK
<1>9. RefreshCallOK(c)'
  BY <1>1, <1>2, <1>3 DEF RefreshCallOK
<1>10. ASSUME AloneOK(call[h])
       PROVE  AloneOK(c)'
  <2>1. Unpaired(c)' = {} /\ Unpaired(call[h]) = {}
    BY <1>1, <1>3 DEF Unpaired
  <2>2. Unscored(c)' = m /\ Unscored(call[h]) = m \cup {g}
    BY <1>0, <1>1, <1>3 DEF Unscored
  <2>3. s = Score(g, FindBatchMatches(g))
    BY <1>0, <1>1, <1>10 DEF AloneOK
  <2>4. (\A x, y \in stored :
           {x, y} \in Batch <=>
             /\ Related(x, y)
             /\ ~(x = c.finding /\ y \in Unpaired(c)) /\ ~(y = c.finding /\ x \in Unpaired(c)))'
    BY <1>2, <1>6, <1>10, <2>1 DEF Related, Near, AloneOK
  <2>5. ASSUME NEW x \in stored \ m
        PROVE  confidence'[x] = Score(x, FindBatchMatches(x))
    BY <1>7, <1>10, <2>2, <2>3 DEF AloneOK, Exact
  <2>6. (\A x \in stored \ Unscored(c) : Exact(x))'
    BY <1>2, <1>6, <2>2, <2>5 DEF Exact
  <2> QED BY <1>3, <2>4, <2>6 DEF AloneOK
<1>11. RefreshesOK'
  BY <1>1, <1>2, <1>4, <1>9, <1>10, OneRefresh
<1> QED BY <1>5, <1>8, <1>11 DEF CorrelationStep

\* The validator pairs findings of its own, of another type, and never
\* replaces a pair that is there.
LEMMA AnalyzeKeeps ==
  ASSUME CallsOK, PairsOK, RefreshesOK, NEW h \in Handlers, NEW f \in Findings, Analyze(h, f)
  PROVE  Moves(CorrelationOps) /\ CorrelationStep
<1>1. PICK named : Begin("validate", h, [op |-> "relate", finding |-> f, named |-> named])
  BY DEF Analyze
<1> DEFINE c == [op |-> "relate", finding |-> f, named |-> named]
<1>2. CallOK(c) /\ c.op = "relate"
  BY RefreshCallIsOK DEF CorrelationCallOK, CorrelationOps, RefreshOps
<1> HIDE DEF c
<1>3. Begin("validate", h, c)
  BY <1>1 DEF c
<1>4. Moves({"idle", "relate"}) /\ Moves(CorrelationOps)
  BY <1>2, <1>3, BeginMoves DEF CorrelationOps
<1>5. Batch' = Batch /\ UNCHANGED <<stored, confidence, overlapped>>
  BY DEF Analyze, correlationVars, Batch
<1> QED BY <1>4, <1>5, OtherRefreshes DEF RefreshOps

LEMMA RelateKeeps ==
  ASSUME CallsOK, PairsOK, RefreshesOK, NEW h \in Handlers, InsertCorrelations(h)
  PROVE  Moves(CorrelationOps) /\ CorrelationStep
<1>0. PICK k : k = call[h]
  OBVIOUS
<1>1. /\ k.op = "relate" /\ DOMAIN k = {"op", "finding", "named"} /\ call[h].op = "relate"
      /\ UNCHANGED <<stored, confidence, overlapped>>
  BY <1>0 DEF InsertCorrelations, At, CallsOK, CallOK, CorrelationCallOK
<1>2. CASE k.named = {} /\ Return(h) /\ UNCHANGED pairs
  <2>1. Moves({"idle", "relate"}) /\ Moves(CorrelationOps)
    BY <1>1, <1>2, ReturnMoves DEF CorrelationOps
  <2>2. Batch' = Batch
    BY <1>2 DEF Batch
  <2> QED BY <1>1, <2>1, <2>2, OtherRefreshes DEF RefreshOps
<1>3. ASSUME NEW g \in k.named, pairs' = AddRow(pairs, {k.finding, g}, "same_signal"),
             Proceed(h, [k EXCEPT !.named = @ \ {g}])
      PROVE  Moves(CorrelationOps) /\ CorrelationStep
  <2>0. PICK c : c = [k EXCEPT !.named = @ \ {g}]
    OBVIOUS
  <2>1. c.op = "relate" /\ DOMAIN c = {"op", "finding", "named"} /\ Proceed(h, c)
    BY <1>1, <1>3, <2>0
  <2>2. CallOK(c)
    BY <2>1, RefreshCallIsOK DEF CorrelationCallOK, CorrelationOps, RefreshOps
  <2>3. Moves({"idle", "relate"}) /\ Moves(CorrelationOps)
    BY <1>1, <2>1, <2>2, ProceedMoves DEF CorrelationOps
  <2>4. Batch' = Batch
    BY <1>3 DEF Batch, AddRow
  <2> QED BY <1>1, <2>3, <2>4, OtherRefreshes DEF RefreshOps
<1> QED BY <1>0, <1>2, <1>3 DEF InsertCorrelations

LEMMA CorrelateKeeps ==
  ASSUME CallsOK, PairsOK, RefreshesOK, CorrelationNext
  PROVE  Moves(CorrelationOps) /\ CorrelationStep
BY InsertKeeps, AnalyzeKeeps, MatchKeeps, ClearKeeps, PairKeeps, ScoreKeeps, WriteKeeps, RelateKeeps
   DEF CorrelationNext

\* Once a refresh was cut off, nothing is promised but the bounds.
LEMMA CutOffCorrelation ==
  ASSUME CallsOK, PairsOK, RefreshesOK, NEW h \in Handlers, CutOff(h), CorrelationCutOff(h)
  PROVE  CorrelationStep
<1>1. call'[h] = Idle /\ \A g \in Handlers \ {h} : call'[g] = call[g]
  BY CallAfter DEF CutOff
<1>2. call'[h].op = "idle" /\ UNCHANGED <<stored, pairs, confidence>>
  BY <1>1, IdleIsOK DEF CorrelationCutOff
<1>3. Batch' = Batch /\ \A f : FindBatchMatches(f)' = FindBatchMatches(f)
  BY <1>2, StillMatches DEF Batch
<1>4. \A f : Score(f, FindBatchMatches(f))' = Score(f, FindBatchMatches(f))
  BY <1>2, StillMatches
<1>5. PairsOK'
  <2>1. overlapped' \in BOOLEAN
    BY DEF CorrelationCutOff, Refreshing
  <2> QED BY <1>2, <1>3, <1>4, <2>1 DEF PairsOK, Related, Near
<1>6. ASSUME NEW g \in Handlers
      PROVE  RefreshCallOK(call[g])'
  <2>1. CASE g = h
    BY <1>2, <2>1 DEF RefreshCallOK, RefreshOps
  <2>2. CASE g # h
    BY <1>1, <1>2, <1>3, <2>2 DEF RefreshesOK, RefreshCallOK
  <2> QED BY <2>1, <2>2
<1>7. CASE Refreshing(h)
  BY <1>5, <1>6, <1>7 DEF CorrelationCutOff, CorrelationStep, RefreshesOK
<1>8. CASE ~Refreshing(h)
  <2>1. /\ \A g \in Handlers : Refreshing(g)' <=> Refreshing(g)
        /\ \A g \in Handlers : Refreshing(g) => call'[g] = call[g]
    BY <1>1, <1>2, <1>8 DEF Refreshing
  <2>2. ASSUME ~overlapped'
        PROVE  ~overlapped
    BY <2>2 DEF CorrelationCutOff
  <2>3. \A f : Exact(f)' <=> Exact(f)
    BY <1>2, <1>3 DEF Exact
  <2>4. ASSUME ~overlapped, NEW g \in Handlers, Refreshing(g)
        PROVE  AloneOK(call[g])'
    <3>1. AloneOK(call[g]) /\ call'[g] = call[g]
      BY <2>1, <2>4 DEF RefreshesOK
    <3>2. Unpaired(call[g])' = Unpaired(call[g]) /\ Unscored(call[g])' = Unscored(call[g])
      BY <1>2, <1>3, <3>1 DEF Unpaired, Unscored
    <3> QED BY <1>2, <1>3, <2>3, <3>1, <3>2 DEF AloneOK, Related, Near
  <2>5. RefreshesOK'
    BY <1>2, <1>3, <1>6, <2>1, <2>2, <2>3, <2>4 DEF RefreshesOK, Related, Near
  <2> QED BY <1>5, <2>5 DEF CorrelationStep
<1> QED BY <1>7, <1>8

LEMMA CorrelationProperties ==
  ASSUME PairsOK, RefreshesOK
  PROVE  ConfidenceIsEarned
<1>1. ASSUME ~overlapped, \A h \in Handlers : ~Refreshing(h), NEW f \in stored
      PROVE  /\ Correlated(f, {"same_family_batch"}) = FindBatchMatches(f)
             /\ confidence[f] = Score(f, FindBatchMatches(f))
  <2>1. Exact(f) /\ \A g \in stored : {f, g} \in Batch <=> Related(f, g)
    BY <1>1 DEF RefreshesOK
  <2> QED BY <2>1, CorrelatedArePaired, MatchesAreRelated DEF Exact
<1> QED BY <1>1 DEF ConfidenceIsEarned, PairsOK

-----------------------------------------------------------------------------
(* Summaries.                                                              *)

SummariesStep == StatesOK' /\ (\A h \in Handlers : PreparedOK(call[h])') /\ SummariesAreAwaited'

Lacks(f) == summaries[f].state = "pending" /\ ~summaries[f].text

SummaryOf(f, n) == [to |-> "summarize", about |-> f, tries |-> n]

Waits(f) == \E n \in 0..MaxRetry : SummaryOf(f, n) \in DOMAIN tasks

Serves(h, f) == Summarizing(h) /\ call[h].finding = f

Awaited(f) == Signature[f] \in forsaken \/ Waits(f) \/ \E h \in Handlers : Serves(h, f)

\* What the labels say of a call.
LEMMA SummaryCall ==
  ASSUME CallsOK, NEW h \in Handlers
  PROVE  /\ Summarizing(h) <=> call[h].op \in SummaryOps \ {"idle"}
         /\ Summarizing(h) => call[h].finding \in Summarized /\ (Requested(call[h]) \/ Agent(call[h]))
<1> DEFINE c == call[h]
<1>1. CallOK(c)
  BY DEF CallsOK
<1>2. CASE c.op \in SummaryOps \ {"idle"}
  <2>1. c.finding \in Summarized /\ (Requested(c) \/ Agent(c))
    BY <1>1, <1>2 DEF CallOK, SummaryCallOK
  <2> QED BY <1>2, <2>1 DEF Summarizing, Requested, Agent
<1>3. CASE c.op \in ThreatOps \cup CorrelationOps
  <2>1. "then" \notin DOMAIN c
    BY <1>1, <1>3, IdleIsOK DEF CallOK, ThreatCallOK, CorrelationCallOK, ThreatOps, CorrelationOps,
                                RefreshOps, VisitOps, Idle
  <2> QED BY <1>3, <2>1 DEF Summarizing, ThreatOps, CorrelationOps, RefreshOps, VisitOps, SummaryOps,
                            RequestOps, AgentOps
<1>4. CASE c.op \in TriageOps
  <2>1. "then" \notin DOMAIN c
    BY <1>1, <1>4 DEF CallOK, TriageCallOK, TriageOps, ReadOps, EditOps, TicketOps, Idle
  <2> QED BY <1>4, <2>1 DEF Summarizing, TriageOps, ReadOps, EditOps, TicketOps, SummaryOps, RequestOps, AgentOps
<1>5. CASE c.op \in DeliveryOps
  <2>1. "then" \notin DOMAIN c
    BY <1>1, <1>5 DEF CallOK, DeliveryCallOK, DeliveryOps, TaskOps, PostedOps, Idle
  <2> QED BY <1>5, <2>1 DEF Summarizing, DeliveryOps, TaskOps, PostedOps, SummaryOps, RequestOps, AgentOps
<1> QED BY <1>1, <1>2, <1>3, <1>4, <1>5 DEF CallOK, AllOps, ThreatOps

\* A worker is an agent or works for another task.
LEMMA WorkerCall ==
  ASSUME CallsOK, NEW h \in Handlers, Works(h)
  PROVE  /\ TaskOK(call[h].task)
         /\ \/ Agent(call[h]) /\ Summarizing(h)
            \/ call[h].task.to # "summarize" /\ ~Summarizing(h)
<1> DEFINE c == call[h]
<1>1. CallOK(c) /\ "task" \in DOMAIN c
  BY DEF CallsOK, Works
<1>2. CASE c.op \in SummaryOps \ {"idle"}
  <2>1. Agent(c)
    BY <1>1, <1>2 DEF CallOK, SummaryCallOK, Requested
  <2> QED BY <1>2, <2>1, SummaryCall DEF Agent
<1>3. CASE c.op \in TaskOps \cup PostedOps
  <2>1. TaskOK(c.task) /\ c.task.to # "summarize"
    BY <1>1, <1>3 DEF CallOK, DeliveryCallOK
  <2>2. c.op \notin SummaryOps \ {"idle"}
    BY <1>3 DEF TaskOps, PostedOps, SummaryOps, RequestOps, AgentOps
  <2> QED BY <2>1, <2>2, SummaryCall
<1>4. CASE c.op \notin (SummaryOps \ {"idle"}) \cup TaskOps \cup PostedOps
  <2>1. CASE c.op \in ThreatOps \cup CorrelationOps
    BY <1>1, <2>1 DEF CallOK, ThreatCallOK, CorrelationCallOK, ThreatOps, CorrelationOps,
                                RefreshOps, VisitOps, Idle
  <2>2. CASE c.op \in TriageOps
    BY <1>1, <2>2 DEF CallOK, TriageCallOK, TriageOps, ReadOps, EditOps, TicketOps, Idle
  <2>3. CASE c.op \in {"save", "list", "alert", "conclude"}
    BY <1>1, <2>3 DEF CallOK, DeliveryCallOK
  <2> QED BY <1>1, <1>4, <2>1, <2>2, <2>3 DEF CallOK, AllOps, DeliveryOps, ThreatOps
<1> QED BY <1>2, <1>3, <1>4

LEMMA SubmittedIsAwaited ==
  ASSUME CallsOK, NEW f \in Summarized
  PROVE  Submitted(f) <=> Waits(f) \/ \E h \in Handlers : Works(h) /\ Serves(h, f)
<1>1. \A n \in 0..MaxRetry : [Summarize(f) EXCEPT !.tries = n] = SummaryOf(f, n)
  BY DEF Summarize, Task, SummaryOf
<1>2. \A n \in 0..MaxRetry : BagIn([Summarize(f) EXCEPT !.tries = n], tasks) <=> SummaryOf(f, n) \in DOMAIN tasks
  BY <1>1 DEF BagIn, BagToSet
<1>3. ASSUME NEW h \in Handlers, Works(h)
      PROVE  call[h].task.to = "summarize" /\ call[h].task.about = f <=> Serves(h, f)
  BY <1>3, WorkerCall DEF Serves, Agent
<1> QED BY <1>2, <1>3 DEF Submitted, Waits

LEMMA AwaitedSays ==
  ASSUME CallsOK
  PROVE  SummariesAreAwaited <=> \A f \in Summarized : Lacks(f) => Awaited(f)
BY SubmittedIsAwaited DEF SummariesAreAwaited, Lacks, Awaited, Serves

\* A step of one call leaves nobody behind that it or another waited for.
LEMMA StillAwaited ==
  ASSUME CallsOK, CallsOK', SummariesAreAwaited, NEW h \in Handlers,
         \A g \in Handlers \ {h} : call'[g] = call[g],
         forsaken \subseteq forsaken',
         \A t \in DOMAIN tasks : t.to = "summarize" => t \in DOMAIN tasks' \/ Awaited(t.about)',
         \A f \in Summarized : Lacks(f)' => Lacks(f) \/ Awaited(f)',
         \A f \in Summarized : Lacks(f)' /\ Serves(h, f) => Awaited(f)'
  PROVE  SummariesAreAwaited'
<1>1. ASSUME NEW f \in Summarized, Lacks(f)'
      PROVE  Awaited(f)'
  <2>1. CASE Lacks(f) /\ ~Serves(h, f)
    <3>1. Awaited(f)
      BY <2>1, AwaitedSays
    <3>2. CASE Signature[f] \in forsaken
      BY <3>2 DEF Awaited
    <3>3. CASE Waits(f)
      <4>1. PICK n \in 0..MaxRetry : SummaryOf(f, n) \in DOMAIN tasks
        BY <3>3 DEF Waits
      <4>2. SummaryOf(f, n) \in DOMAIN tasks' \/ Awaited(f)'
        BY <4>1 DEF SummaryOf
      <4> QED BY <4>2 DEF Awaited, Waits
    <3>4. ASSUME NEW g \in Handlers, Serves(g, f)
          PROVE  Awaited(f)'
      <4>1. g # h /\ call'[g] = call[g]
        BY <2>1, <3>4
      <4> QED BY <3>4, <4>1 DEF Awaited, Serves, Summarizing
    <3> QED BY <3>1, <3>2, <3>3, <3>4 DEF Awaited
  <2>2. CASE Lacks(f) /\ Serves(h, f)
    BY <1>1, <2>2
  <2>3. CASE ~Lacks(f)
    BY <1>1, <2>3
  <2> QED BY <2>1, <2>2, <2>3
<1>2. (\A f \in Summarized : Lacks(f) => Awaited(f))'
  BY <1>1
<1>3. (SummariesAreAwaited <=> \A f \in Summarized : Lacks(f) => Awaited(f))'
  BY AwaitedSays, PTL
<1> QED BY <1>2, <1>3

LEMMA OtherSummaries ==
  ASSUME CallsOK, SummariesOK, NEW ops, ops \cap SummaryOps \subseteq {"idle"}, Moves(ops), TasksStep,
         UNCHANGED summaryVars
  PROVE  SummariesStep
<1>1. UNCHANGED <<summaries, summaryCache, forsaken>> /\ CallsOK'
  BY DEF summaryVars, Moves
<1>2. \A h \in Handlers :
        \/ call'[h] = call[h]
        \/ call[h].op \notin SummaryOps \ {"idle"} /\ call'[h].op \notin SummaryOps \ {"idle"}
  BY DEF Moves
<1>3. \A h \in Handlers : Summarizing(h) => call'[h] = call[h]
  BY <1>2, SummaryCall
<1>4. StatesOK'
  BY <1>1 DEF SummariesOK, StatesOK
<1>5. ASSUME NEW h \in Handlers
      PROVE  PreparedOK(call[h])'
  BY <1>1, <1>2 DEF SummariesOK, PreparedOK, SummaryOps, RequestOps, AgentOps
<1>6. \A f \in Summarized : Lacks(f)' <=> Lacks(f)
  BY <1>1 DEF Lacks
<1>7. \A f \in Summarized : Waits(f) => Waits(f)'
  BY DEF Waits, TasksStep, SummaryOf
<1>8. \A f \in Summarized : (\E h \in Handlers : Serves(h, f)) => (\E h \in Handlers : Serves(h, f))'
  BY <1>3 DEF Serves, Summarizing
<1>9. \A f \in Summarized : Awaited(f) => Awaited(f)'
  BY <1>1, <1>7, <1>8 DEF Awaited
<1>10. (\A f \in Summarized : Lacks(f) => Awaited(f))'
  BY <1>6, <1>9, AwaitedSays DEF SummariesOK
<1>11. (SummariesAreAwaited <=> \A f \in Summarized : Lacks(f) => Awaited(f))'
  BY <1>1, AwaitedSays, PTL
<1> QED BY <1>4, <1>5, <1>10, <1>11 DEF SummariesStep

SummaryStep == Moves(SummaryOps) /\ TasksStep /\ SummariesStep

\* Findings keep their text, and their signature while they are pending.
SummariesGrow ==
  /\ summaries' \in [Summarized -> SummaryState]
  /\ \A f \in Summarized :
       /\ summaries[f].text => summaries'[f].text
       /\ summaries'[f].state = "pending" => summaries'[f].signed /\ f \notin Described

\* A step of a call of this component to another.
LEMMA CallContinues ==
  ASSUME CallsOK, TasksOK, SummariesOK, NEW h \in Handlers, NEW c,
         call' = [call EXCEPT ![h] = c], left' \in [Kinds -> Nat],
         call[h].op \in SummaryOps \ {"idle"}, c.op \in SummaryOps \ {"idle"},
         c.finding = call[h].finding, Requested(c) \/ Agent(c),
         PreparedOK(c)', SummariesGrow, UNCHANGED <<taskVars, forsaken>>,
         \A f \in Summarized \ {c.finding} : Lacks(f)' => Lacks(f)
  PROVE  SummaryStep
<1>1. call'[h] = c /\ \A g \in Handlers \ {h} : call'[g] = call[g]
  BY CallAfter
<1>2. c.finding \in Summarized /\ "op" \in DOMAIN c
  BY SummaryCall DEF Requested, Agent
<1>3. CallOK(c)
  BY <1>2, SummaryCallIsOK DEF SummaryCallOK
<1>4. Moves(SummaryOps)
  BY <1>3, MoveMoves
<1>5. TasksStep
  BY UnchangedTasks
<1>6. StatesOK'
  BY DEF SummariesGrow, StatesOK
<1>7. ASSUME NEW g \in Handlers
      PROVE  PreparedOK(call[g])'
  <2>1. CASE g = h
    BY <1>1, <2>1 DEF PreparedOK
  <2>2. CASE g # h
    <3>1. call'[g] = call[g] /\ PreparedOK(call[g])
      BY <1>1, <2>2 DEF SummariesOK
    <3>2. call[g].op \in {"enqueue", "generate"} => call[g].finding \in Summarized
      BY DEF CallsOK, CallOK, SummaryCallOK, SummaryOps, RequestOps, AgentOps
    <3> QED BY <3>1, <3>2 DEF PreparedOK, SummariesGrow
  <2> QED BY <2>1, <2>2
<1>8. Serves(h, c.finding)'
  BY <1>1 DEF Serves, Summarizing, Requested, Agent
<1>9. SummariesAreAwaited'
  <2>1. \A f \in Summarized : Lacks(f)' => Lacks(f) \/ Awaited(f)'
    BY <1>8 DEF Awaited
  <2>2. \A f \in Summarized : Lacks(f)' /\ Serves(h, f) => Awaited(f)'
    BY <1>8 DEF Awaited, Serves
  <2>3. forsaken \subseteq forsaken' /\ \A t \in DOMAIN tasks : t \in DOMAIN tasks'
    BY DEF taskVars
  <2> QED BY <1>1, <1>4, <2>1, <2>2, <2>3, StillAwaited DEF Moves, SummariesOK
<1> QED BY <1>4, <1>5, <1>6, <1>7, <1>9 DEF SummariesStep, SummaryStep

\* The end of a call, after which its finding lacks nothing or is waited for.
LEMMA CallEnds ==
  ASSUME CallsOK, SummariesOK, NEW h \in Handlers, call[h].op \in SummaryOps, Return(h), TasksStep,
         SummariesGrow, UNCHANGED forsaken,
         \A f \in Summarized : Lacks(f)' => Lacks(f),
         \A f \in Summarized : Lacks(f)' /\ Serves(h, f) => Awaited(f)'
  PROVE  SummaryStep
<1>1. call'[h] = Idle /\ call'[h].op = "idle" /\ \A g \in Handlers \ {h} : call'[g] = call[g]
  BY CallAfter, IdleIsOK DEF Return, Proceed
<1>2. Moves(SummaryOps)
  BY ReturnMoves DEF SummaryOps
<1>3. StatesOK'
  BY DEF SummariesGrow, StatesOK
<1>4. ASSUME NEW g \in Handlers
      PROVE  PreparedOK(call[g])'
  <2>1. CASE g = h
    BY <1>1, <2>1 DEF PreparedOK
  <2>2. CASE g # h
    <3>1. call'[g] = call[g] /\ PreparedOK(call[g])
      BY <1>1, <2>2 DEF SummariesOK
    <3>2. call[g].op \in {"enqueue", "generate"} => call[g].finding \in Summarized
      BY DEF CallsOK, CallOK, SummaryCallOK, SummaryOps, RequestOps, AgentOps
    <3> QED BY <3>1, <3>2 DEF PreparedOK, SummariesGrow
  <2> QED BY <2>1, <2>2
<1>5. SummariesAreAwaited'
  BY <1>1, <1>2, StillAwaited DEF Moves, SummariesOK, TasksStep
<1> QED BY <1>2, <1>3, <1>4, <1>5 DEF SummariesStep, SummaryStep

LEMMA StillGrow ==
  ASSUME SummariesOK, UNCHANGED summaries
  PROVE  SummariesGrow /\ \A f \in Summarized : Lacks(f)' <=> Lacks(f)
BY DEF SummariesOK, StatesOK, SummariesGrow, Lacks

\* What becomes of a call.
Found(k, op, state) == [k EXCEPT !.op = op, !.state = state]

Claimed(k) == [k EXCEPT !.op = "mark", !.claimed = TRUE]

LEMMA FoundForm ==
  ASSUME NEW k, NEW op \in {"mark", "claim"}, NEW state, Requested(k) \/ Agent(k),
         NEW c, c = Found(k, op, state)
  PROVE  c.op = op /\ c.finding = k.finding /\ (Requested(c) \/ Agent(c))
BY DEF Requested, Agent, RequestOps, AgentOps, Found

LEMMA ClaimedForm ==
  ASSUME NEW k, Requested(k) \/ Agent(k), NEW c, c = Claimed(k)
  PROVE  c.op = "mark" /\ c.finding = k.finding /\ (Requested(c) \/ Agent(c))
BY DEF Requested, Agent, RequestOps, AgentOps, Claimed

LEMMA PreparedForm ==
  ASSUME NEW k, NEW state, Requested(k) \/ Agent(k), NEW c, c = Prepared(k, state)
  PROVE  /\ c.op \in {"enqueue", "generate"} /\ c.op \in SummaryOps \ {"idle"}
         /\ c.state = state /\ c.finding = k.finding
         /\ Requested(c) \/ Agent(c)
BY DEF Requested, Agent, Prepared, RequestOps, AgentOps, SummaryOps

LEMMA CallOfSummary ==
  ASSUME CallsOK, SummariesOK, NEW h \in Handlers, call[h].op \in SummaryOps \ {"idle"}
  PROVE  /\ call[h].finding \in Summarized /\ (Requested(call[h]) \/ Agent(call[h]))
         /\ PreparedOK(call[h])
BY SummaryCall DEF SummariesOK

LEMMA PrepareKeeps ==
  ASSUME CallsOK, TasksOK, SummariesOK, NEW h \in Handlers, PrepareAISummary(h)
  PROVE  SummaryStep
<1>0. PICK k, f : k = call[h] /\ f = k.finding
  OBVIOUS
<1>1. /\ k.op = "prepare" /\ UNCHANGED <<forsaken, taskVars>> /\ call[h].op \in SummaryOps \ {"idle"}
      /\ left' = left /\ left' \in [Kinds -> Nat] /\ summaries \in [Summarized -> SummaryState]
      /\ f \in Summarized /\ (Requested(k) \/ Agent(k))
  BY <1>0, CallOfSummary DEF PrepareAISummary, At, SummaryOps, RequestOps, Proceed, CallsOK, SummariesOK, StatesOK
<1>2. CASE /\ f \in Described
           /\ summaries' = [summaries EXCEPT ![f].state = "none"]
           /\ Proceed(h, Prepared(k, "none"))
  <2>0. PICK c : c = Prepared(k, "none")
    OBVIOUS
  <2>1. c.op \in SummaryOps \ {"idle"} /\ c.finding = f /\ c.state = "none" /\ (Requested(c) \/ Agent(c))
    BY <1>0, <1>1, <2>0, PreparedForm
  <2>2. PreparedOK(c)'
    <3>1. c.op \in {"enqueue", "generate"}
      BY <1>1, <2>0, PreparedForm
    <3> QED BY <2>1, <3>1 DEF PreparedOK
  <2>3. /\ summaries' \in [Summarized -> SummaryState]
        /\ \A g \in Summarized : summaries'[g] = IF g = f THEN [summaries[f] EXCEPT !.state = "none"] ELSE summaries[g]
    BY <1>1, <1>2 DEF SummaryState
  <2>4. SummariesGrow /\ \A g \in Summarized \ {f} : Lacks(g)' => Lacks(g)
    BY <1>1, <2>3 DEF SummariesGrow, Lacks, SummariesOK, StatesOK, SummaryState
  <2> QED BY <1>0, <1>1, <1>2, <2>0, <2>1, <2>2, <2>4, CallContinues DEF Proceed
<1>3. CASE /\ summaries' = [summaries EXCEPT ![f] = [state |-> "ready", text |-> TRUE, signed |-> TRUE]]
           /\ Proceed(h, Prepared(k, "ready"))
  <2>0. PICK c : c = Prepared(k, "ready")
    OBVIOUS
  <2>1. c.op \in SummaryOps \ {"idle"} /\ c.finding = f /\ c.state = "ready" /\ (Requested(c) \/ Agent(c))
    BY <1>0, <1>1, <2>0, PreparedForm
  <2>2. c.op \in {"enqueue", "generate"}
    BY <1>1, <2>0, PreparedForm
  <2>3. /\ summaries' \in [Summarized -> SummaryState]
        /\ \A g \in Summarized : summaries'[g] = IF g = f THEN [state |-> "ready", text |-> TRUE, signed |-> TRUE]
                                                          ELSE summaries[g]
    BY <1>1, <1>3 DEF SummaryState
  <2>4. SummariesGrow /\ \A g \in Summarized \ {f} : Lacks(g)' => Lacks(g)
    BY <1>1, <2>3 DEF SummariesGrow, Lacks, SummariesOK, StatesOK, SummaryState
  <2>5. PreparedOK(c)'
    BY <1>1, <2>1, <2>2, <2>3 DEF PreparedOK
  <2> QED BY <1>0, <1>1, <1>3, <2>0, <2>1, <2>4, <2>5, CallContinues DEF Proceed
<1>4. ASSUME f \notin Described, NEW op \in {"mark", "claim"}, NEW found,
             Proceed(h, Found(k, op, found)), UNCHANGED summaries
      PROVE  SummaryStep
  <2>0. PICK c : c = Found(k, op, found)
    OBVIOUS
  <2>1. c.op \in SummaryOps \ {"idle"} /\ c.op = op /\ c.finding = f /\ (Requested(c) \/ Agent(c))
    BY <1>0, <1>1, <2>0, FoundForm DEF SummaryOps, RequestOps, AgentOps
  <2>2. PreparedOK(c)'
    BY <1>4, <2>1 DEF PreparedOK
  <2>3. SummariesGrow /\ \A g \in Summarized : Lacks(g)' => Lacks(g)
    BY <1>4, StillGrow
  <2> QED BY <1>0, <1>1, <1>4, <2>0, <2>1, <2>2, <2>3, CallContinues DEF Proceed
<1>5. CASE /\ f \notin Described
           /\ \E found : \E op \in {"mark", "claim"} : Proceed(h, Found(k, op, found))
           /\ UNCHANGED summaries
  BY <1>4, <1>5
<1>6. \/ /\ f \in Described
         /\ summaries' = [summaries EXCEPT ![f].state = "none"]
         /\ Proceed(h, Prepared(k, "none"))
      \/ /\ summaries' = [summaries EXCEPT ![f] = [state |-> "ready", text |-> TRUE, signed |-> TRUE]]
         /\ Proceed(h, Prepared(k, "ready"))
      \/ /\ f \notin Described
         /\ \E found : \E op \in {"mark", "claim"} : Proceed(h, Found(k, op, found))
         /\ UNCHANGED summaries
  BY <1>0 DEF PrepareAISummary, Found
<1> QED BY <1>2, <1>3, <1>5, <1>6

LEMMA ClaimKeeps ==
  ASSUME CallsOK, TasksOK, SummariesOK, NEW h \in Handlers, ClaimSummary(h)
  PROVE  SummaryStep
<1>0. PICK k, c : k = call[h] /\ c = Claimed(k)
  OBVIOUS
<1>1. /\ k.op = "claim" /\ UNCHANGED <<summaries, forsaken, taskVars>> /\ call[h].op \in SummaryOps \ {"idle"}
      /\ call' = [call EXCEPT ![h] = c] /\ left' \in [Kinds -> Nat]
      /\ k.finding \in Summarized /\ k.finding \notin Described /\ (Requested(k) \/ Agent(k))
  BY <1>0, CallOfSummary DEF ClaimSummary, Claimed, At, SummaryOps, RequestOps, Proceed, CallsOK, PreparedOK
<1>2. c.op = "mark" /\ c.finding = k.finding /\ (Requested(c) \/ Agent(c))
  BY <1>0, <1>1, ClaimedForm
<1>3. PreparedOK(c)'
  BY <1>1, <1>2 DEF PreparedOK
<1>4. SummariesGrow /\ \A g \in Summarized : Lacks(g)' => Lacks(g)
  BY <1>1, StillGrow
<1>5. c.op \in SummaryOps \ {"idle"}
  BY <1>2 DEF SummaryOps, RequestOps
<1> QED BY <1>0, <1>1, <1>2, <1>3, <1>4, <1>5, CallContinues

LEMMA MarkPendingKeeps ==
  ASSUME CallsOK, TasksOK, SummariesOK, NEW h \in Handlers, MarkPending(h)
  PROVE  SummaryStep
<1>0. PICK k, f, c : k = call[h] /\ f = k.finding /\ c = Prepared(k, "pending")
  OBVIOUS
<1>1. /\ k.op = "mark" /\ UNCHANGED <<forsaken, taskVars>> /\ call[h].op \in SummaryOps \ {"idle"}
      /\ call' = [call EXCEPT ![h] = c] /\ left' \in [Kinds -> Nat]
      /\ f \in Summarized /\ f \notin Described /\ (Requested(k) \/ Agent(k))
      /\ summaries \in [Summarized -> SummaryState]
  BY <1>0, CallOfSummary DEF MarkPending, At, SummaryOps, RequestOps, Proceed, CallsOK, PreparedOK,
                             SummariesOK, StatesOK
<1>2. summaries' = [summaries EXCEPT ![f] = [summaries[f] EXCEPT !.state = "pending", !.signed = TRUE]]
  BY <1>0, <1>1 DEF MarkPending
<1>3. c.op \in {"enqueue", "generate"} /\ c.finding = f /\ c.state = "pending" /\ (Requested(c) \/ Agent(c))
  BY <1>0, <1>1, PreparedForm
<1>4. PreparedOK(c)' /\ c.op \in SummaryOps \ {"idle"}
  BY <1>3 DEF PreparedOK, SummaryOps, RequestOps, AgentOps
<1>5. /\ summaries' \in [Summarized -> SummaryState]
      /\ \A g \in Summarized \ {f} : summaries'[g] = summaries[g]
      /\ summaries'[f].text = summaries[f].text /\ summaries'[f].signed = TRUE
  BY <1>1, <1>2 DEF SummaryState
<1>6. SummariesGrow /\ \A g \in Summarized \ {f} : Lacks(g)' => Lacks(g)
  BY <1>1, <1>5 DEF SummariesGrow, Lacks, SummariesOK, StatesOK, SummaryState
<1> QED BY <1>0, <1>1, <1>3, <1>4, <1>6, CallContinues

LEMMA PrepareFailsKeeps ==
  ASSUME CallsOK, TasksOK, SummariesOK, NEW h \in Handlers, PrepareFails(h)
  PROVE  SummaryStep
<1>0. PICK k, s, c : k = call[h] /\ s = "unknown" /\ c = Prepared(k, s)
  OBVIOUS
<1>1. /\ UNCHANGED <<summaries, forsaken, taskVars>> /\ call[h].op \in SummaryOps \ {"idle"}
      /\ call' = [call EXCEPT ![h] = c] /\ left' \in [Kinds -> Nat]
      /\ k.finding \in Summarized /\ (Requested(k) \/ Agent(k))
  BY <1>0, CallOfSummary, CountKeeps DEF PrepareFails, SummaryOps, RequestOps, CallsOK, summaryVars
<1>2. c.op \in {"enqueue", "generate"} /\ c.finding = k.finding /\ c.state = s /\ (Requested(c) \/ Agent(c))
  BY <1>0, <1>1, PreparedForm
<1>3. PreparedOK(c)' /\ c.op \in SummaryOps \ {"idle"}
  BY <1>0, <1>2 DEF PreparedOK, SummaryOps, RequestOps, AgentOps
<1>4. SummariesGrow /\ \A g \in Summarized : Lacks(g)' => Lacks(g)
  BY <1>1, StillGrow
<1> QED BY <1>0, <1>1, <1>2, <1>3, <1>4, CallContinues

\* A call begins.
LEMMA CallBegins ==
  ASSUME CallsOK, SummariesOK, NEW h \in Handlers, NEW kind, NEW c, Begin(kind, h, c),
         c.op \in {"prepare", "source"}, c.finding \in Summarized, Requested(c) \/ Agent(c),
         UNCHANGED summaryVars,
         \A t \in DOMAIN tasks : t.to = "summarize" => t \in DOMAIN tasks' \/ t.about = c.finding
  PROVE  Moves(SummaryOps) /\ SummariesStep
<1>1. /\ call' = [call EXCEPT ![h] = c] /\ call[h] = Idle /\ UNCHANGED <<summaries, forsaken>>
      /\ "op" \in DOMAIN c /\ c.op \in SummaryOps \ {"idle"}
  BY DEF Begin, summaryVars, Requested, Agent, SummaryOps, RequestOps, AgentOps
<1>2. call'[h] = c /\ \A g \in Handlers \ {h} : call'[g] = call[g]
  BY <1>1, CallAfter
<1>3. CallOK(c)
  BY <1>1, SummaryCallIsOK DEF SummaryCallOK
<1>4. Moves(SummaryOps)
  BY <1>1, <1>3, BeginMoves DEF SummaryOps
<1>5. StatesOK'
  BY <1>1 DEF SummariesOK, StatesOK
<1>6. ASSUME NEW g \in Handlers
      PROVE  PreparedOK(call[g])'
  BY <1>1, <1>2 DEF SummariesOK, PreparedOK
<1>7. Serves(h, c.finding)'
  BY <1>2 DEF Serves, Summarizing, Requested, Agent
<1>8. ~Summarizing(h)
  BY <1>1, SummaryCall, IdleIsOK
<1>9. SummariesAreAwaited'
  <2>1. \A f \in Summarized : Lacks(f)' => Lacks(f)
    BY <1>1 DEF Lacks
  <2>2. \A t \in DOMAIN tasks : t.to = "summarize" => t \in DOMAIN tasks' \/ Awaited(t.about)'
    BY <1>7 DEF Awaited
  <2> QED BY <1>1, <1>2, <1>4, <1>8, <2>1, <2>2, StillAwaited DEF Moves, SummariesOK, Serves
<1> QED BY <1>4, <1>5, <1>6, <1>9 DEF SummariesStep

LEMMA RequestKeeps ==
  ASSUME CallsOK, TasksOK, SummariesOK, NEW h \in Handlers, NEW f \in Summarized,
         RequestFindingSummary(h, f)
  PROVE  SummaryStep
<1>0. PICK c : c = [op |-> "prepare", finding |-> f, then |-> "enqueue", state |-> "unknown", claimed |-> FALSE]
  OBVIOUS
<1>1. Begin("summary", h, c) /\ UNCHANGED <<summaryVars, taskVars>>
  BY <1>0 DEF RequestFindingSummary
<1>2. c.op = "prepare" /\ c.finding = f /\ Requested(c)
  BY <1>0 DEF Requested, RequestOps
<1>3. \A t \in DOMAIN tasks : t \in DOMAIN tasks'
  BY <1>1 DEF taskVars
<1> QED BY <1>1, <1>2, <1>3, CallBegins, UnchangedTasks DEF SummaryStep

LEMMA LeaseSummaryKeeps ==
  ASSUME CallsOK, TasksOK, SummariesOK, NEW h \in Handlers, NEW t, HandleFindingSummarize(h, t)
  PROVE  Moves(SummaryOps) /\ TasksOK' /\ SummariesStep
<1>0. PICK d, c : /\ d = [op |-> "source", finding |-> t.about, then |-> "generate",
                          state |-> "unknown", claimed |-> FALSE, task |-> t]
                  /\ c = [d EXCEPT !.task = t]
  OBVIOUS
<1>1. Lease(h, t, d) /\ t.to = "summarize" /\ UNCHANGED summaryVars
  BY <1>0 DEF HandleFindingSummarize
<1>2. /\ TaskOK(t) /\ TasksOK' /\ \A u \in DOMAIN tasks : u # t => u \in DOMAIN tasks'
  BY <1>1, LeasedTasks
<1>3. Begin("worker", h, c)
  BY <1>0, <1>1 DEF Lease
<1>4. /\ c.op = "source" /\ c.finding = t.about /\ c.task = t /\ c.then = "generate"
      /\ DOMAIN c = {"op", "finding", "then", "state", "claimed", "task"}
  BY <1>0
<1>5. Agent(c) /\ c.finding \in Summarized
  BY <1>1, <1>2, <1>4 DEF Agent, AgentOps, TaskOK
<1>6. \A u \in DOMAIN tasks : u.to = "summarize" => u \in DOMAIN tasks' \/ u.about = c.finding
  BY <1>2, <1>4
<1> QED BY <1>1, <1>2, <1>3, <1>4, <1>5, <1>6, CallBegins

\* The request enqueues the task of its finding, unless it is there already.
LEMMA EnqueueKeeps ==
  ASSUME CallsOK, TasksOK, SummariesOK, NEW h \in Handlers, EnqueueSummary(h)
  PROVE  SummaryStep
<1>0. PICK k, f : k = call[h] /\ f = k.finding
  OBVIOUS
<1>1. /\ k.op = "enqueue" /\ call[h].op \in SummaryOps \ {"idle"} /\ call[h].op \in SummaryOps
      /\ f \in Summarized /\ Requested(k) /\ PreparedOK(k)
      /\ Return(h) /\ UNCHANGED <<summaries, forsaken>>
  BY <1>0, CallOfSummary DEF EnqueueSummary, At, SummaryOps, RequestOps, Agent, AgentOps, summaryVars
<1>2. SummariesGrow /\ \A g \in Summarized : Lacks(g)' <=> Lacks(g)
  BY <1>1, StillGrow
<1>3. \A g \in Handlers \ {h} : call'[g] = call[g]
  BY <1>1, CallAfter DEF Return, Proceed
<1>4. \A g \in Summarized : Serves(h, g) => g = f
  BY <1>0 DEF Serves
<1>5. CASE k.state = "ready" /\ UNCHANGED taskVars
  <2>1. ~Lacks(f)
    BY <1>0, <1>1, <1>5 DEF PreparedOK, Lacks
  <2> QED BY <1>1, <1>2, <1>4, <1>5, <2>1, CallEnds, UnchangedTasks
<1>6. CASE Submitted(f) /\ UNCHANGED taskVars
  <2>1. Awaited(f)'
    <3>1. CASE Waits(f)
      BY <1>6, <3>1 DEF Awaited, Waits, taskVars
    <3>2. ASSUME NEW g \in Handlers, Works(g), Serves(g, f)
          PROVE  Awaited(f)'
      <4>1. g # h
        BY <1>0, <1>1, <3>2 DEF Works, Requested
      <4> QED BY <1>3, <3>2, <4>1 DEF Awaited, Serves, Summarizing
    <3> QED BY <1>1, <1>6, <3>1, <3>2, SubmittedIsAwaited
  <2> QED BY <1>1, <1>2, <1>4, <1>6, <2>1, CallEnds, UnchangedTasks
<1>7. CASE Enqueue({Summarize(f)})
  <2>1. Summarize(f) = SummaryOf(f, 0) /\ TaskOK(Summarize(f)) /\ 0 \in 0..MaxRetry
    BY <1>1, Constants DEF Summarize, Task, SummaryOf, TaskOK
  <2>2. TasksStep /\ SummaryOf(f, 0) \in DOMAIN tasks'
    BY <1>7, <2>1, EnqueuedTasks
  <2>3. Awaited(f)'
    BY <2>1, <2>2 DEF Awaited, Waits
  <2> QED BY <1>1, <1>2, <1>4, <2>2, <2>3, CallEnds
<1> QED BY <1>0, <1>5, <1>6, <1>7 DEF EnqueueSummary

\* What an agent's call may become.
LEMMA AgentForm ==
  ASSUME NEW k, Agent(k), NEW op \in AgentOps, NEW c, c = [k EXCEPT !.op = op]
  PROVE  c.op = op /\ c.finding = k.finding /\ c.state = k.state /\ Agent(c)
BY DEF Agent, AgentOps

LEMMA AgentCall ==
  ASSUME CallsOK, SummariesOK, NEW h \in Handlers,
         call[h].op \in {"source", "generate", "store", "stored", "fail", "failed"}
  PROVE  /\ Agent(call[h]) /\ call[h].op \in SummaryOps \ {"idle"} /\ call[h].op \in SummaryOps
         /\ call[h].finding \in Summarized /\ PreparedOK(call[h]) /\ TaskOK(call[h].task)
         /\ left \in [Kinds -> Nat]
BY CallOfSummary DEF SummaryOps, AgentOps, RequestOps, Requested, Agent, CallsOK

\* The agent goes on to its next statement, while findings stay as they are.
LEMMA AgentGoesOn ==
  ASSUME CallsOK, TasksOK, SummariesOK, NEW h \in Handlers,
         call[h].op \in {"source", "generate", "store", "fail"},
         NEW op \in {"prepare", "store", "stored", "fail", "failed"}, NEW c, c = [call[h] EXCEPT !.op = op],
         call' = [call EXCEPT ![h] = c], left' \in [Kinds -> Nat],
         UNCHANGED <<summaries, forsaken, taskVars>>
  PROVE  SummaryStep
<1>1. Agent(call[h]) /\ call[h].op \in SummaryOps \ {"idle"} /\ op \in AgentOps /\ op \in SummaryOps \ {"idle"}
  BY AgentCall DEF AgentOps, SummaryOps
<1>2. c.op = op /\ c.finding = call[h].finding /\ Agent(c)
  BY <1>1, AgentForm
<1>3. SummariesGrow /\ \A f \in Summarized : Lacks(f)' => Lacks(f)
  BY StillGrow
<1>4. PreparedOK(c)'
  BY <1>2 DEF PreparedOK
<1> QED BY <1>1, <1>2, <1>3, <1>4, CallContinues

LEMMA SourceKeeps ==
  ASSUME CallsOK, TasksOK, SummariesOK, NEW h \in Handlers, GetSummarySource(h)
  PROVE  SummaryStep
<1>0. PICK f : f = call[h].finding
  OBVIOUS
<1>1. /\ call[h].op = "source" /\ call[h].op \in SummaryOps /\ left \in [Kinds -> Nat]
      /\ UNCHANGED <<summaries, forsaken>>
  BY AgentCall DEF GetSummarySource, At, summaryVars
<1>2. CASE (f \in Described \/ summaries[f].text) /\ Acknowledge(h)
  <2>1. \A g \in Summarized : Lacks(g) /\ Serves(h, g) => FALSE
    BY <1>0, <1>2 DEF Lacks, Serves, SummariesOK, StatesOK
  <2>2. SummariesGrow /\ \A g \in Summarized : Lacks(g)' <=> Lacks(g)
    BY <1>1, StillGrow
  <2> QED BY <1>1, <1>2, <2>1, <2>2, CallEnds, UnchangedTasks DEF Acknowledge
<1>3. CASE Proceed(h, [call[h] EXCEPT !.op = "prepare"]) /\ UNCHANGED taskVars
  BY <1>1, <1>3, AgentGoesOn DEF Proceed
<1> QED BY <1>0, <1>2, <1>3 DEF GetSummarySource

LEMMA GenerateKeeps ==
  ASSUME CallsOK, TasksOK, SummariesOK, NEW h \in Handlers, GenerateSummary(h)
  PROVE  SummaryStep
<1>0. PICK f : f = call[h].finding
  OBVIOUS
<1>1. /\ call[h].op = "generate" /\ call[h].op \in SummaryOps /\ left \in [Kinds -> Nat]
      /\ PreparedOK(call[h]) /\ UNCHANGED <<summaries, forsaken>>
  BY AgentCall DEF GenerateSummary, At, summaryVars
<1>2. CASE call[h].state = "ready" /\ Acknowledge(h)
  <2>1. \A g \in Summarized : Lacks(g) /\ Serves(h, g) => FALSE
    BY <1>1, <1>2 DEF Lacks, Serves, PreparedOK
  <2>2. SummariesGrow /\ \A g \in Summarized : Lacks(g)' <=> Lacks(g)
    BY <1>1, StillGrow
  <2> QED BY <1>1, <1>2, <2>1, <2>2, CallEnds, UnchangedTasks DEF Acknowledge
<1>3. CASE Proceed(h, [call[h] EXCEPT !.op = "store"]) /\ UNCHANGED taskVars
  BY <1>1, <1>3, AgentGoesOn DEF Proceed
<1>4. CASE Count("fault") /\ UNCHANGED taskVars /\ call' = [call EXCEPT ![h].op = "fail"]
  <2>1. PICK c : c = [call[h] EXCEPT !.op = "fail"]
    OBVIOUS
  <2>2. call' = [call EXCEPT ![h] = c]
    BY <1>4, <2>1
  <2>3. left' \in [Kinds -> Nat]
    BY <1>1, <1>4, CountKeeps
  <2> QED BY <1>1, <1>4, <2>1, <2>2, <2>3, AgentGoesOn
<1> QED BY <1>2, <1>3, <1>4 DEF GenerateSummary

LEMMA StoreKeeps ==
  ASSUME CallsOK, TasksOK, SummariesOK, NEW h \in Handlers, StoreAISummary(h) \/ MarkAISummaryFailed(h)
  PROVE  SummaryStep
<1>1. left \in [Kinds -> Nat]
  BY DEF CallsOK
<1>2. CASE StoreAISummary(h)
  BY <1>1, <1>2, AgentGoesOn DEF StoreAISummary, At, Proceed
<1>3. CASE MarkAISummaryFailed(h)
  BY <1>1, <1>3, AgentGoesOn DEF MarkAISummaryFailed, At, Proceed
<1> QED BY <1>2, <1>3

LEMMA ReadyForm ==
  ASSUME NEW s \in SummaryState, NEW r, r = [s EXCEPT !.state = "ready", !.text = TRUE]
  PROVE  r \in SummaryState /\ r.state = "ready" /\ r.text = TRUE
<1>1. r.state = "ready" /\ r.text = TRUE /\ r.signed = s.signed /\ DOMAIN r = DOMAIN s
  BY  DEF SummaryState
<1>2. r = [f \in DOMAIN s |-> r[f]]
  BY DEF SummaryState
<1>3. r = [state |-> r.state, text |-> r.text, signed |-> r.signed]
  BY <1>1, <1>2 DEF SummaryState
<1> QED BY <1>1, <1>3 DEF SummaryState

\* A pending finding carries its signature, so that it shares in what is
\* written for the signature.
LEMMA ShareKeeps ==
  ASSUME CallsOK, TasksOK, SummariesOK, NEW h \in Handlers, ShareSummary(h)
  PROVE  SummaryStep
<1>0. PICK shared : shared = SignedBy(Signature[call[h].finding])
  OBVIOUS
<1>1. /\ call[h].op = "stored" /\ call[h].op \in SummaryOps /\ Acknowledge(h) /\ UNCHANGED forsaken
      /\ summaries' = [f \in Summarized |-> IF f \in shared
                         THEN [summaries[f] EXCEPT !.state = "ready", !.text = TRUE] ELSE summaries[f]]
      /\ summaries \in [Summarized -> SummaryState]
  BY <1>0, AgentCall DEF ShareSummary, At, SummariesOK, StatesOK
<1>2. ASSUME NEW f \in Summarized
      PROVE  /\ summaries'[f] \in SummaryState
             /\ f \notin shared => summaries'[f] = summaries[f]
             /\ f \in shared => summaries'[f].state = "ready" /\ summaries'[f].text = TRUE
  <2>1. PICK r : r = [summaries[f] EXCEPT !.state = "ready", !.text = TRUE]
    OBVIOUS
  <2>2. r \in SummaryState /\ r.state = "ready" /\ r.text = TRUE
    BY <1>1, <2>1, ReadyForm
  <2>3. summaries'[f] = IF f \in shared THEN r ELSE summaries[f]
    BY <1>1, <2>1
  <2> QED BY <1>1, <2>2, <2>3
<1>3. SummariesGrow
  BY <1>1, <1>2 DEF SummariesGrow, SummariesOK, StatesOK
<1>4. \A f \in Summarized : Lacks(f)' => Lacks(f) /\ f \notin shared
  BY <1>1, <1>2 DEF Lacks
<1>5. \A f \in Summarized : Lacks(f) /\ Serves(h, f) => f \in shared
  BY <1>0 DEF Lacks, Serves, SignedBy, SummariesOK, StatesOK
<1> QED BY <1>1, <1>3, <1>4, <1>5, CallEnds, UnchangedTasks DEF Acknowledge

LEMMA ShareFailureKeeps ==
  ASSUME CallsOK, TasksOK, SummariesOK, NEW h \in Handlers, ShareFailure(h)
  PROVE  SummaryStep
<1>0. PICK shared : shared = SignedBy(Signature[call[h].finding])
  OBVIOUS
<1>1. /\ call[h].op = "failed" /\ call[h].op \in SummaryOps /\ Fail(h) /\ UNCHANGED forsaken
      /\ summaries' = [f \in Summarized |-> IF f \in shared
                         THEN [summaries[f] EXCEPT !.state = "failed"] ELSE summaries[f]]
      /\ summaries \in [Summarized -> SummaryState] /\ TaskOK(call[h].task)
  BY <1>0, AgentCall DEF ShareFailure, At, SummariesOK, StatesOK
<1>2. ASSUME NEW f \in Summarized
      PROVE  /\ summaries'[f] \in SummaryState
             /\ f \notin shared => summaries'[f] = summaries[f]
             /\ f \in shared => summaries'[f].state = "failed" /\ summaries'[f].text = summaries[f].text
  <2>1. [summaries[f] EXCEPT !.state = "failed"]
          = [state |-> "failed", text |-> summaries[f].text, signed |-> summaries[f].signed]
    BY <1>1 DEF SummaryState
  <2> QED BY <1>1, <2>1 DEF SummaryState
<1>3. SummariesGrow
  BY <1>1, <1>2 DEF SummariesGrow, SummariesOK, StatesOK
<1>4. \A f \in Summarized : Lacks(f)' => Lacks(f) /\ f \notin shared
  BY <1>1, <1>2 DEF Lacks
<1>5. \A f \in Summarized : Lacks(f) /\ Serves(h, f) => f \in shared
  BY <1>0 DEF Lacks, Serves, SignedBy, SummariesOK, StatesOK
<1>6. TasksStep
  BY <1>1, RetriedTasks DEF Fail
<1> QED BY <1>1, <1>3, <1>4, <1>5, <1>6, CallEnds DEF Fail

LEMMA ExplainKeeps ==
  ASSUME CallsOK, TasksOK, SummariesOK, SummariesNext
  PROVE  Moves(SummaryOps) /\ TasksOK' /\ SummariesStep
<1>1. ASSUME NEW h \in Handlers, NEW t, HandleFindingSummarize(h, t)
      PROVE  Moves(SummaryOps) /\ TasksOK' /\ SummariesStep
  BY <1>1, LeaseSummaryKeeps
<1>2. CASE SummaryStep
  BY <1>2 DEF SummaryStep, TasksStep
<1>3. SummaryStep \/ \E h \in Handlers, t \in BagToSet(tasks) : HandleFindingSummarize(h, t)
  BY PrepareKeeps, ClaimKeeps, MarkPendingKeeps, RequestKeeps, PrepareFailsKeeps, EnqueueKeeps, SourceKeeps,
     GenerateKeeps, StoreKeeps, ShareKeeps, ShareFailureKeeps DEF SummariesNext
<1> QED BY <1>1, <1>2, <1>3

\* A call that is cut off leaves its finding to the next try, if there is one.
LEMMA CutOffSummaries ==
  ASSUME CallsOK, CallsOK', TasksOK, SummariesOK, NEW h \in Handlers, Die(h), SummariesCutOff(h)
  PROVE  TasksStep /\ SummariesStep
<1>1. call' = [call EXCEPT ![h] = Idle]
  BY DEF Die, CutOff
<1>2. call'[h].op = "idle" /\ \A g \in Handlers \ {h} : call'[g] = call[g]
  BY <1>1, CallAfter, IdleIsOK
<1>3. UNCHANGED summaries /\ forsaken \subseteq forsaken'
  BY DEF SummariesCutOff
<1>4. TasksStep
  <2>1. CASE Works(h)
    BY <2>1, WorkerCall, RetriedTasks DEF Die
  <2>2. CASE ~Works(h)
    BY <2>2, UnchangedTasks DEF Die
  <2> QED BY <2>1, <2>2
<1>5. StatesOK'
  BY <1>3 DEF SummariesOK, StatesOK
<1>6. ASSUME NEW g \in Handlers
      PROVE  PreparedOK(call[g])'
  BY <1>2, <1>3 DEF SummariesOK, PreparedOK
<1>7. ASSUME NEW f \in Summarized, Serves(h, f)
      PROVE  Awaited(f)'
  <2>1. CASE Works(h) /\ call[h].task.tries # MaxRetry
    <3>0. PICK t, n : t = call[h].task /\ n = t.tries + 1
      OBVIOUS
    <3>1. TaskOK(t) /\ t.to = "summarize" /\ t.about = f /\ Retry(t)
      BY <1>7, <2>1, <3>0, WorkerCall DEF Agent, Serves, Die
    <3>2. [t EXCEPT !.tries = @ + 1] = SummaryOf(f, n) /\ n \in 0..MaxRetry
      BY <2>1, <3>0, <3>1, Constants DEF TaskOK, SummaryOf
    <3>3. SummaryOf(f, n) \in DOMAIN tasks'
      BY <2>1, <3>0, <3>1, <3>2, RetriedTasks
    <3> QED BY <3>2, <3>3 DEF Awaited, Waits
  <2>2. CASE ~(Works(h) /\ call[h].task.tries # MaxRetry)
    BY <1>7, <2>2 DEF SummariesCutOff, Serves, Awaited
  <2> QED BY <2>1, <2>2
<1>8. SummariesAreAwaited'
  <2>1. \A f \in Summarized : Lacks(f)' => Lacks(f)
    BY <1>3 DEF Lacks
  <2> QED BY <1>2, <1>3, <1>4, <1>7, <2>1, StillAwaited DEF TasksStep, SummariesOK
<1> QED BY <1>4, <1>5, <1>6, <1>8 DEF SummariesStep

-----------------------------------------------------------------------------
(* Deliveries.                                                             *)

\* Two sets of goroutines that agree but on one of them.
LEMMA OneHandler ==
  ASSUME NEW S \in SUBSET Handlers, NEW T \in SUBSET Handlers, NEW h \in Handlers,
         \A g \in Handlers \ {h} : g \in S <=> g \in T
  PROVE  /\ Cardinality(S) \in Nat /\ Cardinality(T) \in Nat
         /\ Cardinality(T) + (IF h \in S THEN 1 ELSE 0) = Cardinality(S) + (IF h \in T THEN 1 ELSE 0)
<1>1. IsFiniteSet(S) /\ IsFiniteSet(T)
  BY Constants, FS_Subset
<1>2. Cardinality(S) \in Nat /\ Cardinality(T) \in Nat
  BY <1>1, FS_CardinalityType
<1>3. CASE h \in S /\ h \notin T
  <2>1. S = T \cup {h}
    BY <1>3
  <2> QED BY <1>1, <1>2, <1>3, <2>1, FS_AddElement
<1>4. CASE h \notin S /\ h \in T
  <2>1. T = S \cup {h}
    BY <1>4
  <2> QED BY <1>1, <1>2, <1>4, <2>1, FS_AddElement
<1>5. CASE h \in S <=> h \in T
  <2>1. S = T
    BY <1>5
  <2> QED BY <1>2, <1>5, <2>1
<1> QED BY <1>3, <1>4, <1>5

LEMMA HandlersCount ==
  ASSUME NEW S \in SUBSET Handlers
  PROVE  /\ Cardinality(S) \in Nat /\ Cardinality(Handlers) \in Nat
         /\ Cardinality(S) <= Cardinality(Handlers)
BY Constants, FS_Subset, FS_CardinalityType

LEMMA OtherTally ==
  ASSUME TallyOK, NEW ops, ops \cap PostedOps = {}, Moves(ops), UNCHANGED <<webhooks, tally>>
  PROVE  TallyOK'
<1>1. \A h \in Handlers : \/ call'[h] = call[h]
                          \/ call[h].op \notin PostedOps /\ call'[h].op \notin PostedOps
  BY DEF Moves
<1>2. \A d : Answered(d)' = Answered(d)
  BY <1>1 DEF Answered
<1>3. \A w : /\ Between(w, {"count"})' = Between(w, {"count"})
             /\ Between(w, {"count", "log"})' = Between(w, {"count", "log"})
  BY <1>1 DEF Between, PostedOps
<1>4. \A h \in Handlers : call'[h].op \in {"count", "log"} => call'[h] = call[h]
  BY <1>1 DEF PostedOps
<1>5. /\ \A d \in Destinations : tally'[d].acknowledged + Cardinality(Answered(d)') <= tally'[d].received
      /\ \A w \in DOMAIN webhooks' :
           /\ tally'[w].posted =
                webhooks'[w].count + tally'[w].uncounted + Cardinality(Between(w, {"count"})')
           /\ tally'[w].posted =
                webhooks'[w].logged + tally'[w].unlogged + Cardinality(Between(w, {"count", "log"})')
  BY <1>2, <1>3 DEF TallyOK
<1> QED BY <1>4, <1>5 DEF TallyOK

LEMMA OtherAlerts ==
  ASSUME AlertsOK, NEW ops, ops \cap {"alert", "conclude"} = {}, Moves(ops),
         UNCHANGED <<attempted, alerts, unmarked>>
  PROVE  AlertsOK'
<1>1. \A h \in Handlers : \/ call'[h] = call[h]
                          \/ /\ call[h].op \notin {"alert", "conclude"}
                             /\ call'[h].op \notin {"alert", "conclude"}
  BY DEF Moves
<1>2. \A f : Marking(f)' = Marking(f) /\ Listed(f)' = Listed(f)
  BY <1>1 DEF Marking, Listed, Alerting, At
<1> QED BY <1>2 DEF AlertsOK

\* Steps that neither post nor alert.
LEMMA OtherDeliveries ==
  ASSUME DeliveriesOK, NEW ops, ops \cap (PostedOps \cup {"alert", "conclude"}) = {}, Moves(ops),
         UNCHANGED <<settings, webhooks, attempted, alerts, unmarked, tally>>
  PROVE  DeliveriesOK'
BY OtherTally, OtherAlerts DEF DeliveriesOK, SettingsOK, TimeOK

LEMMA DeliveryMoves ==
  ASSUME NEW ops, ops \subseteq DeliveryOps, Moves(ops)
  PROVE  Moves(DeliveryOps)
BY DEF Moves

-----------------------------------------------------------------------------
(* Deliveries: administration and events.                                  *)

LEMMA UpdateSettingsKeeps ==
  ASSUME CallsOK, TasksOK, DeliveriesOK, NEW h \in Handlers, NEW edit \in SettingsEdits,
         UpdateNotificationSettings(h, edit)
  PROVE  Moves(DeliveryOps) /\ TasksStep /\ DeliveriesOK'
<1> DEFINE c == [op |-> "save", edit |-> edit, read |-> settings]
<1>1. Begin("settings", h, c) /\ UNCHANGED <<deliveryVars, taskVars>>
  BY DEF UpdateNotificationSettings
<1>2. DeliveryCallOK(c)
  BY DEF DeliveryCallOK, DeliveriesOK, TaskOps, PostedOps
<1>3. CallOK(c)
  BY <1>2, DeliveryCallIsOK DEF DeliveryOps
<1>4. Moves({"idle", "save"})
  BY <1>1, <1>3, BeginMoves
<1>5. {"idle", "save"} \subseteq DeliveryOps
      /\ {"idle", "save"} \cap (PostedOps \cup {"alert", "conclude"}) = {}
  BY DEF DeliveryOps, PostedOps
<1>6. DeliveriesOK'
  BY <1>1, <1>4, <1>5, OtherDeliveries DEF deliveryVars
<1> QED BY <1>1, <1>4, <1>5, <1>6, DeliveryMoves, UnchangedTasks

LEMMA SaveSettingsKeeps ==
  ASSUME CallsOK, TasksOK, DeliveriesOK, NEW h \in Handlers, SaveNotificationSettings(h)
  PROVE  Moves(DeliveryOps) /\ TasksStep /\ DeliveriesOK'
<1>1. /\ call[h].op = "save" /\ Return(h)
      /\ UNCHANGED <<webhooks, attempted, alerts, unmarked, tally, taskVars>>
      /\ settings' = [call[h].read EXCEPT ![call[h].edit.field] = call[h].edit.value]
  BY DEF SaveNotificationSettings, At
<1>2. SettingsOK(call[h].read) /\ call[h].edit \in SettingsEdits
  BY <1>1 DEF CallsOK, CallOK, DeliveryCallOK
<1>3. SettingsOK(settings')
  BY <1>1, <1>2, ReportsAssumption DEF SettingsOK
<1>4. Moves({"idle", "save"})
  BY <1>1, ReturnMoves
<1>5. {"idle", "save"} \subseteq DeliveryOps
      /\ {"idle", "save"} \cap PostedOps = {} /\ {"idle", "save"} \cap {"alert", "conclude"} = {}
  BY DEF DeliveryOps, PostedOps
<1>6. TallyOK' /\ AlertsOK'
  BY <1>1, <1>4, <1>5, OtherTally, OtherAlerts DEF DeliveriesOK
<1>7. DeliveriesOK'
  BY <1>3, <1>6 DEF DeliveriesOK, SettingsOK, TimeOK
<1> QED BY <1>1, <1>4, <1>5, <1>7, DeliveryMoves, UnchangedTasks

\* A step of an administrator on the webhooks.
LEMMA AdministerWebhooks ==
  ASSUME CallsOK, TasksOK, DeliveriesOK, AtOnce("webhook"),
         UNCHANGED <<settings, attempted, alerts, unmarked, tally>>, UNCHANGED taskVars,
         DOMAIN webhooks' \subseteq Webhooks,
         \A w \in DOMAIN webhooks' :
           /\ webhooks'[w] \in Webhook
           /\ \/ /\ w \in DOMAIN webhooks
                 /\ webhooks'[w].count = webhooks[w].count
                 /\ webhooks'[w].logged = webhooks[w].logged
              \/ tally[w].posted = 0 /\ webhooks'[w].count = 0 /\ webhooks'[w].logged = 0
  PROVE  Moves(DeliveryOps) /\ TasksStep /\ DeliveriesOK'
<1>1. Moves({"idle"}) /\ Moves(DeliveryOps) /\ UNCHANGED call
  BY AtOnceMoves DEF AtOnce
<1>2. AlertsOK'
  BY <1>1, OtherAlerts DEF DeliveriesOK
<1>3. TallyOK
  BY DEF DeliveriesOK
<1>4. \A d : Answered(d)' = Answered(d)
  BY <1>1 DEF Answered
<1>5. \A w : /\ Between(w, {"count"})' = Between(w, {"count"})
             /\ Between(w, {"count", "log"})' = Between(w, {"count", "log"})
  BY <1>1 DEF Between
<1>6. ASSUME NEW w \in DOMAIN webhooks'
      PROVE  /\ tally'[w].posted =
                  webhooks'[w].count + tally'[w].uncounted + Cardinality(Between(w, {"count"})')
             /\ tally'[w].posted =
                  webhooks'[w].logged + tally'[w].unlogged + Cardinality(Between(w, {"count", "log"})')
  <2>1. CASE w \in DOMAIN webhooks /\ webhooks'[w].count = webhooks[w].count
                                   /\ webhooks'[w].logged = webhooks[w].logged
    BY <1>3, <1>5, <2>1 DEF TallyOK
  <2>2. CASE tally[w].posted = 0 /\ webhooks'[w].count = 0 /\ webhooks'[w].logged = 0
    <3>1. tally[w].uncounted = 0 /\ tally[w].unlogged = 0
      BY <1>3, <2>2 DEF TallyOK
    <3>2. Between(w, {"count"}) = {} /\ Between(w, {"count", "log"}) = {}
      BY <1>3, <2>2 DEF TallyOK, Between
    <3>3. Cardinality(Between(w, {"count"})') = 0 /\ Cardinality(Between(w, {"count", "log"})') = 0
      BY <1>5, <3>2, FS_EmptySet
    <3> QED BY <2>2, <3>1, <3>3
  <2> QED BY <2>1, <2>2
<1>7. \A d \in Destinations : tally'[d].acknowledged + Cardinality(Answered(d)') <= tally'[d].received
  BY <1>3, <1>4 DEF TallyOK
<1>8. TallyOK'
  BY <1>1, <1>3, <1>6, <1>7 DEF TallyOK
<1>9. DeliveriesOK'
  BY <1>2, <1>8 DEF DeliveriesOK, SettingsOK, TimeOK
<1> QED BY <1>1, <1>9, UnchangedTasks

LEMMA WebhooksKeep ==
  ASSUME CallsOK, TasksOK, DeliveriesOK, NEW w \in Webhooks,
         \/ \E topics \in Subscriptions :
              CreateWebhook(w, topics) \/ \E enabled \in BOOLEAN : UpdateWebhook(w, enabled, topics)
         \/ DeleteWebhook(w)
  PROVE  Moves(DeliveryOps) /\ TasksStep /\ DeliveriesOK'
<1>1. DOMAIN webhooks \subseteq Webhooks /\ \A v \in DOMAIN webhooks : webhooks[v] \in Webhook
  BY DEF DeliveriesOK, TallyOK
<1>2. ASSUME NEW topics \in Subscriptions, CreateWebhook(w, topics)
      PROVE  Moves(DeliveryOps) /\ TasksStep /\ DeliveriesOK'
  <2> DEFINE row == [enabled |-> TRUE, events |-> topics, count |-> 0, errors |-> 0, logged |-> 0]
  <2>1. /\ AtOnce("webhook") /\ tally[w].posted = 0
        /\ UNCHANGED <<settings, attempted, alerts, unmarked, tally>> /\ UNCHANGED taskVars
        /\ webhooks' = [x \in DOMAIN webhooks \cup {w} |-> IF x \in DOMAIN webhooks THEN webhooks[x] ELSE row]
    BY <1>2 DEF CreateWebhook, AddRow
  <2>2. row \in Webhook /\ row.count = 0 /\ row.logged = 0
    BY DEF Webhook
  <2> HIDE DEF row
  <2> QED BY <1>1, <2>1, <2>2, AdministerWebhooks
<1>3. ASSUME NEW topics \in Subscriptions, NEW enabled \in BOOLEAN, UpdateWebhook(w, enabled, topics)
      PROVE  Moves(DeliveryOps) /\ TasksStep /\ DeliveriesOK'
  <2>1. /\ AtOnce("webhook") /\ w \in DOMAIN webhooks
        /\ UNCHANGED <<settings, attempted, alerts, unmarked, tally>> /\ UNCHANGED taskVars
        /\ webhooks' = [webhooks EXCEPT ![w] = [webhooks[w] EXCEPT !.enabled = enabled, !.events = topics]]
    BY <1>3 DEF UpdateWebhook
  <2> DEFINE row == [webhooks[w] EXCEPT !.enabled = enabled, !.events = topics]
  <2>2. row \in Webhook /\ row.count = webhooks[w].count /\ row.logged = webhooks[w].logged
    BY <1>1, <2>1 DEF Webhook
  <2> HIDE DEF row
  <2>3. webhooks' = [webhooks EXCEPT ![w] = row]
    BY <2>1 DEF row
  <2> QED BY <1>1, <2>1, <2>2, <2>3, AdministerWebhooks
<1>4. CASE DeleteWebhook(w)
  BY <1>1, <1>4, AdministerWebhooks DEF DeleteWebhook
<1> QED BY <1>2, <1>3, <1>4

LEMMA AnnouncementIsOK ==
  ASSUME DOMAIN webhooks \subseteq Webhooks, NEW topic, NEW recipients
  PROVE  \A t \in Announcement(topic, recipients) : TaskOK(t)
<1>1. \A w \in Webhooks : TaskOK(Task("webhook", w))
  BY Constants DEF TaskOK, Task
<1> QED BY <1>1, MailIsOK DEF Announcement, Subscribed

\* A step that enqueues, and nothing else.
LEMMA EnqueueOnly ==
  ASSUME CallsOK, TasksOK, DeliveriesOK, NEW kind, AtOnce(kind), NEW new, \A t \in new : TaskOK(t),
         Enqueue(new), UNCHANGED deliveryVars
  PROVE  Moves(DeliveryOps) /\ TasksStep /\ DeliveriesOK'
<1>1. Moves({"idle"}) /\ Moves(DeliveryOps)
  BY AtOnceMoves DEF AtOnce
<1>2. {"idle"} \cap (PostedOps \cup {"alert", "conclude"}) = {}
  BY DEF PostedOps
<1>3. DeliveriesOK'
  BY <1>1, <1>2, OtherDeliveries DEF deliveryVars
<1> QED BY <1>1, <1>3, EnqueuedTasks

LEMMA EventsKeep ==
  ASSUME CallsOK, TasksOK, DeliveriesOK,
         \/ \E w \in Webhooks : TestWebhook(w)
         \/ TestNotificationEmail
         \/ \E topic \in Topics : EnqueueNotification(topic)
  PROVE  Moves(DeliveryOps) /\ TasksStep /\ DeliveriesOK'
<1>1. \A w \in Webhooks : TaskOK(Task("webhook", w))
  BY Constants DEF TaskOK, Task
<1>2. DOMAIN webhooks \subseteq Webhooks
  BY DEF DeliveriesOK, TallyOK
<1>3. ASSUME NEW w \in Webhooks, TestWebhook(w)
      PROVE  Moves(DeliveryOps) /\ TasksStep /\ DeliveriesOK'
  BY <1>1, <1>3, EnqueueOnly DEF TestWebhook
<1>4. CASE TestNotificationEmail
  BY <1>4, MailIsOK, EnqueueOnly DEF TestNotificationEmail
<1>5. ASSUME NEW topic \in Topics, EnqueueNotification(topic)
      PROVE  Moves(DeliveryOps) /\ TasksStep /\ DeliveriesOK'
  BY <1>2, <1>5, AnnouncementIsOK, EnqueueOnly DEF EnqueueNotification
<1> QED BY <1>3, <1>4, <1>5

-----------------------------------------------------------------------------
(* Deliveries: the handlers.                                               *)

PlainOps == {"idle"} \cup TaskOps

LEMMA PlainSplit ==
  /\ PlainOps \subseteq DeliveryOps /\ PlainOps \cap (PostedOps \cup {"alert", "conclude"}) = {}
BY DEF PlainOps, DeliveryOps, TaskOps, PostedOps

LEMMA TaskCall ==
  ASSUME CallsOK, NEW h \in Handlers, call[h].op \in TaskOps \cup PostedOps
  PROVE  /\ TaskOK(call[h].task) /\ call[h].task.to # "summarize"
         /\ call[h].op \in TaskOps => DOMAIN call[h] = {"op", "task"}
         /\ call[h].op \in PostedOps => DOMAIN call[h] = {"op", "task", "ok"} /\ call[h].ok \in BOOLEAN
         /\ call[h].op \in {"get", "post", "count", "log"} => call[h].task.to = "webhook"
         /\ call[h].op \in {"send", "compose"} => call[h].task.to # "webhook"
BY DEF CallsOK, CallOK, DeliveryCallOK

LEMMA TaskCallIsOK ==
  ASSUME NEW c, DOMAIN c = {"op", "task"}, c.op \in TaskOps, TaskOK(c.task), c.task.to # "summarize",
         c.op \in {"get", "post"} => c.task.to = "webhook",
         c.op \in {"send", "compose"} => c.task.to # "webhook"
  PROVE  CallOK(c)
<1>1. c.op \in DeliveryOps \ {"idle"} /\ c.op \notin PostedOps
  BY DEF DeliveryOps, TaskOps, PostedOps
<1>2. DeliveryCallOK(c)
  BY <1>1 DEF DeliveryCallOK, TaskOps, PostedOps
<1> QED BY <1>1, <1>2, DeliveryCallIsOK

LEMMA PostedCallIsOK ==
  ASSUME NEW c, DOMAIN c = {"op", "task", "ok"}, c.op \in PostedOps, c.ok \in BOOLEAN,
         TaskOK(c.task), c.task.to # "summarize", c.op \in {"count", "log"} => c.task.to = "webhook"
  PROVE  CallOK(c)
<1>1. c.op \in DeliveryOps \ {"idle"} /\ c.op \notin TaskOps
  BY DEF DeliveryOps, TaskOps, PostedOps
<1>2. DeliveryCallOK(c)
  BY <1>1 DEF DeliveryCallOK, TaskOps, PostedOps
<1> QED BY <1>1, <1>2, DeliveryCallIsOK

\* A worker takes a task of some kind.
LEMMA LeaseKeeps ==
  ASSUME CallsOK, TasksOK, DeliveriesOK, NEW h \in Handlers, NEW t, NEW op \in {"get", "send", "compose"},
         t.to # "summarize", t.to = "webhook" <=> op = "get",
         Lease(h, t, [op |-> op, task |-> t]), UNCHANGED deliveryVars
  PROVE  Moves(DeliveryOps) /\ TasksStep /\ DeliveriesOK'
<1> DEFINE c == [op |-> op, task |-> t]
<1>1. Begin("worker", h, c)
  BY DEF Lease
<1>2. TaskOK(t) /\ TasksStep
  BY LeasedTasks
<1>3. CallOK(c)
  BY <1>2, TaskCallIsOK DEF TaskOps
<1>4. c.op \in PlainOps /\ "idle" \in PlainOps
  BY DEF PlainOps, TaskOps
<1> HIDE DEF c
<1>5. Moves(PlainOps)
  BY <1>1, <1>3, <1>4, BeginMoves
<1>6. DeliveriesOK'
  BY <1>5, PlainSplit, OtherDeliveries DEF deliveryVars
<1> QED BY <1>2, <1>5, <1>6, PlainSplit, DeliveryMoves

\* A call before it posts goes on, or returns its task.
LEMMA PlainKeeps ==
  ASSUME CallsOK, TasksOK, DeliveriesOK, NEW h \in Handlers, call[h].op \in TaskOps,
         UNCHANGED deliveryVars,
         \/ Acknowledge(h) \/ Fail(h)
         \/ \E op \in TaskOps :
              /\ Proceed(h, [op |-> op, task |-> call[h].task]) /\ UNCHANGED taskVars
              /\ op \in {"get", "post"} => call[h].task.to = "webhook"
              /\ op \in {"send", "compose"} => call[h].task.to # "webhook"
  PROVE  Moves(DeliveryOps) /\ TasksStep /\ DeliveriesOK'
<1>1. TaskOK(call[h].task) /\ call[h].task.to # "summarize" /\ call[h].op \in PlainOps /\ "idle" \in PlainOps
  BY TaskCall DEF PlainOps
<1>2. Moves(PlainOps) /\ TasksStep
  <2>1. CASE Acknowledge(h)
    BY <1>1, <2>1, ReturnMoves, UnchangedTasks DEF Acknowledge
  <2>2. CASE Fail(h)
    BY <1>1, <2>2, ReturnMoves, RetriedTasks DEF Fail
  <2>3. ASSUME NEW op \in TaskOps, Proceed(h, [op |-> op, task |-> call[h].task]), UNCHANGED taskVars,
               op \in {"get", "post"} => call[h].task.to = "webhook",
               op \in {"send", "compose"} => call[h].task.to # "webhook"
        PROVE  Moves(PlainOps) /\ TasksStep
    <3> DEFINE c == [op |-> op, task |-> call[h].task]
    <3>1. CallOK(c)
      BY <1>1, <2>3, TaskCallIsOK
    <3>2. c.op \in PlainOps
      BY DEF PlainOps
    <3>3. Proceed(h, c)
      BY <2>3
    <3> HIDE DEF c
    <3> QED BY <1>1, <2>3, <3>1, <3>2, <3>3, ProceedMoves, UnchangedTasks
  <2> QED BY <2>1, <2>2, <2>3
<1>3. DeliveriesOK'
  BY <1>2, PlainSplit, OtherDeliveries DEF deliveryVars
<1> QED BY <1>2, <1>3, PlainSplit, DeliveryMoves

LEMMA GetWebhookKeeps ==
  ASSUME CallsOK, TasksOK, DeliveriesOK, NEW h \in Handlers, GetWebhook(h)
  PROVE  Moves(DeliveryOps) /\ TasksStep /\ DeliveriesOK'
<1>1. call[h].op = "get" /\ call[h].op \in TaskOps /\ "post" \in TaskOps
  BY DEF GetWebhook, At, TaskOps
<1>2. call[h].task.to = "webhook"
  BY <1>1, TaskCall
<1> QED BY <1>1, <1>2, PlainKeeps DEF GetWebhook

\* How a step of one call changes the counts of calls.
LEMMA OneDelivery ==
  ASSUME NEW h \in Handlers, \A g \in Handlers \ {h} : call'[g] = call[g]
  PROVE  /\ \A d : /\ Cardinality(Answered(d)) \in Nat /\ Cardinality(Answered(d)') \in Nat
                   /\ Cardinality(Answered(d)') + (IF h \in Answered(d) THEN 1 ELSE 0)
                        = Cardinality(Answered(d)) + (IF h \in Answered(d)' THEN 1 ELSE 0)
         /\ \A w : /\ Cardinality(Between(w, {"count"})) \in Nat
                   /\ Cardinality(Between(w, {"count"})') \in Nat
                   /\ Cardinality(Between(w, {"count"})') + (IF h \in Between(w, {"count"}) THEN 1 ELSE 0)
                        = Cardinality(Between(w, {"count"})) + (IF h \in Between(w, {"count"})' THEN 1 ELSE 0)
         /\ \A w : /\ Cardinality(Between(w, {"count", "log"})) \in Nat
                   /\ Cardinality(Between(w, {"count", "log"})') \in Nat
                   /\ Cardinality(Between(w, {"count", "log"})')
                        + (IF h \in Between(w, {"count", "log"}) THEN 1 ELSE 0)
                        = Cardinality(Between(w, {"count", "log"}))
                        + (IF h \in Between(w, {"count", "log"})' THEN 1 ELSE 0)
<1>1. ASSUME NEW d
      PROVE  /\ Cardinality(Answered(d)) \in Nat /\ Cardinality(Answered(d)') \in Nat
             /\ Cardinality(Answered(d)') + (IF h \in Answered(d) THEN 1 ELSE 0)
                  = Cardinality(Answered(d)) + (IF h \in Answered(d)' THEN 1 ELSE 0)
  <2>1. Answered(d) \in SUBSET Handlers /\ Answered(d)' \in SUBSET Handlers
        /\ \A g \in Handlers \ {h} : g \in Answered(d) <=> g \in Answered(d)'
    BY DEF Answered
  <2> QED BY <2>1, OneHandler
<1>2. ASSUME NEW w
      PROVE  /\ Cardinality(Between(w, {"count"})) \in Nat /\ Cardinality(Between(w, {"count"})') \in Nat
             /\ Cardinality(Between(w, {"count"})') + (IF h \in Between(w, {"count"}) THEN 1 ELSE 0)
                  = Cardinality(Between(w, {"count"})) + (IF h \in Between(w, {"count"})' THEN 1 ELSE 0)
  <2>1. /\ Between(w, {"count"}) \in SUBSET Handlers /\ Between(w, {"count"})' \in SUBSET Handlers
        /\ \A g \in Handlers \ {h} : g \in Between(w, {"count"}) <=> g \in Between(w, {"count"})'
    BY DEF Between
  <2> QED BY <2>1, OneHandler
<1>3. ASSUME NEW w
      PROVE  /\ Cardinality(Between(w, {"count", "log"})) \in Nat /\ Cardinality(Between(w, {"count", "log"})') \in Nat
             /\ Cardinality(Between(w, {"count", "log"})') + (IF h \in Between(w, {"count", "log"}) THEN 1 ELSE 0)
                  = Cardinality(Between(w, {"count", "log"})) + (IF h \in Between(w, {"count", "log"})' THEN 1 ELSE 0)
  <2>1. /\ Between(w, {"count", "log"}) \in SUBSET Handlers /\ Between(w, {"count", "log"})' \in SUBSET Handlers
        /\ \A g \in Handlers \ {h} : g \in Between(w, {"count", "log"}) <=> g \in Between(w, {"count", "log"})'
    BY DEF Between
  <2> QED BY <2>1, OneHandler
<1> QED BY <1>1, <1>2, <1>3

Posted(c) == c.op \in PostedOps

\* A step of one call, for one destination.
LEMMA OneTally ==
  ASSUME CallsOK, TallyOK, NEW h \in Handlers, NEW d \in Destinations,
         \A g \in Handlers \ {h} : call'[g] = call[g],
         tally' \in [Destinations -> Tally], \A e \in Destinations \ {d} : tally'[e] = tally[e],
         DOMAIN webhooks' = DOMAIN webhooks,
         \A w \in DOMAIN webhooks :
           webhooks'[w] \in Webhook /\ (w # d => webhooks'[w] = webhooks[w]),
         \A c \in {call[h], call'[h]} :
           Posted(c) => Destination(c.task) = d /\ (c.op \in {"count", "log"} => c.task.about = d),
         tally[d].posted <= tally'[d].posted,
         call'[h].op \in {"count", "log"} => tally'[d].posted > 0,
         d \in Webhooks /\ tally'[d].posted = 0 => tally'[d].uncounted = 0 /\ tally'[d].unlogged = 0,
         tally'[d].acknowledged + tally[d].received
             + (IF Posted(call'[h]) /\ call'[h].ok THEN 1 ELSE 0)
           <= tally[d].acknowledged + tally'[d].received
             + (IF Posted(call[h]) /\ call[h].ok THEN 1 ELSE 0),
         d \in DOMAIN webhooks =>
           /\ tally'[d].posted + webhooks[d].count + tally[d].uncounted
                  + (IF call[h].op = "count" THEN 1 ELSE 0)
                = tally[d].posted + webhooks'[d].count + tally'[d].uncounted
                  + (IF call'[h].op = "count" THEN 1 ELSE 0)
           /\ tally'[d].posted + webhooks[d].logged + tally[d].unlogged
                  + (IF call[h].op \in {"count", "log"} THEN 1 ELSE 0)
                = tally[d].posted + webhooks'[d].logged + tally'[d].unlogged
                  + (IF call'[h].op \in {"count", "log"} THEN 1 ELSE 0)
  PROVE  TallyOK'
<1>1. /\ \A e \in Destinations \ {d} : h \notin Answered(e) /\ h \notin Answered(e)'
      /\ h \in Answered(d) <=> Posted(call[h]) /\ call[h].ok
      /\ h \in Answered(d)' <=> Posted(call'[h]) /\ call'[h].ok
  BY DEF Answered, Posted
<1>2. /\ \A e \in Webhooks \ {d} : h \notin Between(e, {"count"}) /\ h \notin Between(e, {"count"})'
      /\ h \in Between(d, {"count"}) <=> call[h].op = "count"
      /\ h \in Between(d, {"count"})' <=> call'[h].op = "count"
  BY DEF Between, Posted, PostedOps
<1>3. /\ \A e \in Webhooks \ {d} :
           h \notin Between(e, {"count", "log"}) /\ h \notin Between(e, {"count", "log"})'
      /\ h \in Between(d, {"count", "log"}) <=> call[h].op \in {"count", "log"}
      /\ h \in Between(d, {"count", "log"})' <=> call'[h].op \in {"count", "log"}
  BY DEF Between, Posted, PostedOps
<1>4. \A e \in Destinations : tally[e] \in Tally /\ tally'[e] \in Tally
  BY DEF TallyOK
<1>5. ASSUME NEW e \in Destinations
      PROVE  tally'[e].acknowledged + Cardinality(Answered(e)') <= tally'[e].received
  <2>1. /\ Cardinality(Answered(e)) \in Nat /\ Cardinality(Answered(e)') \in Nat
        /\ Cardinality(Answered(e)') + (IF h \in Answered(e) THEN 1 ELSE 0)
             = Cardinality(Answered(e)) + (IF h \in Answered(e)' THEN 1 ELSE 0)
        /\ tally[e].acknowledged + Cardinality(Answered(e)) <= tally[e].received
    BY OneDelivery DEF TallyOK
  <2>2. CASE e # d
    BY <1>1, <2>1, <2>2
  <2>3. CASE e = d
    BY <1>1, <1>4, <2>1, <2>3 DEF Tally
  <2> QED BY <2>2, <2>3
<1>6. ASSUME NEW w \in DOMAIN webhooks'
      PROVE  tally'[w].posted =
               webhooks'[w].count + tally'[w].uncounted + Cardinality(Between(w, {"count"})')
  <2>1. /\ Cardinality(Between(w, {"count"})) \in Nat /\ Cardinality(Between(w, {"count"})') \in Nat
        /\ Cardinality(Between(w, {"count"})') + (IF h \in Between(w, {"count"}) THEN 1 ELSE 0)
             = Cardinality(Between(w, {"count"})) + (IF h \in Between(w, {"count"})' THEN 1 ELSE 0)
        /\ tally[w].posted = webhooks[w].count + tally[w].uncounted + Cardinality(Between(w, {"count"}))
        /\ webhooks[w] \in Webhook /\ webhooks'[w] \in Webhook /\ w \in Webhooks /\ w \in Destinations
    BY OneDelivery DEF TallyOK, Destinations
  <2>2. CASE w # d
    BY <1>2, <2>1, <2>2
  <2>3. CASE w = d
    BY <1>2, <1>4, <2>1, <2>3 DEF Tally, Webhook
  <2> QED BY <2>2, <2>3
<1>7. ASSUME NEW w \in DOMAIN webhooks'
      PROVE  tally'[w].posted =
               webhooks'[w].logged + tally'[w].unlogged + Cardinality(Between(w, {"count", "log"})')
  <2>1. /\ Cardinality(Between(w, {"count", "log"})) \in Nat
        /\ Cardinality(Between(w, {"count", "log"})') \in Nat
        /\ Cardinality(Between(w, {"count", "log"})') + (IF h \in Between(w, {"count", "log"}) THEN 1 ELSE 0)
             = Cardinality(Between(w, {"count", "log"}))
               + (IF h \in Between(w, {"count", "log"})' THEN 1 ELSE 0)
        /\ tally[w].posted =
             webhooks[w].logged + tally[w].unlogged + Cardinality(Between(w, {"count", "log"}))
        /\ webhooks[w] \in Webhook /\ webhooks'[w] \in Webhook /\ w \in Webhooks /\ w \in Destinations
    BY OneDelivery DEF TallyOK, Destinations
  <2>2. CASE w # d
    BY <1>3, <2>1, <2>2
  <2>3. CASE w = d
    <3>1. /\ (IF h \in Between(d, {"count", "log"}) THEN 1 ELSE 0)
               = (IF call[h].op \in {"count", "log"} THEN 1 ELSE 0)
          /\ (IF h \in Between(d, {"count", "log"})' THEN 1 ELSE 0)
               = (IF call'[h].op \in {"count", "log"} THEN 1 ELSE 0)
      BY <1>3
    <3>2. /\ tally[d].posted \in Nat /\ tally'[d].posted \in Nat
          /\ tally[d].unlogged \in Nat /\ tally'[d].unlogged \in Nat
          /\ webhooks[d].logged \in Nat /\ webhooks'[d].logged \in Nat
      BY <1>4, <2>1, <2>3 DEF Tally, Webhook
    <3>3. \A x, y \in {0, 1}, m, n \in Nat :
            /\ x = (IF call[h].op \in {"count", "log"} THEN 1 ELSE 0)
            /\ y = (IF call'[h].op \in {"count", "log"} THEN 1 ELSE 0)
            /\ n + x = m + y /\ tally[d].posted = webhooks[d].logged + tally[d].unlogged + m
            => tally'[d].posted = webhooks'[d].logged + tally'[d].unlogged + n
      BY <2>1, <2>3, <3>2
    <3> QED BY <2>1, <2>3, <3>1, <3>3
  <2> QED BY <2>2, <2>3
<1>8. \A w \in Webhooks : tally'[w].posted = 0 => tally'[w].uncounted = 0 /\ tally'[w].unlogged = 0
  BY DEF TallyOK, Destinations
<1>9. ASSUME NEW g \in Handlers, call'[g].op \in {"count", "log"}
      PROVE  tally'[call'[g].task.about].posted > 0
  <2>1. CASE g = h
    BY <1>9, <2>1 DEF Posted, PostedOps
  <2>2. CASE g # h
    <3>1. call'[g] = call[g] /\ tally[call[g].task.about].posted > 0
      BY <1>9, <2>2 DEF TallyOK
    <3>2. CASE call[g].task.about = d
      BY <1>4, <3>1, <3>2 DEF Tally
    <3>3. CASE call[g].task.about # d
      <4>1. call[g].task.about \in Destinations
        BY <1>9, <3>1, TaskCall DEF PostedOps, TaskOK, Destinations
      <4> QED BY <3>1, <3>3, <4>1
    <3> QED BY <3>2, <3>3
  <2> QED BY <2>1, <2>2
<1>10. DOMAIN webhooks' \subseteq Webhooks
  BY DEF TallyOK
<1> QED BY <1>5, <1>6, <1>7, <1>8, <1>9, <1>10 DEF TallyOK

PostingOps == TaskOps \cup PostedOps \cup {"idle"}

LEMMA PostingSplit == PostingOps \subseteq DeliveryOps /\ PostingOps \cap {"alert", "conclude"} = {}
BY DEF PostingOps, DeliveryOps, TaskOps, PostedOps

LEMMA SentIsTally ==
  ASSUME NEW counts \in Tally, NEW n \in Nat
  PROVE  LET new == Sent(counts, n) IN
         /\ new \in Tally /\ new.posted = counts.posted + 1 /\ new.received = counts.received + n
         /\ new.acknowledged = counts.acknowledged
         /\ new.uncounted = counts.uncounted /\ new.unlogged = counts.unlogged
<1>1. counts.posted + 1 \in Nat /\ counts.received + n \in Nat
  BY DEF Tally
<1> QED BY <1>1 DEF Tally, Sent

\* The post, whether it arrives or not.
LEMMA TransmitKeeps ==
  ASSUME CallsOK, TasksOK, DeliveriesOK, NEW h \in Handlers, NEW next,
         (At(h, "post") /\ next = "count") \/ (At(h, "send") /\ next = "sent"),
         Transmit(h, next), UNCHANGED <<settings, webhooks, attempted, alerts, unmarked, taskVars>>
  PROVE  Moves(DeliveryOps) /\ TasksStep /\ DeliveriesOK'
<1> DEFINE t == call[h].task
           d == Destination(t)
<1>1. /\ call[h].op \in {"post", "send"} /\ call[h].op \in TaskOps /\ next \in PostedOps
      /\ call[h].op = "post" <=> next = "count"
      /\ call[h].op = "send" <=> next = "sent"
  BY DEF At, TaskOps, PostedOps
<1>2. /\ TaskOK(t) /\ t.to # "summarize"
      /\ next = "count" => t.to = "webhook" /\ d = t.about /\ d \in Webhooks
      /\ next = "sent" => t.to # "webhook" /\ d = "mail" /\ d \notin Webhooks
      /\ d \in Destinations
  BY <1>1, TaskCall, Constants DEF Destination, Destinations, TaskOK
<1>3. PICK ok \in BOOLEAN, n \in {0, 1} :
        /\ call' = [call EXCEPT ![h] = [op |-> next, task |-> t, ok |-> ok]]
        /\ tally' = [tally EXCEPT ![d] = Sent(@, n)]
        /\ ok => n = 1
        /\ UNCHANGED left \/ Count("fault")
  <2>1. CASE /\ tally' = [tally EXCEPT ![d] = Sent(@, 1)]
             /\ Proceed(h, [op |-> next, task |-> t, ok |-> TRUE])
    <3> WITNESS TRUE \in BOOLEAN, 1 \in {0, 1}
    <3> QED BY ONLY <2>1 DEF Proceed
  <2>2. ASSUME NEW n \in {0, 1},
               Count("fault"), call' = [call EXCEPT ![h] = [op |-> next, task |-> t, ok |-> FALSE]],
               tally' = [tally EXCEPT ![d] = Sent(@, n)]
        PROVE  \E ok \in BOOLEAN, m \in {0, 1} :
                 /\ call' = [call EXCEPT ![h] = [op |-> next, task |-> t, ok |-> ok]]
                 /\ tally' = [tally EXCEPT ![d] = Sent(@, m)]
                 /\ ok => m = 1
                 /\ UNCHANGED left \/ Count("fault")
    <3> WITNESS FALSE \in BOOLEAN, n \in {0, 1}
    <3> QED BY ONLY <2>2
  <2> QED BY <2>1, <2>2 DEF Transmit
<1> DEFINE c == [op |-> next, task |-> t, ok |-> ok]
<1>4. c.op = next /\ c.task = t /\ c.ok = ok /\ DOMAIN c = {"op", "task", "ok"}
  OBVIOUS
<1>5. call' = [call EXCEPT ![h] = c] /\ left' \in [Kinds -> Nat]
  BY <1>3, CountKeeps DEF CallsOK
<1> HIDE DEF c
<1>6. CallOK(c)
  BY <1>1, <1>2, <1>4, PostedCallIsOK DEF PostedOps
<1>7. Moves(PostingOps)
  BY <1>1, <1>4, <1>5, <1>6, MoveMoves DEF PostingOps
<1>8. call'[h] = c /\ \A g \in Handlers \ {h} : call'[g] = call[g]
  BY <1>5, CallAfter
<1>9. /\ tally[d] \in Tally /\ tally'[d] \in Tally /\ tally' \in [Destinations -> Tally]
      /\ tally'[d].posted = tally[d].posted + 1 /\ tally'[d].received = tally[d].received + n
      /\ tally'[d].acknowledged = tally[d].acknowledged
      /\ tally'[d].uncounted = tally[d].uncounted /\ tally'[d].unlogged = tally[d].unlogged
      /\ \A e \in Destinations \ {d} : tally'[e] = tally[e]
  <2>1. tally[d] \in Tally /\ tally \in [Destinations -> Tally]
    BY <1>2 DEF DeliveriesOK, TallyOK
  <2> DEFINE new == Sent(tally[d], n)
  <2>2. /\ new \in Tally /\ new.posted = tally[d].posted + 1 /\ new.received = tally[d].received + n
        /\ new.acknowledged = tally[d].acknowledged
        /\ new.uncounted = tally[d].uncounted /\ new.unlogged = tally[d].unlogged
    BY <1>3, <2>1, SentIsTally
  <2>3. tally' = [tally EXCEPT ![d] = new]
    BY <1>3
  <2> HIDE DEF new, d
  <2> QED BY <1>2, <2>1, <2>2, <2>3
<1>10. TallyOK'
  <2>1. ~Posted(call[h]) /\ Posted(call'[h]) /\ call[h].op \notin {"count", "log"}
    BY <1>1, <1>4, <1>8 DEF Posted, PostedOps
  <2>2. \A e \in {call[h], call'[h]} :
          Posted(e) => Destination(e.task) = d /\ (e.op \in {"count", "log"} => e.task.about = d)
    BY <1>1, <1>2, <1>4, <1>8, <2>1 DEF PostedOps
  <2>3. \A w \in DOMAIN webhooks : webhooks'[w] \in Webhook /\ webhooks'[w] = webhooks[w]
    BY DEF DeliveriesOK, TallyOK
  <2>4. TallyOK /\ DOMAIN webhooks' = DOMAIN webhooks
    BY DEF DeliveriesOK
  <2>5. tally'[d].acknowledged + tally[d].received + (IF Posted(call'[h]) /\ call'[h].ok THEN 1 ELSE 0)
          <= tally[d].acknowledged + tally'[d].received + (IF Posted(call[h]) /\ call[h].ok THEN 1 ELSE 0)
    BY <1>3, <1>4, <1>8, <1>9, <2>1 DEF Tally
  <2>6. d \in DOMAIN webhooks =>
           /\ tally'[d].posted + webhooks[d].count + tally[d].uncounted
                  + (IF call[h].op = "count" THEN 1 ELSE 0)
                = tally[d].posted + webhooks'[d].count + tally'[d].uncounted
                  + (IF call'[h].op = "count" THEN 1 ELSE 0)
           /\ tally'[d].posted + webhooks[d].logged + tally[d].unlogged
                  + (IF call[h].op \in {"count", "log"} THEN 1 ELSE 0)
                = tally[d].posted + webhooks'[d].logged + tally'[d].unlogged
                  + (IF call'[h].op \in {"count", "log"} THEN 1 ELSE 0)
    <3> SUFFICES ASSUME d \in DOMAIN webhooks
                 PROVE  /\ tally'[d].posted + webhooks[d].count + tally[d].uncounted
                             + (IF call[h].op = "count" THEN 1 ELSE 0)
                           = tally[d].posted + webhooks'[d].count + tally'[d].uncounted
                             + (IF call'[h].op = "count" THEN 1 ELSE 0)
                        /\ tally'[d].posted + webhooks[d].logged + tally[d].unlogged
                             + (IF call[h].op \in {"count", "log"} THEN 1 ELSE 0)
                           = tally[d].posted + webhooks'[d].logged + tally'[d].unlogged
                             + (IF call'[h].op \in {"count", "log"} THEN 1 ELSE 0)
      OBVIOUS
    <3>1. webhooks[d] \in Webhook /\ webhooks'[d] = webhooks[d] /\ d \in Webhooks /\ call'[h].op = "count"
      BY <1>1, <1>2, <1>4, <1>8, <2>3 DEF DeliveriesOK, TallyOK, PostedOps
    <3>2. PICK p \in Nat, u \in Nat, g \in Nat, k \in Nat, m \in Nat :
            /\ p = tally[d].posted /\ u = tally[d].uncounted /\ g = tally[d].unlogged
            /\ k = webhooks[d].count /\ m = webhooks[d].logged
      BY <1>9, <3>1 DEF Tally, Webhook
    <3>3. /\ tally'[d].posted = p + 1 /\ tally'[d].uncounted = u /\ tally'[d].unlogged = g
          /\ webhooks'[d].count = k /\ webhooks'[d].logged = m
      BY <1>9, <3>1, <3>2
    <3>4. /\ (IF call[h].op = "count" THEN 1 ELSE 0) = 0
          /\ (IF call[h].op \in {"count", "log"} THEN 1 ELSE 0) = 0
          /\ (IF call'[h].op = "count" THEN 1 ELSE 0) = 1
          /\ (IF call'[h].op \in {"count", "log"} THEN 1 ELSE 0) = 1
      BY <2>1, <3>1
    <3>5. p + 1 + k + u + 0 = p + k + u + 1 /\ p + 1 + m + g + 0 = p + m + g + 1
      OBVIOUS
    <3> HIDE DEF d
    <3> QED BY <3>2, <3>3, <3>4, <3>5, Zenon
  <2>7. tally'[d].posted > 0 /\ tally[d].posted <= tally'[d].posted
    BY <1>9 DEF Tally
  <2> HIDE DEF d
  <2> QED BY <1>2, <1>8, <1>9, <2>2, <2>3, <2>4, <2>5, <2>6, <2>7, OneTally
<1>11. AlertsOK'
  BY <1>7, PostingSplit, OtherAlerts DEF DeliveriesOK
<1>12. DeliveriesOK'
  BY <1>10, <1>11 DEF DeliveriesOK, SettingsOK, TimeOK
<1> QED BY <1>7, <1>12, PostingSplit, DeliveryMoves, UnchangedTasks

LEMMA PostingStep ==
  ASSUME DeliveriesOK, Moves(PostingOps), TallyOK', UNCHANGED <<settings, attempted, alerts, unmarked>>
  PROVE  Moves(DeliveryOps) /\ DeliveriesOK'
<1>1. AlertsOK'
  BY PostingSplit, OtherAlerts DEF DeliveriesOK
<1> QED BY <1>1, PostingSplit, DeliveryMoves DEF DeliveriesOK, SettingsOK, TimeOK

LEMMA CountedIsRow ==
  ASSUME NEW row \in Webhook, NEW ok \in BOOLEAN
  PROVE  /\ Counted(row, ok) \in Webhook /\ Counted(row, ok).count = row.count + 1
         /\ Counted(row, ok).logged = row.logged
<1>1. row.count + 1 \in Nat /\ (IF ok THEN row.errors ELSE row.errors + 1) \in Nat
  BY DEF Webhook
<1> QED BY <1>1 DEF Counted, Webhook

\* A call that has posted for a webhook.
LEMMA Recording ==
  ASSUME CallsOK, DeliveriesOK, NEW h \in Handlers, call[h].op \in {"count", "log"}
  PROVE  /\ Posted(call[h]) /\ DOMAIN call[h] = {"op", "task", "ok"} /\ call[h].ok \in BOOLEAN
         /\ TaskOK(call[h].task) /\ call[h].task.to = "webhook"
         /\ Destination(call[h].task) = call[h].task.about
         /\ call[h].task.about \in Webhooks /\ call[h].task.about \in Destinations
         /\ tally[call[h].task.about] \in Tally /\ tally[call[h].task.about].posted > 0
<1>1. call[h].op \in PostedOps
  BY DEF PostedOps
<1>2. /\ DOMAIN call[h] = {"op", "task", "ok"} /\ call[h].ok \in BOOLEAN
      /\ TaskOK(call[h].task) /\ call[h].task.to = "webhook"
  BY <1>1, TaskCall
<1>3. call[h].task.about \in Webhooks /\ call[h].task.about \in Destinations
  BY <1>2 DEF TaskOK, Destinations
<1> QED BY <1>1, <1>2, <1>3 DEF Posted, Destination, DeliveriesOK, TallyOK

\* The row of a webhook counts or logs a post, if it is there.
LEMMA RecordKeeps ==
  ASSUME CallsOK, DeliveriesOK, NEW h \in Handlers, NEW row,
         call[h].op \in {"count", "log"}, UNCHANGED <<settings, attempted, alerts, unmarked, tally>>,
         Proceed(h, [call[h] EXCEPT !.op = IF call[h].op = "count" THEN "log" ELSE "sent"]),
         webhooks' = IF call[h].task.about \notin DOMAIN webhooks THEN webhooks
                     ELSE [webhooks EXCEPT ![call[h].task.about] = row],
         call[h].task.about \in DOMAIN webhooks =>
           /\ row \in Webhook
           /\ row.count = webhooks[call[h].task.about].count + (IF call[h].op = "count" THEN 1 ELSE 0)
           /\ row.logged = webhooks[call[h].task.about].logged + (IF call[h].op = "log" THEN 1 ELSE 0)
  PROVE  Moves(DeliveryOps) /\ DeliveriesOK'
<1> DEFINE d == call[h].task.about
           c == [call[h] EXCEPT !.op = IF call[h].op = "count" THEN "log" ELSE "sent"]
<1>1. /\ c.op = (IF call[h].op = "count" THEN "log" ELSE "sent") /\ c.task = call[h].task
      /\ c.ok = call[h].ok /\ DOMAIN c = {"op", "task", "ok"}
  BY Recording
<1>2. Proceed(h, c) /\ call' = [call EXCEPT ![h] = c]
  BY DEF Proceed
<1> HIDE DEF c
<1>3. CallOK(c)
  BY <1>1, Recording, PostedCallIsOK DEF PostedOps
<1>4. Moves(PostingOps)
  BY <1>1, <1>2, <1>3, ProceedMoves DEF PostingOps, PostedOps
<1>5. call'[h] = c /\ \A g \in Handlers \ {h} : call'[g] = call[g]
  BY <1>2, CallAfter
<1>6. Posted(call[h]) /\ Posted(c) /\ d \in Webhooks /\ d \in Destinations
      /\ tally[d] \in Tally /\ tally[d].posted > 0
  BY <1>1, Recording DEF Posted, PostedOps
<1>7. \A e \in {call[h], call'[h]} :
        Posted(e) => Destination(e.task) = d /\ (e.op \in {"count", "log"} => e.task.about = d)
  BY <1>1, <1>5, Recording
<1>8. /\ DOMAIN webhooks' = DOMAIN webhooks
      /\ \A w \in DOMAIN webhooks : webhooks'[w] \in Webhook /\ (w # d => webhooks'[w] = webhooks[w])
  BY DEF DeliveriesOK, TallyOK
<1>9. TallyOK /\ tally' \in [Destinations -> Tally] /\ tally' = tally
  BY DEF DeliveriesOK, TallyOK
<1>10. tally'[d].acknowledged + tally[d].received + (IF Posted(call'[h]) /\ call'[h].ok THEN 1 ELSE 0)
         <= tally[d].acknowledged + tally'[d].received + (IF Posted(call[h]) /\ call[h].ok THEN 1 ELSE 0)
  BY <1>1, <1>5, <1>6, <1>9 DEF Tally
<1>11. ASSUME d \in DOMAIN webhooks
       PROVE  /\ tally'[d].posted + webhooks[d].count + tally[d].uncounted
                    + (IF call[h].op = "count" THEN 1 ELSE 0)
                  = tally[d].posted + webhooks'[d].count + tally'[d].uncounted
                    + (IF call'[h].op = "count" THEN 1 ELSE 0)
              /\ tally'[d].posted + webhooks[d].logged + tally[d].unlogged
                    + (IF call[h].op \in {"count", "log"} THEN 1 ELSE 0)
                  = tally[d].posted + webhooks'[d].logged + tally'[d].unlogged
                    + (IF call'[h].op \in {"count", "log"} THEN 1 ELSE 0)
  <2>1. webhooks'[d] = row /\ webhooks[d] \in Webhook
    BY <1>11 DEF DeliveriesOK, TallyOK
  <2>2. CASE call[h].op = "count"
    BY <1>1, <1>5, <1>6, <1>9, <1>11, <2>1, <2>2 DEF Webhook, Tally
  <2>3. CASE call[h].op = "log"
    BY <1>1, <1>5, <1>6, <1>9, <1>11, <2>1, <2>3 DEF Webhook, Tally
  <2> QED BY <2>2, <2>3
<1>12. /\ tally[d].posted <= tally'[d].posted /\ tally'[d].posted > 0
       /\ \A e \in Destinations \ {d} : tally'[e] = tally[e]
  BY <1>6, <1>9 DEF Tally
<1>13. tally'[d].posted # 0
  BY <1>6, <1>9 DEF Tally
<1>14. TallyOK'
  <2> HIDE DEF d
  <2> QED BY <1>5, <1>6, <1>7, <1>8, <1>9, <1>10, <1>11, <1>12, <1>13, OneTally
<1> QED BY <1>4, <1>14, PostingStep

LEMMA RecordedKeep ==
  ASSUME CallsOK, TasksOK, DeliveriesOK, NEW h \in Handlers, UpdateDeliveryStats(h) \/ LogDelivery(h)
  PROVE  Moves(DeliveryOps) /\ TasksStep /\ DeliveriesOK'
<1> DEFINE w == call[h].task.about
<1>1. CASE UpdateDeliveryStats(h)
  <2> DEFINE row == Counted(webhooks[w], call[h].ok)
  <2>1. call[h].op = "count" /\ call[h].ok \in BOOLEAN
    BY <1>1, Recording DEF UpdateDeliveryStats, At
  <2>2. w \in DOMAIN webhooks => webhooks[w] \in Webhook
    BY DEF DeliveriesOK, TallyOK
  <2>3. w \in DOMAIN webhooks => /\ row \in Webhook /\ row.count = webhooks[w].count + 1
                                 /\ row.logged = webhooks[w].logged + 0
    BY <2>1, <2>2, CountedIsRow DEF Webhook
  <2>4. /\ UNCHANGED <<settings, attempted, alerts, unmarked, tally, taskVars>>
        /\ Proceed(h, [call[h] EXCEPT !.op = IF call[h].op = "count" THEN "log" ELSE "sent"])
        /\ webhooks' = IF w \notin DOMAIN webhooks THEN webhooks ELSE [webhooks EXCEPT ![w] = row]
    BY <1>1, <2>1 DEF UpdateDeliveryStats
  <2> HIDE DEF row
  <2> QED BY <2>1, <2>3, <2>4, RecordKeeps, UnchangedTasks
<1>2. CASE LogDelivery(h)
  <2> DEFINE row == [webhooks[w] EXCEPT !.logged = @ + 1]
  <2>1. call[h].op = "log"
    BY <1>2 DEF LogDelivery, At
  <2>2. w \in DOMAIN webhooks => webhooks[w] \in Webhook
    BY DEF DeliveriesOK, TallyOK
  <2>3. w \in DOMAIN webhooks => /\ row \in Webhook /\ row.count = webhooks[w].count + 0
                                 /\ row.logged = webhooks[w].logged + 1
    BY <2>2 DEF Webhook
  <2>4. /\ UNCHANGED <<settings, attempted, alerts, unmarked, tally, taskVars>>
        /\ Proceed(h, [call[h] EXCEPT !.op = IF call[h].op = "count" THEN "log" ELSE "sent"])
        /\ webhooks' = IF w \notin DOMAIN webhooks THEN webhooks ELSE [webhooks EXCEPT ![w] = row]
    BY <1>2, <2>1, <2>2 DEF LogDelivery, Webhook
  <2> HIDE DEF row
  <2> QED BY <2>1, <2>3, <2>4, RecordKeeps, UnchangedTasks
<1> QED BY <1>1, <1>2

LEMMA MissedIsTally ==
  ASSUME NEW counts \in Tally, NEW m \in Nat, NEW n \in Nat
  PROVE  LET new == Missed(counts, m, n) IN
         /\ new \in Tally /\ new.uncounted = counts.uncounted + m /\ new.unlogged = counts.unlogged + n
         /\ new.posted = counts.posted /\ new.received = counts.received
         /\ new.acknowledged = counts.acknowledged
<1>1. counts.uncounted + m \in Nat /\ counts.unlogged + n \in Nat
  BY DEF Tally
<1> QED BY <1>1 DEF Tally, Missed

\* A call that leaves its count or its log entry out.
LEMMA MissingTally ==
  ASSUME CallsOK, DeliveriesOK, NEW h \in Handlers, call[h].op \in {"count", "log"}, NEW c, NEW what,
         call' = [call EXCEPT ![h] = c], UNCHANGED webhooks, tally' = Missing(h, what),
         c.op \in PostedOps => c.op \in {"log", "sent"} /\ c.task = call[h].task /\ c.ok = call[h].ok,
         c.op # "count",
         "count" \in what <=> call[h].op = "count",
         "log" \in what <=> c.op # "log"
  PROVE  TallyOK'
<1> DEFINE d == call[h].task.about
           m == IF "count" \in what THEN 1 ELSE 0
           n == IF "log" \in what THEN 1 ELSE 0
           new == Missed(tally[d], m, n)
<1>1. tally' = [tally EXCEPT ![d] = new]
  BY DEF Missing
<1>2. /\ Posted(call[h]) /\ d \in Webhooks /\ d \in Destinations
      /\ tally[d] \in Tally /\ tally[d].posted > 0 /\ Destination(call[h].task) = d
      /\ tally \in [Destinations -> Tally]
  BY Recording DEF DeliveriesOK, TallyOK
<1>3. m \in Nat /\ n \in Nat
  OBVIOUS
<1>4. /\ m = (IF call[h].op = "count" THEN 1 ELSE 0)
      /\ n = (IF c.op = "log" THEN 0 ELSE 1)
  OBVIOUS
<1> HIDE DEF d, m, n
<1>5. /\ new \in Tally /\ new.uncounted = tally[d].uncounted + m /\ new.unlogged = tally[d].unlogged + n
      /\ new.posted = tally[d].posted /\ new.received = tally[d].received
      /\ new.acknowledged = tally[d].acknowledged
  BY <1>2, <1>3, MissedIsTally
<1> HIDE DEF new
<1>6. /\ tally'[d] = new /\ tally' \in [Destinations -> Tally]
      /\ \A e \in Destinations \ {d} : tally'[e] = tally[e]
  BY <1>1, <1>2, <1>5
<1>7. call'[h] = c /\ \A g \in Handlers \ {h} : call'[g] = call[g]
  BY CallAfter
<1>8. \A e \in {call[h], call'[h]} :
        Posted(e) => Destination(e.task) = d /\ (e.op \in {"count", "log"} => e.task.about = d)
  BY <1>2, <1>7 DEF Posted, d
<1>9. /\ DOMAIN webhooks' = DOMAIN webhooks
      /\ \A w \in DOMAIN webhooks : webhooks'[w] \in Webhook /\ (w # d => webhooks'[w] = webhooks[w])
  BY DEF DeliveriesOK, TallyOK
<1>10. tally'[d].acknowledged + tally[d].received + (IF Posted(call'[h]) /\ call'[h].ok THEN 1 ELSE 0)
         <= tally[d].acknowledged + tally'[d].received + (IF Posted(call[h]) /\ call[h].ok THEN 1 ELSE 0)
  BY <1>2, <1>5, <1>6, <1>7 DEF Tally, Posted
<1>11. ASSUME d \in DOMAIN webhooks
       PROVE  /\ tally'[d].posted + webhooks[d].count + tally[d].uncounted
                    + (IF call[h].op = "count" THEN 1 ELSE 0)
                  = tally[d].posted + webhooks'[d].count + tally'[d].uncounted
                    + (IF call'[h].op = "count" THEN 1 ELSE 0)
              /\ tally'[d].posted + webhooks[d].logged + tally[d].unlogged
                    + (IF call[h].op \in {"count", "log"} THEN 1 ELSE 0)
                  = tally[d].posted + webhooks'[d].logged + tally'[d].unlogged
                    + (IF call'[h].op \in {"count", "log"} THEN 1 ELSE 0)
  <2>1. webhooks[d] \in Webhook
    BY <1>11 DEF DeliveriesOK, TallyOK
  <2>2. (IF call[h].op \in {"count", "log"} THEN 1 ELSE 0) = 1
    OBVIOUS
  <2>3. (IF call'[h].op \in {"count", "log"} THEN 1 ELSE 0) = 1 - n
        /\ (IF call'[h].op = "count" THEN 1 ELSE 0) = 0 /\ n \in {0, 1}
    BY <1>4, <1>7
  <2>5. /\ tally'[d].posted + webhooks[d].count + tally[d].uncounted
             + (IF call[h].op = "count" THEN 1 ELSE 0)
           = tally[d].posted + webhooks'[d].count + tally'[d].uncounted
             + (IF call'[h].op = "count" THEN 1 ELSE 0)
    BY <1>2, <1>3, <1>4, <1>5, <1>6, <2>1, <2>3 DEF Webhook, Tally
  <2>6. tally'[d].posted = tally[d].posted /\ tally'[d].unlogged = tally[d].unlogged + n
        /\ webhooks'[d].logged = webhooks[d].logged
        /\ tally[d].posted \in Nat /\ tally[d].unlogged \in Nat /\ webhooks[d].logged \in Nat
    BY <1>2, <1>5, <1>6, <2>1 DEF Webhook, Tally
  <2>7. tally'[d].posted + webhooks[d].logged + tally[d].unlogged + 1
          = tally[d].posted + webhooks'[d].logged + tally'[d].unlogged + (1 - n)
    BY <2>3, <2>6
  <2> QED BY <2>2, <2>3, <2>5, <2>7
<1>12. /\ tally[d].posted <= tally'[d].posted /\ tally'[d].posted > 0 /\ tally'[d].posted # 0
  BY <1>2, <1>5, <1>6 DEF Tally
<1> QED BY <1>2, <1>6, <1>7, <1>8, <1>9, <1>10, <1>11, <1>12, OneTally DEF DeliveriesOK

LEMMA UnrecordedKeeps ==
  ASSUME CallsOK, TasksOK, DeliveriesOK, NEW h \in Handlers, Unrecorded(h)
  PROVE  Moves(DeliveryOps) /\ TasksStep /\ DeliveriesOK'
<1> DEFINE c == [call[h] EXCEPT !.op = IF call[h].op = "count" THEN "log" ELSE "sent"]
<1>1. /\ call[h].op \in {"count", "log"} /\ Count("fault") /\ tally' = Missing(h, {call[h].op})
      /\ UNCHANGED <<settings, webhooks, attempted, alerts, unmarked, taskVars>>
      /\ call' = [call EXCEPT ![h] = c]
  BY DEF Unrecorded, CallsOK
<1>2. /\ c.op = (IF call[h].op = "count" THEN "log" ELSE "sent") /\ c.task = call[h].task
      /\ c.ok = call[h].ok /\ DOMAIN c = {"op", "task", "ok"}
  BY <1>1, Recording
<1> HIDE DEF c
<1>3. CallOK(c)
  BY <1>1, <1>2, Recording, PostedCallIsOK DEF PostedOps
<1>4. Moves(PostingOps)
  BY <1>1, <1>2, <1>3, FaultMoves DEF PostingOps, PostedOps
<1>5. TallyOK'
  BY <1>1, <1>2, MissingTally
<1> QED BY <1>1, <1>4, <1>5, PostingStep, UnchangedTasks

\* The answer is acknowledged, if it is.
LEMMA FinishTally ==
  ASSUME CallsOK, DeliveriesOK, NEW h \in Handlers, call[h].op = "sent",
         call' = [call EXCEPT ![h] = Idle], UNCHANGED webhooks,
         \/ UNCHANGED tally
         \/ /\ call[h].ok
            /\ tally' = [tally EXCEPT ![Destination(call[h].task)].acknowledged = @ + 1]
  PROVE  TallyOK'
<1> DEFINE d == Destination(call[h].task)
<1>1. TaskOK(call[h].task) /\ call[h].op \in PostedOps
  BY TaskCall DEF PostedOps
<1>2. d \in Destinations
  BY <1>1 DEF TaskOK, Destination, Destinations
<1>3. tally \in [Destinations -> Tally] /\ tally[d] \in Tally
  BY <1>2 DEF DeliveriesOK, TallyOK
<1>4. /\ tally' \in [Destinations -> Tally] /\ \A e \in Destinations \ {d} : tally'[e] = tally[e]
      /\ tally'[d].posted = tally[d].posted /\ tally'[d].received = tally[d].received
      /\ tally'[d].uncounted = tally[d].uncounted /\ tally'[d].unlogged = tally[d].unlogged
      /\ \/ tally'[d].acknowledged = tally[d].acknowledged
         \/ call[h].ok /\ tally'[d].acknowledged = tally[d].acknowledged + 1
  <2>1. CASE UNCHANGED tally
    BY <1>3, <2>1
  <2>2. CASE call[h].ok /\ tally' = [tally EXCEPT ![Destination(call[h].task)].acknowledged = @ + 1]
    <3> DEFINE new == [tally[d] EXCEPT !.acknowledged = @ + 1]
    <3>1. new \in Tally /\ new.acknowledged = tally[d].acknowledged + 1
          /\ new.posted = tally[d].posted /\ new.received = tally[d].received
          /\ new.uncounted = tally[d].uncounted /\ new.unlogged = tally[d].unlogged
      BY <1>3 DEF Tally
    <3>2. tally' = [tally EXCEPT ![d] = new]
      BY <2>2, <1>3 DEF Tally
    <3> HIDE DEF new, d
    <3> QED BY <1>2, <1>3, <2>2, <3>1, <3>2
  <2> QED BY <2>1, <2>2
<1>5. call'[h] = Idle /\ \A g \in Handlers \ {h} : call'[g] = call[g]
  BY CallAfter
<1>6. Posted(call[h]) /\ ~Posted(call'[h]) /\ call'[h].op = "idle"
  BY <1>1, <1>5, IdleIsOK DEF Posted, PostedOps
<1>7. \A e \in {call[h], call'[h]} :
        Posted(e) => Destination(e.task) = d /\ (e.op \in {"count", "log"} => e.task.about = d)
  BY <1>6
<1>8. /\ TallyOK /\ DOMAIN webhooks' = DOMAIN webhooks
      /\ \A w \in DOMAIN webhooks : webhooks[w] \in Webhook /\ webhooks'[w] = webhooks[w]
  BY DEF DeliveriesOK, TallyOK
<1> HIDE DEF d
<1>9. tally'[d].acknowledged + tally[d].received + (IF Posted(call'[h]) /\ call'[h].ok THEN 1 ELSE 0)
        <= tally[d].acknowledged + tally'[d].received + (IF Posted(call[h]) /\ call[h].ok THEN 1 ELSE 0)
  BY <1>3, <1>4, <1>6 DEF Tally
<1>10. ASSUME d \in DOMAIN webhooks
       PROVE  /\ tally'[d].posted + webhooks[d].count + tally[d].uncounted
                    + (IF call[h].op = "count" THEN 1 ELSE 0)
                  = tally[d].posted + webhooks'[d].count + tally'[d].uncounted
                    + (IF call'[h].op = "count" THEN 1 ELSE 0)
              /\ tally'[d].posted + webhooks[d].logged + tally[d].unlogged
                    + (IF call[h].op \in {"count", "log"} THEN 1 ELSE 0)
                  = tally[d].posted + webhooks'[d].logged + tally'[d].unlogged
                    + (IF call'[h].op \in {"count", "log"} THEN 1 ELSE 0)
  BY <1>3, <1>4, <1>6, <1>8, <1>10 DEF Tally, Webhook
<1>11. tally[d].posted <= tally'[d].posted
       /\ (d \in Webhooks /\ tally'[d].posted = 0 => tally'[d].uncounted = 0 /\ tally'[d].unlogged = 0)
  BY <1>3, <1>4, <1>8 DEF Tally, TallyOK
<1> QED BY <1>2, <1>4, <1>5, <1>6, <1>7, <1>8, <1>9, <1>10, <1>11, OneTally

LEMMA FinishKeeps ==
  ASSUME CallsOK, TasksOK, DeliveriesOK, NEW h \in Handlers, FinishDelivery(h)
  PROVE  Moves(DeliveryOps) /\ TasksStep /\ DeliveriesOK'
<1>1. /\ call[h].op = "sent" /\ Return(h) /\ call' = [call EXCEPT ![h] = Idle]
      /\ UNCHANGED <<settings, webhooks, attempted, alerts, unmarked>>
      /\ UNCHANGED taskVars \/ Retry(call[h].task)
      /\ \/ UNCHANGED tally
         \/ /\ call[h].ok
            /\ tally' = [tally EXCEPT ![Destination(call[h].task)].acknowledged = @ + 1]
  BY DEF FinishDelivery, At, Acknowledge, Fail, Return, Proceed
<1>2. TaskOK(call[h].task)
  BY <1>1, TaskCall DEF PostedOps
<1>3. Moves(PostingOps)
  BY <1>1, ReturnMoves DEF PostingOps, PostedOps
<1>4. TasksStep
  BY <1>1, <1>2, UnchangedTasks, RetriedTasks
<1>5. TallyOK'
  BY <1>1, FinishTally
<1> QED BY <1>1, <1>3, <1>4, <1>5, PostingStep

-----------------------------------------------------------------------------
(* Deliveries: the monitor.                                                *)

InMarking(c, f) == c.op \in {"alert", "conclude"} /\ f \in c.marked
InListed(c, f) == c.op = "alert" /\ \E i \in c.todo : Overdue[i] = f

LEMMA OneMonitor ==
  ASSUME NEW h \in Handlers, NEW c, CallsOK, call' = [call EXCEPT ![h] = c], NEW f
  PROVE  /\ Cardinality(Marking(f)) \in Nat /\ Cardinality(Marking(f)') \in Nat
         /\ Cardinality(Marking(f)') + (IF InMarking(call[h], f) THEN 1 ELSE 0)
              = Cardinality(Marking(f)) + (IF InMarking(c, f) THEN 1 ELSE 0)
         /\ Cardinality(Listed(f)) \in Nat /\ Cardinality(Listed(f)') \in Nat
         /\ Cardinality(Listed(f)') + (IF InListed(call[h], f) THEN 1 ELSE 0)
              = Cardinality(Listed(f)) + (IF InListed(c, f) THEN 1 ELSE 0)
<1>1. call'[h] = c /\ \A g \in Handlers \ {h} : call'[g] = call[g]
  BY CallAfter
<1>2. /\ Marking(f) \in SUBSET Handlers /\ Marking(f)' \in SUBSET Handlers
      /\ \A g \in Handlers \ {h} : g \in Marking(f) <=> g \in Marking(f)'
      /\ h \in Marking(f) <=> InMarking(call[h], f)
      /\ h \in Marking(f)' <=> InMarking(c, f)
  BY <1>1 DEF Marking, InMarking, Alerting
<1>3. /\ Listed(f) \in SUBSET Handlers /\ Listed(f)' \in SUBSET Handlers
      /\ \A g \in Handlers \ {h} : g \in Listed(f) <=> g \in Listed(f)'
      /\ h \in Listed(f) <=> InListed(call[h], f)
      /\ h \in Listed(f)' <=> InListed(c, f)
  BY <1>1 DEF Listed, InListed, At
<1>4. /\ Cardinality(Marking(f)) \in Nat /\ Cardinality(Marking(f)') \in Nat
      /\ Cardinality(Marking(f)') + (IF h \in Marking(f) THEN 1 ELSE 0)
           = Cardinality(Marking(f)) + (IF h \in Marking(f)' THEN 1 ELSE 0)
  BY <1>2, OneHandler
<1>5. /\ Cardinality(Listed(f)) \in Nat /\ Cardinality(Listed(f)') \in Nat
      /\ Cardinality(Listed(f)') + (IF h \in Listed(f) THEN 1 ELSE 0)
           = Cardinality(Listed(f)) + (IF h \in Listed(f)' THEN 1 ELSE 0)
  BY <1>3, OneHandler
<1> QED BY <1>2, <1>3, <1>4, <1>5

\* A step of one call: what it has to do with each finding.
LEMMA OneAlert ==
  ASSUME CallsOK, AlertsOK, NEW h \in Handlers, NEW c, call' = [call EXCEPT ![h] = c],
         alerts' \in [Triaged -> Nat], unmarked' \in [Triaged -> Nat], UNCHANGED attempted,
         \A f \in Triaged :
           IF f \in attempted
             THEN alerts[f] <= alerts'[f]
               /\ alerts'[f] + unmarked[f] + (IF InListed(c, f) THEN 1 ELSE 0)
                    <= alerts[f] + unmarked'[f] + (IF InListed(call[h], f) THEN 1 ELSE 0)
             ELSE alerts'[f] + unmarked[f] + (IF InMarking(call[h], f) THEN 1 ELSE 0)
                    = alerts[f] + unmarked'[f] + (IF InMarking(c, f) THEN 1 ELSE 0)
  PROVE  AlertsOK'
<1>1. ASSUME NEW f \in Triaged
      PROVE  IF f \in attempted'
               THEN /\ alerts'[f] > 0
                    /\ alerts'[f] + Cardinality(Listed(f)') <= unmarked'[f] + Cardinality(Handlers)
               ELSE alerts'[f] = unmarked'[f] + Cardinality(Marking(f)')
  <2>1. /\ alerts[f] \in Nat /\ alerts'[f] \in Nat /\ unmarked[f] \in Nat /\ unmarked'[f] \in Nat
        /\ Cardinality(Handlers) \in Nat
    BY HandlersCount DEF AlertsOK
  <2>2. CASE f \in attempted
    <3>1. alerts[f] > 0 /\ alerts[f] + Cardinality(Listed(f)) <= unmarked[f] + Cardinality(Handlers)
      BY <2>2 DEF AlertsOK
    <3>2. /\ Cardinality(Listed(f)) \in Nat /\ Cardinality(Listed(f)') \in Nat
          /\ Cardinality(Listed(f)') + (IF InListed(call[h], f) THEN 1 ELSE 0)
               = Cardinality(Listed(f)) + (IF InListed(c, f) THEN 1 ELSE 0)
      BY OneMonitor
    <3> QED BY <2>1, <2>2, <3>1, <3>2
  <2>3. CASE f \notin attempted
    <3>1. alerts[f] = unmarked[f] + Cardinality(Marking(f))
      BY <2>3 DEF AlertsOK
    <3>2. /\ Cardinality(Marking(f)) \in Nat /\ Cardinality(Marking(f)') \in Nat
          /\ Cardinality(Marking(f)') + (IF InMarking(call[h], f) THEN 1 ELSE 0)
               = Cardinality(Marking(f)) + (IF InMarking(c, f) THEN 1 ELSE 0)
      BY OneMonitor
    <3> QED BY <2>1, <2>3, <3>1, <3>2
  <2> QED BY <2>2, <2>3
<1> QED BY <1>1 DEF AlertsOK

MonitorOps == {"idle", "list", "alert", "conclude"}

LEMMA MonitorSplit == MonitorOps \subseteq DeliveryOps /\ MonitorOps \cap PostedOps = {}
BY DEF MonitorOps, DeliveryOps, PostedOps

LEMMA MonitorStep ==
  ASSUME DeliveriesOK, Moves(MonitorOps), AlertsOK', UNCHANGED <<settings, webhooks, tally>>
  PROVE  Moves(DeliveryOps) /\ DeliveriesOK'
<1>1. TallyOK'
  BY MonitorSplit, OtherTally DEF DeliveriesOK
<1> QED BY <1>1, MonitorSplit, DeliveryMoves DEF DeliveriesOK, SettingsOK, TimeOK

LEMMA MonitorCallIsOK ==
  ASSUME NEW c, "op" \in DOMAIN c, c.op \in {"list", "alert", "conclude"},
         c.op = "list" => DOMAIN c = {"op", "mail"},
         c.op = "alert" => /\ DOMAIN c = {"op", "mail", "todo", "marked"} /\ c.todo \subseteq DOMAIN Overdue
                           /\ c.marked \subseteq Triaged /\ \A i \in c.todo : Overdue[i] \notin c.marked,
         c.op = "conclude" => DOMAIN c = {"op", "marked"} /\ c.marked \subseteq Triaged
  PROVE  CallOK(c)
<1>1. c.op \in DeliveryOps \ {"idle"} /\ DeliveryCallOK(c)
  BY DEF DeliveryOps, DeliveryCallOK, TaskOps, PostedOps
<1> QED BY <1>1, DeliveryCallIsOK

LEMMA CheckKeeps ==
  ASSUME CallsOK, TasksOK, DeliveriesOK, NEW h \in Handlers, CheckSLABreaches(h)
  PROVE  Moves(DeliveryOps) /\ TasksStep /\ DeliveriesOK'
<1> DEFINE c == [op |-> "list", mail |-> settings.mail]
<1>1. Begin("monitor", h, c) /\ UNCHANGED <<deliveryVars, taskVars>>
  BY DEF CheckSLABreaches
<1>2. CallOK(c) /\ c.op = "list"
  BY MonitorCallIsOK
<1> HIDE DEF c
<1>3. Moves({"idle", "list"}) /\ Moves(MonitorOps)
  BY <1>1, <1>2, BeginMoves DEF MonitorOps
<1>4. AlertsOK'
  BY <1>1, <1>3, OtherAlerts DEF DeliveriesOK, deliveryVars
<1> QED BY <1>1, <1>3, <1>4, MonitorStep, UnchangedTasks DEF deliveryVars

LEMMA ListKeeps ==
  ASSUME CallsOK, TasksOK, DeliveriesOK, NEW h \in Handlers, ListPendingSLABreaches(h)
  PROVE  Moves(DeliveryOps) /\ TasksStep /\ DeliveriesOK'
<1>1. /\ call[h].op = "list" /\ UNCHANGED <<deliveryVars, taskVars>>
      /\ \/ Return(h)
         \/ \E listed \in SUBSET DOMAIN Overdue :
              /\ \A i \in listed : Overdue[i] \notin attempted
              /\ Proceed(h, [op |-> "alert", mail |-> call[h].mail, todo |-> listed, marked |-> {}])
  <2> DEFINE pending == {i \in DOMAIN Overdue : Breaching(Overdue[i]) /\ Overdue[i] \notin attempted}
             listed == {i \in pending : Cardinality({j \in pending : j < i}) < ListLimit}
  <2>1. listed \in SUBSET DOMAIN Overdue /\ \A i \in listed : Overdue[i] \notin attempted
    OBVIOUS
  <2>2. /\ call[h].op = "list" /\ UNCHANGED <<deliveryVars, taskVars>>
        /\ \/ Return(h)
           \/ Proceed(h, [op |-> "alert", mail |-> call[h].mail, todo |-> listed, marked |-> {}])
    BY DEF ListPendingSLABreaches, Listing, At
  <2> HIDE DEF listed
  <2> QED BY <2>1, <2>2
<1>2. CASE Return(h)
  <2>1. Moves({"idle", "list"}) /\ Moves(MonitorOps)
    BY <1>1, <1>2, ReturnMoves DEF MonitorOps
  <2>2. AlertsOK'
    BY <1>1, <2>1, OtherAlerts DEF DeliveriesOK, deliveryVars
  <2> QED BY <1>1, <2>1, <2>2, MonitorStep, UnchangedTasks DEF deliveryVars
<1>3. ASSUME NEW listed \in SUBSET DOMAIN Overdue, \A i \in listed : Overdue[i] \notin attempted,
             Proceed(h, [op |-> "alert", mail |-> call[h].mail, todo |-> listed, marked |-> {}])
      PROVE  Moves(DeliveryOps) /\ TasksStep /\ DeliveriesOK'
  <2> DEFINE c == [op |-> "alert", mail |-> call[h].mail, todo |-> listed, marked |-> {}]
  <2>1. Proceed(h, c) /\ call' = [call EXCEPT ![h] = c]
    BY <1>3 DEF Proceed
  <2>2. CallOK(c) /\ c.op = "alert" /\ c.todo = listed /\ c.marked = {}
    BY MonitorCallIsOK
  <2> HIDE DEF c
  <2>3. Moves(MonitorOps)
    BY <1>1, <2>1, <2>2, ProceedMoves DEF MonitorOps
  <2>4. \A f \in Triaged :
          /\ ~InMarking(call[h], f) /\ ~InMarking(c, f) /\ ~InListed(call[h], f)
          /\ f \in attempted => ~InListed(c, f)
    BY <1>1, <1>3, <2>2 DEF InMarking, InListed
  <2>5. /\ alerts \in [Triaged -> Nat] /\ unmarked \in [Triaged -> Nat] /\ AlertsOK
        /\ UNCHANGED <<alerts, unmarked, attempted>>
    BY <1>1 DEF DeliveriesOK, deliveryVars, AlertsOK
  <2>6. \A f \in Triaged :
           IF f \in attempted
             THEN alerts[f] <= alerts'[f]
               /\ alerts'[f] + unmarked[f] + (IF InListed(c, f) THEN 1 ELSE 0)
                    <= alerts[f] + unmarked'[f] + (IF InListed(call[h], f) THEN 1 ELSE 0)
             ELSE alerts'[f] + unmarked[f] + (IF InMarking(call[h], f) THEN 1 ELSE 0)
                    = alerts[f] + unmarked'[f] + (IF InMarking(c, f) THEN 1 ELSE 0)
    BY <2>4, <2>5
  <2>7. AlertsOK'
    BY <2>1, <2>5, <2>6, OneAlert
  <2> QED BY <1>1, <2>3, <2>7, MonitorStep, UnchangedTasks DEF deliveryVars
<1> QED BY <1>1, <1>2, <1>3

LEMMA AlertKeeps ==
  ASSUME CallsOK, TasksOK, DeliveriesOK, NEW h \in Handlers, AlertBreach(h)
  PROVE  Moves(DeliveryOps) /\ TasksStep /\ DeliveriesOK'
<1>1. /\ call[h].op = "alert" /\ DOMAIN call[h] = {"op", "mail", "todo", "marked"}
      /\ call[h].todo \subseteq DOMAIN Overdue /\ call[h].marked \subseteq Triaged
      /\ \A i \in call[h].todo : Overdue[i] \notin call[h].marked
      /\ UNCHANGED <<settings, webhooks, attempted, unmarked, tally>>
  BY DEF AlertBreach, At, CallsOK, CallOK, DeliveryCallOK
<1>2. /\ alerts \in [Triaged -> Nat] /\ unmarked \in [Triaged -> Nat] /\ AlertsOK
      /\ DOMAIN webhooks \subseteq Webhooks
  BY DEF DeliveriesOK, AlertsOK, TallyOK
<1>3. CASE call[h].todo = {} /\ Proceed(h, [op |-> "conclude", marked |-> call[h].marked])
           /\ UNCHANGED <<alerts, taskVars>>
  <2> DEFINE c == [op |-> "conclude", marked |-> call[h].marked]
  <2>1. call' = [call EXCEPT ![h] = c] /\ Proceed(h, c) /\ UNCHANGED <<alerts, taskVars>>
    BY <1>3 DEF Proceed
  <2>2. CallOK(c) /\ c.op = "conclude" /\ c.marked = call[h].marked
    BY <1>1, MonitorCallIsOK
  <2> HIDE DEF c
  <2>3. Moves(MonitorOps)
    BY <1>1, <2>1, <2>2, ProceedMoves DEF MonitorOps
  <2>4. \A f \in Triaged : (InMarking(call[h], f) <=> InMarking(c, f)) /\ ~InListed(call[h], f) /\ ~InListed(c, f)
    BY <1>1, <1>3, <2>2 DEF InMarking, InListed
  <2>5. \A f \in Triaged :
           IF f \in attempted
             THEN alerts[f] <= alerts'[f]
               /\ alerts'[f] + unmarked[f] + (IF InListed(c, f) THEN 1 ELSE 0)
                    <= alerts[f] + unmarked'[f] + (IF InListed(call[h], f) THEN 1 ELSE 0)
             ELSE alerts'[f] + unmarked[f] + (IF InMarking(call[h], f) THEN 1 ELSE 0)
                    = alerts[f] + unmarked'[f] + (IF InMarking(c, f) THEN 1 ELSE 0)
    BY <1>1, <1>2, <2>1, <2>4
  <2>6. AlertsOK'
    BY <1>1, <1>2, <2>1, <2>5, OneAlert
  <2> QED BY <1>1, <2>1, <2>3, <2>6, MonitorStep, UnchangedTasks
<1>4. ASSUME NEW i \in call[h].todo, NEW some \in SUBSET Announcement("finding.sla_breach", call[h].mail),
             UNCHANGED left \/ Count("fault"), Enqueue(some),
             alerts' = IF some = {} THEN alerts ELSE [alerts EXCEPT ![Overdue[i]] = @ + 1],
             call' = [call EXCEPT ![h] = [call[h] EXCEPT !.todo = call[h].todo \ {i},
                        !.marked = IF some = {} THEN call[h].marked ELSE call[h].marked \cup {Overdue[i]}]]
      PROVE  Moves(DeliveryOps) /\ TasksStep /\ DeliveriesOK'
  <2> DEFINE f == Overdue[i]
             m == IF some = {} THEN call[h].marked ELSE call[h].marked \cup {f}
             c == [call[h] EXCEPT !.todo = call[h].todo \ {i}, !.marked = m]
  <2>1. /\ call' = [call EXCEPT ![h] = c] /\ left' \in [Kinds -> Nat]
    BY <1>4, CountKeeps DEF CallsOK
  <2>2. f \in Triaged /\ i \in DOMAIN Overdue /\ \A j \in DOMAIN Overdue : Overdue[j] = f => j = i
    BY <1>1, <1>4, Constants
  <2>3. f \notin call[h].marked /\ m \subseteq Triaged
    BY <1>1, <2>2
  <2>4. c.op = "alert" /\ c.todo = call[h].todo \ {i} /\ c.marked = m
        /\ DOMAIN c = {"op", "mail", "todo", "marked"}
    BY <1>1
  <2> HIDE DEF c
  <2>5. \A j \in c.todo : Overdue[j] \notin c.marked
    BY <1>1, <2>2, <2>4
  <2>6. CallOK(c)
    BY <1>1, <2>3, <2>4, <2>5, MonitorCallIsOK
  <2>7. Moves(MonitorOps)
    BY <1>1, <2>1, <2>4, <2>6, MoveMoves DEF MonitorOps
  <2>8. TasksStep
    <3>1. \A t \in some : TaskOK(t)
      BY <1>2, AnnouncementIsOK
    <3> QED BY <1>4, <3>1, EnqueuedTasks
  <2>9. /\ InListed(call[h], f) /\ ~InListed(c, f) /\ ~InMarking(call[h], f)
        /\ InMarking(c, f) <=> some # {}
    BY <1>1, <1>4, <2>2, <2>3, <2>4 DEF InListed, InMarking
  <2>10. \A g \in Triaged \ {f} :
           /\ InListed(call[h], g) <=> InListed(c, g)
           /\ InMarking(call[h], g) <=> InMarking(c, g)
    BY <1>1, <1>4, <2>2, <2>4 DEF InListed, InMarking
  <2>11. /\ alerts' \in [Triaged -> Nat] /\ \A g \in Triaged \ {f} : alerts'[g] = alerts[g]
         /\ alerts'[f] = alerts[f] + (IF some = {} THEN 0 ELSE 1)
    BY <1>2, <1>4, <2>2
  <2> HIDE DEF f
  <2>12. ASSUME NEW g \in Triaged
         PROVE  IF g \in attempted
                  THEN alerts[g] <= alerts'[g]
                    /\ alerts'[g] + unmarked[g] + (IF InListed(c, g) THEN 1 ELSE 0)
                         <= alerts[g] + unmarked'[g] + (IF InListed(call[h], g) THEN 1 ELSE 0)
                  ELSE alerts'[g] + unmarked[g] + (IF InMarking(call[h], g) THEN 1 ELSE 0)
                         = alerts[g] + unmarked'[g] + (IF InMarking(c, g) THEN 1 ELSE 0)
    <3>1. alerts[g] \in Nat /\ unmarked[g] \in Nat /\ unmarked'[g] = unmarked[g]
      BY <1>1, <1>2
    <3>2. CASE g = f
      BY <2>9, <2>11, <3>1, <3>2
    <3>3. CASE g # f
      BY <2>10, <2>11, <3>1, <3>3
    <3> QED BY <3>2, <3>3
  <2>13. AlertsOK'
    BY <1>1, <1>2, <2>1, <2>11, <2>12, OneAlert
  <2> QED BY <1>1, <2>7, <2>8, <2>13, MonitorStep
<1>5. \/ call[h].todo = {} /\ Proceed(h, [op |-> "conclude", marked |-> call[h].marked])
         /\ UNCHANGED <<alerts, taskVars>>
      \/ \E i \in call[h].todo : \E some \in SUBSET Announcement("finding.sla_breach", call[h].mail) :
           /\ UNCHANGED left \/ Count("fault")
           /\ Enqueue(some)
           /\ alerts' = IF some = {} THEN alerts ELSE [alerts EXCEPT ![Overdue[i]] = @ + 1]
           /\ call' = [call EXCEPT ![h] = [call[h] EXCEPT !.todo = call[h].todo \ {i},
                        !.marked = IF some = {} THEN call[h].marked ELSE call[h].marked \cup {Overdue[i]}]]
  BY Zenon DEF AlertBreach
<1> QED BY <1>3, <1>4, <1>5

LEMMA MarkKeeps ==
  ASSUME CallsOK, TasksOK, DeliveriesOK, NEW h \in Handlers, MarkSLABreachAttempted(h)
  PROVE  Moves(DeliveryOps) /\ TasksStep /\ DeliveriesOK'
<1>1. /\ call[h].op = "conclude" /\ call[h].marked \subseteq Triaged /\ Return(h)
      /\ attempted' = attempted \cup call[h].marked
      /\ UNCHANGED <<settings, webhooks, alerts, unmarked, tally, taskVars>>
  BY DEF MarkSLABreachAttempted, At, CallsOK, CallOK, DeliveryCallOK
<1>2. Moves(MonitorOps)
  BY <1>1, ReturnMoves DEF MonitorOps
<1>3. call' = [call EXCEPT ![h] = Idle]
  BY <1>1 DEF Return, Proceed
<1>4. ASSUME NEW f \in Triaged
      PROVE  IF f \in attempted'
               THEN /\ alerts'[f] > 0
                    /\ alerts'[f] + Cardinality(Listed(f)') <= unmarked'[f] + Cardinality(Handlers)
               ELSE alerts'[f] = unmarked'[f] + Cardinality(Marking(f)')
  <2>1. alerts[f] \in Nat /\ unmarked[f] \in Nat /\ alerts'[f] = alerts[f] /\ unmarked'[f] = unmarked[f]
    BY <1>1 DEF DeliveriesOK, AlertsOK
  <2>2. /\ Cardinality(Marking(f)) \in Nat /\ Cardinality(Marking(f)') \in Nat
        /\ Cardinality(Marking(f)') + (IF InMarking(call[h], f) THEN 1 ELSE 0) = Cardinality(Marking(f))
        /\ Cardinality(Listed(f)) \in Nat /\ Cardinality(Listed(f)') = Cardinality(Listed(f))
    <3>1. ~InListed(call[h], f) /\ ~InListed(Idle, f) /\ ~InMarking(Idle, f)
      BY <1>1, IdleIsOK DEF InListed, InMarking
    <3>2. /\ Cardinality(Marking(f)) \in Nat /\ Cardinality(Marking(f)') \in Nat
          /\ Cardinality(Marking(f)') + (IF InMarking(call[h], f) THEN 1 ELSE 0)
               = Cardinality(Marking(f)) + (IF InMarking(Idle, f) THEN 1 ELSE 0)
          /\ Cardinality(Listed(f)) \in Nat /\ Cardinality(Listed(f)') \in Nat
          /\ Cardinality(Listed(f)') + (IF InListed(call[h], f) THEN 1 ELSE 0)
               = Cardinality(Listed(f)) + (IF InListed(Idle, f) THEN 1 ELSE 0)
      BY <1>3, OneMonitor
    <3> QED BY <3>1, <3>2
  <2>3. CASE f \in attempted
    BY <1>1, <2>1, <2>2, <2>3 DEF DeliveriesOK, AlertsOK
  <2>4. CASE f \notin attempted /\ f \notin call[h].marked
    BY <1>1, <2>1, <2>2, <2>4 DEF DeliveriesOK, AlertsOK, InMarking
  <2>5. CASE f \notin attempted /\ f \in call[h].marked
    <3>1. f \in attempted' /\ alerts[f] = unmarked[f] + Cardinality(Marking(f))
      BY <1>1, <2>5 DEF DeliveriesOK, AlertsOK
    <3>2. InMarking(call[h], f) /\ Cardinality(Marking(f)) > 0
      BY <1>1, <2>2, <2>5 DEF InMarking
    <3>3. Marking(f) \cap Listed(f) = {}
      BY DEF Marking, Listed, At, CallsOK, CallOK, DeliveryCallOK
    <3>4. /\ IsFiniteSet(Marking(f)) /\ IsFiniteSet(Listed(f))
          /\ Marking(f) \cup Listed(f) \in SUBSET Handlers
      <4>1. Marking(f) \in SUBSET Handlers /\ Listed(f) \in SUBSET Handlers
        BY DEF Marking, Listed
      <4> QED BY <4>1, Constants, FS_Subset
    <3>5. Cardinality(Marking(f) \cup Listed(f)) = Cardinality(Marking(f)) + Cardinality(Listed(f))
      <4>1. Cardinality(Marking(f) \cup Listed(f))
              = Cardinality(Marking(f)) + Cardinality(Listed(f)) - Cardinality(Marking(f) \cap Listed(f))
        BY <3>4, FS_Union
      <4>2. Cardinality(Marking(f) \cap Listed(f)) = 0
        BY <3>3, FS_EmptySet
      <4> QED BY <2>2, <4>1, <4>2
    <3>6. Cardinality(Marking(f)) + Cardinality(Listed(f)) <= Cardinality(Handlers) /\ Cardinality(Handlers) \in Nat
      BY <3>4, <3>5, HandlersCount
    <3> QED BY <2>1, <2>2, <3>1, <3>2, <3>6
  <2> QED BY <2>3, <2>4, <2>5
<1>5. AlertsOK'
  <2>1. alerts' \in [Triaged -> Nat] /\ unmarked' \in [Triaged -> Nat]
    BY <1>1 DEF DeliveriesOK, AlertsOK
  <2> QED BY <1>4, <2>1 DEF AlertsOK
<1> QED BY <1>1, <1>2, <1>5, MonitorStep, UnchangedTasks

LEMMA SendKeeps ==
  ASSUME CallsOK, TasksOK, DeliveriesOK, NEW h \in Handlers,
         \/ \E t \in BagToSet(tasks) : HandleWebhookSend(h, t) \/ HandleEmailSend(h, t)
         \/ PostWebhook(h) \/ SendEmail(h)
  PROVE  Moves(DeliveryOps) /\ TasksStep /\ DeliveriesOK'
<1>1. ASSUME NEW t \in BagToSet(tasks), HandleWebhookSend(h, t)
      PROVE  Moves(DeliveryOps) /\ TasksStep /\ DeliveriesOK'
  BY <1>1, LeaseKeeps DEF HandleWebhookSend
<1>2. ASSUME NEW t \in BagToSet(tasks), HandleEmailSend(h, t)
      PROVE  Moves(DeliveryOps) /\ TasksStep /\ DeliveriesOK'
  BY <1>2, LeaseKeeps DEF HandleEmailSend
<1>3. CASE PostWebhook(h)
  BY <1>3, TransmitKeeps DEF PostWebhook
<1>4. CASE SendEmail(h)
  BY <1>4, TransmitKeeps DEF SendEmail
<1> QED BY <1>1, <1>2, <1>3, <1>4

LEMMA NotifyKeeps ==
  ASSUME CallsOK, TasksOK, DeliveriesOK, DeliveriesNext
  PROVE  Moves(DeliveryOps) /\ TasksStep /\ DeliveriesOK'
<1>1. CASE \E w \in Webhooks :
             \/ \E topics \in Subscriptions :
                  CreateWebhook(w, topics) \/ \E enabled \in BOOLEAN : UpdateWebhook(w, enabled, topics)
             \/ DeleteWebhook(w)
  BY <1>1, WebhooksKeep
<1>2. CASE \/ \E w \in Webhooks : TestWebhook(w)
           \/ TestNotificationEmail
           \/ \E topic \in Topics \ {"finding.sla_breach"} : EnqueueNotification(topic)
  BY <1>2, EventsKeep
<1>3. ASSUME NEW h \in Handlers,
             \/ \E edit \in SettingsEdits : UpdateNotificationSettings(h, edit)
             \/ SaveNotificationSettings(h)
      PROVE  Moves(DeliveryOps) /\ TasksStep /\ DeliveriesOK'
  BY <1>3, UpdateSettingsKeeps, SaveSettingsKeeps
<1>4. ASSUME NEW h \in Handlers,
             \/ \E t \in BagToSet(tasks) : HandleWebhookSend(h, t) \/ HandleEmailSend(h, t)
             \/ PostWebhook(h) \/ SendEmail(h)
      PROVE  Moves(DeliveryOps) /\ TasksStep /\ DeliveriesOK'
  BY <1>4, SendKeeps
<1>5. ASSUME NEW h \in Handlers,
             GetWebhook(h) \/ UpdateDeliveryStats(h) \/ LogDelivery(h) \/ Unrecorded(h) \/ FinishDelivery(h)
      PROVE  Moves(DeliveryOps) /\ TasksStep /\ DeliveriesOK'
  BY <1>5, GetWebhookKeeps, RecordedKeep, UnrecordedKeeps, FinishKeeps
<1>6. ASSUME NEW h \in Handlers,
             \/ CheckSLABreaches(h) \/ ListPendingSLABreaches(h) \/ AlertBreach(h)
             \/ MarkSLABreachAttempted(h)
      PROVE  Moves(DeliveryOps) /\ TasksStep /\ DeliveriesOK'
  BY <1>6, CheckKeeps, ListKeeps, AlertKeeps, MarkKeeps
<1> QED BY <1>1, <1>2, <1>3, <1>4, <1>5, <1>6 DEF DeliveriesNext

LEMMA CutOffDeliveries ==
  ASSUME CallsOK, DeliveriesOK, NEW h \in Handlers, CutOff(h), DeliveriesCutOff(h)
  PROVE  DeliveriesOK'
<1>1. call' = [call EXCEPT ![h] = Idle] /\ UNCHANGED <<settings, webhooks, attempted, alerts>>
  BY DEF CutOff, DeliveriesCutOff
<1>2. TallyOK'
  <2>1. CASE call[h].op \in {"count", "log"}
    <3> DEFINE what == IF call[h].op = "count" THEN {"count", "log"} ELSE {"log"}
    <3>1. tally' = Missing(h, what)
      BY <2>1 DEF DeliveriesCutOff, At
    <3>2. /\ "count" \in what <=> call[h].op = "count"
          /\ "log" \in what <=> Idle.op # "log"
      BY <2>1, IdleIsOK
    <3>3. Idle.op # "count" /\ Idle.op \notin PostedOps
      BY IdleIsOK DEF PostedOps
    <3> HIDE DEF what
    <3> QED BY <1>1, <2>1, <3>1, <3>2, <3>3, MissingTally
  <2>2. CASE call[h].op = "sent"
    <3>1. UNCHANGED tally
      BY <2>2 DEF DeliveriesCutOff, At
    <3> QED BY <1>1, <2>2, <3>1, FinishTally
  <2>3. CASE call[h].op \notin PostedOps
    <3>1. UNCHANGED tally
      BY <2>3 DEF DeliveriesCutOff, At, PostedOps
    <3>2. Moves({"idle", call[h].op})
      BY IdleIsOK, FaultMoves DEF CutOff
    <3>3. {"idle", call[h].op} \cap PostedOps = {}
      BY <2>3 DEF PostedOps
    <3> QED BY <1>1, <3>1, <3>2, <3>3, OtherTally DEF DeliveriesOK
  <2> QED BY <2>1, <2>2, <2>3 DEF PostedOps
<1>3. AlertsOK'
  <2>1. AlertsOK /\ alerts \in [Triaged -> Nat] /\ unmarked \in [Triaged -> Nat]
    BY DEF DeliveriesOK, AlertsOK
  <2>2. unmarked' = [f \in Triaged |-> IF InMarking(call[h], f) THEN unmarked[f] + 1 ELSE unmarked[f]]
    BY DEF DeliveriesCutOff, InMarking, Alerting
  <2>3. \A f \in Triaged : ~InMarking(Idle, f) /\ ~InListed(Idle, f)
    BY IdleIsOK DEF InMarking, InListed
  <2>4. unmarked' \in [Triaged -> Nat]
    BY <2>1, <2>2
  <2>5. ASSUME NEW f \in Triaged
        PROVE  IF f \in attempted
                 THEN alerts[f] <= alerts'[f]
                   /\ alerts'[f] + unmarked[f] + (IF InListed(Idle, f) THEN 1 ELSE 0)
                        <= alerts[f] + unmarked'[f] + (IF InListed(call[h], f) THEN 1 ELSE 0)
                 ELSE alerts'[f] + unmarked[f] + (IF InMarking(call[h], f) THEN 1 ELSE 0)
                        = alerts[f] + unmarked'[f] + (IF InMarking(Idle, f) THEN 1 ELSE 0)
    <3>1. /\ alerts[f] \in Nat /\ unmarked[f] \in Nat /\ alerts'[f] = alerts[f]
          /\ unmarked'[f] = unmarked[f] + (IF InMarking(call[h], f) THEN 1 ELSE 0)
      BY <1>1, <2>1, <2>2
    <3> QED BY <2>3, <3>1
  <2> QED BY <1>1, <2>1, <2>4, <2>5, OneAlert
<1> QED BY <1>1, <1>2, <1>3 DEF DeliveriesOK, SettingsOK, TimeOK

LEMMA DeliveryProperties ==
  ASSUME DeliveriesOK
  PROVE  DeliveriesAreAccounted /\ AlertsAreBounded
<1>1. DeliveriesAreAccounted
  <2>1. ASSUME NEW d \in Destinations
        PROVE  tally[d].acknowledged <= tally[d].received
    <3>1. Answered(d) \in SUBSET Handlers
      BY DEF Answered
    <3>2. Cardinality(Answered(d)) \in Nat /\ tally[d] \in Tally
          /\ tally[d].acknowledged + Cardinality(Answered(d)) <= tally[d].received
      BY <3>1, HandlersCount DEF DeliveriesOK, TallyOK
    <3> QED BY <3>2 DEF Tally
  <2>2. ASSUME NEW w \in DOMAIN webhooks
        PROVE  /\ tally[w].posted = webhooks[w].count + tally[w].uncounted
                    + Cardinality({h \in Handlers : call[h].op \in {"count"} /\ call[h].task.about = w})
               /\ tally[w].posted = webhooks[w].logged + tally[w].unlogged
                    + Cardinality({h \in Handlers : call[h].op \in {"count", "log"} /\ call[h].task.about = w})
    BY DEF DeliveriesOK, TallyOK, Between
  <2> QED BY <2>1, <2>2 DEF DeliveriesAreAccounted
<1>2. ASSUME NEW f \in Triaged
      PROVE  /\ f \in attempted => alerts[f] > 0
             /\ alerts[f] <= Cardinality(Handlers) + unmarked[f]
  <2>1. Marking(f) \in SUBSET Handlers /\ Listed(f) \in SUBSET Handlers
    BY DEF Marking, Listed
  <2>2. /\ Cardinality(Marking(f)) \in Nat /\ Cardinality(Listed(f)) \in Nat
        /\ Cardinality(Marking(f)) <= Cardinality(Handlers) /\ Cardinality(Handlers) \in Nat
        /\ alerts[f] \in Nat /\ unmarked[f] \in Nat
    BY <2>1, HandlersCount DEF DeliveriesOK, AlertsOK
  <2>3. CASE f \in attempted
    BY <2>2, <2>3 DEF DeliveriesOK, AlertsOK
  <2>4. CASE f \notin attempted
    BY <2>2, <2>4 DEF DeliveriesOK, AlertsOK
  <2> QED BY <2>3, <2>4
<1>3. AlertsAreBounded
  BY <1>2 DEF AlertsAreBounded
<1> QED BY <1>1, <1>3

-----------------------------------------------------------------------------
(* Reports: the calendar.                                                  *)

\* Of a positive divisor.
LEMMA Division ==
  ASSUME NEW d \in Nat \ {0}, NEW t \in Nat
  PROVE  /\ t \div d \in Nat /\ t % d \in 0..d - 1 /\ t = d * (t \div d) + (t % d)
OBVIOUS

LEMMA Monotone ==
  ASSUME NEW d \in Nat, NEW a \in Nat, NEW b \in Nat, a <= b
  PROVE  a * d \in Nat /\ b * d \in Nat /\ a * d <= b * d
<1>1. PICK c \in Nat : b = a + c
  <2>1. b - a \in Nat /\ b = a + (b - a)
    OBVIOUS
  <2> QED BY <2>1
<1>2. (a + c) * d = a * d + c * d /\ c * d \in Nat /\ a * d \in Nat
  OBVIOUS
<1> QED BY <1>1, <1>2

LEMMA Quotient ==
  ASSUME NEW d \in Nat \ {0}, NEW q \in Nat, NEW r \in 0..d - 1
  PROVE  (q * d + r) \div d = q
<1> DEFINE t == q * d + r
           p == t \div d
<1>0. t \in Nat
  <2>1. q * d \in Nat
    OBVIOUS
  <2> QED BY <2>1
<1>1. p \in Nat /\ t % d \in 0..d - 1 /\ t = d * p + (t % d)
  BY <1>0, Division
<1> HIDE DEF p
<1>2. p * d + (t % d) = q * d + r
  BY <1>1
<1>3. CASE p < q
  <2>1. (p + 1) * d <= q * d /\ (p + 1) * d = p * d + d
    BY <1>1, <1>3, Monotone
  <2>2. p * d \in Nat /\ q * d \in Nat
    BY <1>1
  <2> QED BY <1>1, <1>2, <2>1, <2>2
<1>4. CASE q < p
  <2>1. (q + 1) * d <= p * d /\ (q + 1) * d = q * d + d
    BY <1>1, <1>4, Monotone
  <2>2. p * d \in Nat /\ q * d \in Nat
    BY <1>1
  <2> QED BY <1>1, <1>2, <2>1, <2>2
<1> QED BY <1>1, <1>3, <1>4 DEF p

LEMMA DayIs ==
  /\ Day \in Nat \ {0} /\ DigestHour \in Nat
  /\ DigestHour * MinutesPerHour \in 0..Day - 1
<1>1. PICK n \in Nat, m \in Nat : n = HoursPerDay /\ m = MinutesPerHour /\ n # 0 /\ m # 0
  BY Constants
<1>2. PICK k \in Nat : k = DigestHour /\ k + 1 <= n
  BY <1>1, Constants
<1>3. (k + 1) * m <= n * m /\ (k + 1) * m = k * m + m /\ k * m \in Nat /\ n * m \in Nat
  BY <1>1, <1>2, Monotone
<1> QED BY <1>1, <1>2, <1>3 DEF Day

\* The day of an instant and what has passed of it.
LEMMA DayOf ==
  ASSUME NEW t \in Nat
  PROVE  \E d \in Nat, q \in Nat, m \in Nat :
           d = Day /\ q = t \div Day /\ m = t % Day /\ m < d /\ t = d * q + m
<1>1. PICK d \in Nat \ {0} : d = Day
  BY DayIs
<1>2. t \div d \in Nat /\ t % d \in 0..d - 1 /\ t = d * (t \div d) + (t % d)
  BY Division
<1>3. t % d \in Nat /\ t % d < d
  BY <1>2
<1> QED BY <1>1, <1>2, <1>3, Zenon

LEMMA DigestOfDay ==
  ASSUME NEW day \in Nat
  PROVE  DigestOf(day) \in Nat /\ DigestOf(day) \div Day = day
<1>1. day * Day \in Nat
  BY DayIs
<1> QED BY <1>1, DayIs, Quotient DEF DigestOf

\* Digests come in the order of their days.
LEMMA DigestOrder ==
  ASSUME NEW a \in Nat, NEW t \in Nat
  PROVE  /\ a < t \div Day => DigestOf(a) < t
         /\ t \div Day < a => t < DigestOf(a)
<1>0. PICK d \in Nat, q \in Nat, m \in Nat : d = Day /\ q = t \div Day /\ m < d /\ t = d * q + m
  BY DayOf
<1>1. PICK r \in Nat : r = DigestHour * MinutesPerHour /\ r < d
  BY <1>0, DayIs
<1>2. d * q = q * d /\ q * d \in Nat /\ a * d \in Nat /\ DigestOf(a) = a * d + r
  BY <1>0, <1>1 DEF DigestOf
<1>3. CASE a < q
  <2>1. (a + 1) * d <= q * d /\ (a + 1) * d = a * d + d
    BY <1>0, <1>1, <1>3, Monotone
  <2> QED BY <1>0, <1>1, <1>2, <1>3, <2>1
<1>4. CASE q < a
  <2>1. (q + 1) * d <= a * d /\ (q + 1) * d = q * d + d
    BY <1>0, <1>1, <1>4, Monotone
  <2> QED BY <1>0, <1>1, <1>2, <1>4, <2>1
<1> QED BY <1>0, <1>1, <1>3, <1>4

LEMMA DigestsGrow ==
  ASSUME NEW a \in Nat, NEW b \in Nat, DigestOf(a) < DigestOf(b)
  PROVE  a < b
<1>1. CASE b <= a
  <2>1. b * Day <= a * Day /\ a * Day \in Nat /\ b * Day \in Nat
    BY <1>1, DayIs, Monotone
  <2>2. DigestHour * MinutesPerHour \in Nat
    BY DayIs
  <2> QED BY <2>1, <2>2 DEF DigestOf
<1> QED BY <1>1

\* Whole days later.
LEMMA DaysLater ==
  ASSUME NEW t \in Nat, NEW k \in Nat
  PROVE  t + Day * k \in Nat /\ (t + Day * k) \div Day = t \div Day + k
<1>1. PICK d \in Nat, q \in Nat, m \in Nat : d = Day /\ q = t \div Day /\ m = t % Day /\ m < d /\ t = d * q + m
  BY DayOf
<1>2. t + d * k = (q + k) * d + m /\ q + k \in Nat /\ d * k \in Nat
  BY <1>1
<1>3. ((q + k) * d + m) \div d = q + k
  <2>1. d \in Nat \ {0} /\ m \in 0..d - 1
    BY <1>1
  <2> QED BY <1>2, <2>1, Quotient
<1> QED BY <1>1, <1>2, <1>3

LEMMA OnDayIs ==
  ASSUME NEW t \in Nat, NEW at, TimeOK(at)
  PROVE  OnDay(t, at) \in Nat /\ (t \div Day) * Day <= OnDay(t, at)
<1>1. PICK h \in Nat, m \in Nat, n \in Nat, q \in Nat, d \in Nat :
        h = at.hour /\ m = at.minute /\ n = MinutesPerHour /\ q = t \div Day /\ d = Day
  BY Constants, DayOf DEF TimeOK
<1>2. h * n \in Nat /\ q * d \in Nat
  OBVIOUS
<1>3. OnDay(t, at) = q * d + h * n + m
  BY <1>1 DEF OnDay
<1> QED BY <1>1, <1>2, <1>3

\* Any instant of a later day is later.
LEMMA LaterDay ==
  ASSUME NEW t \in Nat, NEW k \in Nat \ {0}, NEW at, TimeOK(at)
  PROVE  OnDay(t + Day * k, at) \in Nat /\ OnDay(t + Day * k, at) > t
<1>1. PICK d \in Nat, q \in Nat, m \in Nat : d = Day /\ q = t \div Day /\ m = t % Day /\ m < d /\ t = d * q + m
  BY DayOf
<1>2. t + Day * k \in Nat /\ (t + Day * k) \div Day = q + k
  BY <1>1, DaysLater
<1>3. OnDay(t + Day * k, at) \in Nat /\ (q + k) * d <= OnDay(t + Day * k, at)
  BY <1>1, <1>2, OnDayIs
<1>4. (q + 1) * d <= (q + k) * d /\ (q + 1) * d = q * d + d /\ (q + k) * d \in Nat
  BY <1>1, Monotone
<1>5. q * d \in Nat /\ d * q = q * d
  BY <1>1
<1> QED BY <1>1, <1>3, <1>4, <1>5

\* Days until the next Monday.
ToMonday(t) == IF Weekday(t) = 1 THEN 7 ELSE (8 - Weekday(t)) % 7

LEMMA ToMondayIs ==
  ASSUME NEW t \in Nat
  PROVE  /\ ToMonday(t) \in 1..7 /\ (t \div Day + ToMonday(t)) % 7 = 1
         /\ NextMonday(t) = t + Day * ToMonday(t)
         /\ \A day \in Nat : t \div Day < day /\ day < t \div Day + ToMonday(t) => day % 7 # 1
<1>1. PICK q \in Nat, n \in 0..6 : q = t \div Day /\ n = q % 7
  BY DayOf
<1>2. ToMonday(t) = IF n = 1 THEN 7 ELSE (8 - n) % 7
  BY <1>1 DEF ToMonday, Weekday
<1>3. ToMonday(t) = CASE n = 0 -> 1 [] n = 1 -> 7 [] n = 2 -> 6 [] n = 3 -> 5 [] n = 4 -> 4 [] n = 5 -> 3 [] n = 6 -> 2
  BY <1>2
<1>4. ToMonday(t) \in 1..7
  BY <1>3
<1>5. (q + ToMonday(t)) % 7 = 1
  BY <1>1, <1>3
<1>6. \A day \in Nat : q < day /\ day < q + ToMonday(t) => day % 7 # 1
  BY <1>1, <1>3
<1> QED BY <1>1, <1>4, <1>5, <1>6 DEF NextMonday, ToMonday

LEMMA NextMondayIs ==
  ASSUME NEW t \in Nat
  PROVE  /\ nextMonday9am(t) = DigestOf(t \div Day + ToMonday(t))
         /\ nextMonday9am(t) \in Nat /\ t < nextMonday9am(t)
         /\ MondaysDigest(nextMonday9am(t))
         /\ \A day \in Nat : day % 7 = 1 /\ DigestOf(day) < nextMonday9am(t) => day <= t \div Day
<1>1. PICK q \in Nat, k \in Nat : q = t \div Day /\ k = ToMonday(t) /\ k # 0 /\ (q + k) % 7 = 1
  <2>1. PICK q \in Nat : q = t \div Day
    BY DayOf
  <2>2. PICK k \in 1..7 : k = ToMonday(t) /\ (q + k) % 7 = 1
    BY <2>1, ToMondayIs
  <2>3. k \in Nat /\ k # 0
    OBVIOUS
  <2> QED BY <2>1, <2>2, <2>3
<1>2. nextMonday9am(t) = DigestOf(q + k)
  <2>1. NextMonday(t) \div Day = q + k
    BY <1>1, ToMondayIs, DaysLater
  <2>2. DigestHour * MinutesPerHour \in Nat
    BY DayIs
  <2>3. (q + k) * Day \in Nat
    <3>1. PICK d \in Nat, s \in Nat : d = Day /\ s = q + k
      BY <1>1, DayIs
    <3>2. s * d \in Nat
      OBVIOUS
    <3> QED BY <3>1, <3>2
  <2> QED BY <2>1, <2>2, <2>3 DEF nextMonday9am, OnDay, DigestOf
<1>3. DigestOf(q + k) \in Nat /\ t < DigestOf(q + k)
  BY <1>1, DigestOrder, DigestOfDay
<1>4. MondaysDigest(nextMonday9am(t))
  BY <1>1, <1>2 DEF MondaysDigest
<1>5. ASSUME NEW day \in Nat, day % 7 = 1, DigestOf(day) < DigestOf(q + k)
      PROVE  day <= q
  <2>1. day < q + k
    BY <1>1, <1>5, DigestsGrow
  <2> QED BY <1>1, <1>5, <2>1, ToMondayIs
<1> QED BY <1>1, <1>2, <1>3, <1>4, <1>5

\* A report is planned for later.
LEMMA NextReportIsLater ==
  ASSUME NEW t \in Nat, NEW schedule, NEW at, TimeOK(at)
  PROVE  nextReportTime(t, schedule, at) \in Nat /\ t < nextReportTime(t, schedule, at)
<1>1. CASE schedule = "daily"
  <2>1. OnDay(t, at) \in Nat
    BY OnDayIs
  <2>2. OnDay(t + Day, at) \in Nat /\ OnDay(t + Day, at) > t
    <3>1. t + Day * 1 = t + Day
      BY DayIs
    <3> QED BY <3>1, LaterDay
  <2> QED BY <1>1, <2>1, <2>2 DEF nextReportTime
<1>2. CASE schedule = "weekly"
  <2>1. OnDay(NextMonday(t), at) \in Nat /\ OnDay(NextMonday(t), at) > t
    <3>1. ToMonday(t) \in Nat \ {0} /\ NextMonday(t) = t + Day * ToMonday(t)
      BY ToMondayIs
    <3> QED BY <3>1, LaterDay
  <2>2. ASSUME HourOf(t) < at.hour
        PROVE  OnDay(t, at) \in Nat /\ OnDay(t, at) > t
    <3>0. PICK d \in Nat, q \in Nat, m \in Nat : d = Day /\ q = t \div Day /\ m = t % Day /\ t = d * q + m
      BY DayOf
    <3>1. PICK n \in Nat \ {0}, h \in Nat, s \in Nat : n = MinutesPerHour /\ h = at.hour /\ s = at.minute
      BY Constants DEF TimeOK
    <3>1a. PICK p \in Nat, r \in Nat : p = m \div n /\ m = n * p + r /\ r < n
      <4>1. m \div n \in Nat /\ m % n \in 0..n - 1 /\ m = n * (m \div n) + (m % n)
        BY Division
      <4>2. m % n \in Nat /\ m % n < n
        BY <4>1
      <4> QED BY <4>1, <4>2, Zenon
    <3>2. p + 1 <= h
      <4>1. HourOf(t) = p
        BY <3>0, <3>1, <3>1a DEF HourOf
      <4>2. p < h
        BY <2>2, <3>1, <4>1
      <4> QED BY <4>2
    <3>3. (p + 1) * n <= h * n /\ (p + 1) * n = p * n + n /\ h * n \in Nat /\ p * n \in Nat
      BY <3>2, Monotone
    <3>4. OnDay(t, at) = q * d + h * n + s
      BY <3>0, <3>1 DEF OnDay
    <3>5. q * d \in Nat /\ d * q = q * d /\ n * p = p * n
      OBVIOUS
    <3>6. PICK a \in Nat, b \in Nat, c \in Nat : a = q * d /\ b = h * n /\ c = p * n
      BY <3>3, <3>5
    <3>7. t = a + m /\ m = c + r /\ c + n <= b /\ OnDay(t, at) = a + b + s
      BY <3>0, <3>1a, <3>3, <3>4, <3>5, <3>6
    <3>8. r < n /\ n \in Nat
      BY <3>1a
    <3>9. c + r < b
      BY <3>7, <3>8
    <3>10. a + b + s \in Nat /\ t < a + b + s
      BY <3>7, <3>9
    <3> QED BY <3>7, <3>10
  <2> QED BY <1>2, <2>1, <2>2 DEF nextReportTime
<1>3. CASE schedule \notin {"daily", "weekly"}
  BY <1>3, Constants DEF nextReportTime
<1> QED BY <1>1, <1>2, <1>3

-----------------------------------------------------------------------------
(* Reports: what the loops plan.                                           *)

\* A step that leaves the calls and the deliveries alone.
LEMMA LoopStep ==
  ASSUME CallsOK, TasksOK, DeliveriesOK, UNCHANGED call, UNCHANGED deliveryVars,
         UNCHANGED left \/ \E kind \in {"fault", "restart", "clock"} : Count(kind),
         \/ UNCHANGED taskVars
         \/ \E new : (\A t \in new : TaskOK(t)) /\ Enqueue(new)
  PROVE  Moves(DeliveryOps) /\ TasksStep /\ DeliveriesOK'
<1>1. Moves({"idle"}) /\ Moves(DeliveryOps)
  <2>1. CASE UNCHANGED left
    BY <2>1, StillMoves DEF requestVars
  <2>2. ASSUME NEW kind, Count(kind)
        PROVE  Moves({"idle"}) /\ Moves(DeliveryOps)
    BY <2>2, AtOnceMoves
  <2> QED BY <2>1, <2>2
<1>2. {"idle"} \cap (PostedOps \cup {"alert", "conclude"}) = {}
  BY DEF PostedOps
<1>3. DeliveriesOK'
  BY <1>1, <1>2, OtherDeliveries DEF deliveryVars
<1>4. TasksStep
  BY UnchangedTasks, EnqueuedTasks
<1> QED BY <1>1, <1>3, <1>4

LEMMA OtherReports ==
  ASSUME ReportsOK, UNCHANGED reportVars
  PROVE  ReportsOK'
<1>1. UNCHANGED <<now, alarm, since, fired>>
  BY DEF reportVars
<1>2. AlarmsOK'
  BY <1>1 DEF ReportsOK, AlarmsOK
<1>3. \A w \in Schedulers : DigestOK(w) => DigestOK(w)'
  BY <1>1 DEF DigestOK, DigestsUntil
<1> QED BY <1>1, <1>2, <1>3 DEF ReportsOK

\* A planned loop sleeps until later.
Later(a, t) == a \in [until : Nat, enqueues : BOOLEAN] /\ a # Planning /\ t < a.until

LEMMA SleepIsLater ==
  ASSUME NEW t \in Nat, NEW until \in Nat, NEW enqueues \in BOOLEAN, t < until
  PROVE  /\ Later(Sleep(until, enqueues), t) /\ Sleep(until, enqueues).until = until
         /\ Sleep(until, enqueues).enqueues = enqueues
<1>1. until # 0
  OBVIOUS
<1> QED BY <1>1 DEF Later, Sleep, Planning

LEMMA ReportPlanIsLater ==
  ASSUME NEW t \in Nat, NEW s, SettingsOK(s)
  PROVE  Later(ReportPlan(t, s), t)
<1>1. TimeOK(s.time)
  BY DEF SettingsOK
<1>2. t + Pause \in Nat /\ t < t + Pause
  BY Constants
<1>3. nextReportTime(t, s.schedule, s.time) \in Nat /\ t < nextReportTime(t, s.schedule, s.time)
  BY <1>1, NextReportIsLater
<1> QED BY <1>2, <1>3, SleepIsLater DEF ReportPlan

LEMMA DigestPlanIsLater ==
  ASSUME NEW t \in Nat
  PROVE  Later(DigestPlan(t), t) /\ DigestPlan(t).until = nextMonday9am(t) /\ DigestPlan(t).enqueues
BY NextMondayIs, SleepIsLater DEF DigestPlan

LEMMA PlannedAlarms ==
  ASSUME ReportsOK, NEW l \in Loops, NEW a, Later(a, now), alarm' = [alarm EXCEPT ![l] = a],
         UNCHANGED <<now, since, fired>>
  PROVE  /\ AlarmsOK'
         /\ \A w \in Schedulers : since'[w] <= now' /\ (l # <<w, "digest">> => DigestOK(w)')
<1>1. DOMAIN alarm = Loops /\ alarm'[l] = a /\ \A k \in Loops \ {l} : alarm'[k] = alarm[k]
  BY DEF ReportsOK, AlarmsOK
<1>2. alarm' \in [Loops -> [until : Nat, enqueues : BOOLEAN]]
  BY DEF ReportsOK, AlarmsOK, Later
<1>3. now \in Nat /\ a.until \in Nat /\ now < a.until
  BY DEF Later, ReportsOK, AlarmsOK
<1>4. ASSUME NEW k \in Loops, alarm'[k] # Planning
      PROVE  now' <= alarm'[k].until
  BY <1>1, <1>3, <1>4 DEF ReportsOK, AlarmsOK
<1>5. ASSUME NEW x \in DOMAIN fired'
      PROVE  /\ x \in Schedulers \X {"report", "digest"} \X Nat /\ fired'[x] = 1 /\ x[3] <= now'
             /\ alarm'[<<x[1], x[2]>>].enqueues => x[3] < alarm'[<<x[1], x[2]>>].until
  <2>1. /\ x \in Schedulers \X {"report", "digest"} \X Nat /\ fired'[x] = 1 /\ x[3] <= now
        /\ alarm[<<x[1], x[2]>>].enqueues => x[3] < alarm[<<x[1], x[2]>>].until
    BY <1>5 DEF ReportsOK, AlarmsOK
  <2>2. <<x[1], x[2]>> \in Loops /\ x[3] \in Nat
    BY <2>1 DEF Loops
  <2>3. CASE <<x[1], x[2]>> = l
    BY <1>1, <1>3, <2>1, <2>2, <2>3
  <2>4. CASE <<x[1], x[2]>> # l
    BY <1>1, <2>1, <2>2, <2>4
  <2> QED BY <2>3, <2>4
<1>6. AlarmsOK'
  <2>1. now' \in Nat /\ since' \in [Schedulers -> Nat]
    BY DEF ReportsOK, AlarmsOK
  <2> QED BY <1>2, <1>4, <1>5, <2>1 DEF AlarmsOK
<1>7. ASSUME NEW w \in Schedulers
      PROVE  since'[w] <= now' /\ (l # <<w, "digest">> => DigestOK(w)')
  <2>1. <<w, "digest">> \in Loops
    BY DEF Loops
  <2>2. since[w] <= now /\ DigestOK(w)
    BY DEF ReportsOK
  <2>3. l # <<w, "digest">> => alarm'[<<w, "digest">>] = alarm[<<w, "digest">>]
    BY <1>1, <2>1
  <2> QED BY <2>2, <2>3 DEF DigestOK, DigestsUntil
<1> QED BY <1>6, <1>7

LEMMA PlanReportKeeps ==
  ASSUME CallsOK, TasksOK, DeliveriesOK, ReportsOK, NEW w \in Schedulers, PlanReport(w)
  PROVE  Moves(DeliveryOps) /\ TasksStep /\ DeliveriesOK' /\ ReportsOK'
<1>1. Moves(DeliveryOps) /\ TasksStep /\ DeliveriesOK'
  BY LoopStep DEF PlanReport
<1>2. <<w, "report">> \in Loops /\ \A v : <<w, "report">> # <<v, "digest">>
  BY DEF Loops
<1>3. \E a : Later(a, now) /\ alarm' = [alarm EXCEPT ![<<w, "report">>] = a]
  <2>1. now \in Nat /\ SettingsOK(settings)
    BY DEF ReportsOK, AlarmsOK, DeliveriesOK
  <2>2. Later(ReportPlan(now, settings), now)
    BY <2>1, ReportPlanIsLater
  <2>3. Later(Sleep(now + Pause, FALSE), now)
    <3>1. now + Pause \in Nat /\ now < now + Pause
      BY <2>1, Constants
    <3> QED BY <2>1, <3>1, SleepIsLater
  <2> QED BY <2>2, <2>3 DEF PlanReport
<1>4. AlarmsOK' /\ \A v \in Schedulers : since'[v] <= now' /\ DigestOK(v)'
  BY <1>2, <1>3, PlannedAlarms DEF PlanReport
<1> QED BY <1>1, <1>4 DEF ReportsOK

\* The Monday the digest loop sleeps until is the first it has not had.
LEMMA PlannedDigest ==
  ASSUME ReportsOK, NEW w \in Schedulers, alarm[<<w, "digest">>] = Planning
  PROVE  DigestsUntil(w, nextMonday9am(now)) /\ MondaysDigest(nextMonday9am(now))
<1>1. PICK t \in Nat, s \in Nat : t = now /\ s = since[w] /\ s <= t
  BY DEF ReportsOK, AlarmsOK
<1>2. DigestsUntil(w, now + 1) /\ (s = t \/ MondaysDigest(t))
  BY <1>1 DEF ReportsOK, DigestOK
<1>3. ASSUME NEW day \in Nat, day % 7 = 1, since[w] \div Day < day, DigestOf(day) < nextMonday9am(now)
      PROVE  <<w, "digest", DigestOf(day)>> \in DOMAIN fired
  <2>1. PICK q \in Nat : q = t \div Day
    BY DayOf
  <2>2. PICK p \in Nat : p = s \div Day
    BY DayOf
  <2>3. day <= q /\ p < day
    BY <1>1, <1>3, <2>1, <2>2, NextMondayIs
  <2>4. PICK d \in Nat : d = DigestOf(day)
    BY DigestOfDay
  <2>5. d <= t
    <3>1. CASE day < q
      BY <1>1, <2>1, <2>4, <3>1, DigestOrder
    <3>2. CASE day = q
      <4>1. s # t
        BY <2>1, <2>2, <2>3, <3>2
      <4>2. PICK e \in Nat : e % 7 = 1 /\ t = DigestOf(e)
        BY <1>2, <4>1 DEF MondaysDigest
      <4>3. e = q
        BY <2>1, <4>2, DigestOfDay
      <4> QED BY <2>4, <3>2, <4>2, <4>3
    <3> QED BY <2>3, <3>1, <3>2
  <2>6. d < t + 1
    BY <2>5
  <2> QED BY <1>1, <1>2, <1>3, <2>4, <2>6 DEF DigestsUntil
<1> QED BY <1>1, <1>3, NextMondayIs DEF DigestsUntil

LEMMA PlanDigestKeeps ==
  ASSUME CallsOK, TasksOK, DeliveriesOK, ReportsOK, NEW w \in Schedulers, PlanDigest(w)
  PROVE  Moves(DeliveryOps) /\ TasksStep /\ DeliveriesOK' /\ ReportsOK'
<1>1. Moves(DeliveryOps) /\ TasksStep /\ DeliveriesOK'
  BY LoopStep DEF PlanDigest, requestVars
<1>2. PICK l, a : l = <<w, "digest">> /\ a = DigestPlan(now)
  OBVIOUS
<1>3. l \in Loops /\ now \in Nat /\ DOMAIN alarm = Loops /\ alarm[l] = Planning
  BY <1>2 DEF Loops, ReportsOK, AlarmsOK, PlanDigest
<1>4. Later(a, now) /\ a.until = nextMonday9am(now) /\ a.enqueues
  BY <1>2, <1>3, DigestPlanIsLater
<1>5. alarm' = [alarm EXCEPT ![l] = a] /\ UNCHANGED <<now, since, fired>>
  BY <1>2 DEF PlanDigest
<1>6. AlarmsOK' /\ \A v \in Schedulers : since'[v] <= now' /\ (l # <<v, "digest">> => DigestOK(v)')
  BY <1>3, <1>4, <1>5, PlannedAlarms
<1>7. DigestOK(w)'
  <2>1. DigestsUntil(w, a.until) /\ MondaysDigest(a.until)
    BY <1>2, <1>3, <1>4, PlannedDigest
  <2>2. alarm'[<<w, "digest">>] = a /\ a # Planning
    BY <1>2, <1>3, <1>4, <1>5 DEF Later
  <2> QED BY <1>4, <1>5, <2>1, <2>2 DEF DigestOK, DigestsUntil
<1>8. \A v \in Schedulers : DigestOK(v)'
  <2> TAKE v \in Schedulers
  <2>1. CASE v = w
    BY <1>7, <2>1
  <2>2. CASE v # w
    BY <1>2, <1>6, <2>2
  <2> QED BY <2>1, <2>2
<1> QED BY <1>1, <1>6, <1>8 DEF ReportsOK

-----------------------------------------------------------------------------
(* Reports: restarts and time.                                             *)

LEMMA RestartKeeps ==
  ASSUME CallsOK, TasksOK, DeliveriesOK, ReportsOK, NEW w \in Schedulers, RestartScheduler(w)
  PROVE  Moves(DeliveryOps) /\ TasksStep /\ DeliveriesOK' /\ ReportsOK'
<1>1. Moves(DeliveryOps) /\ TasksStep /\ DeliveriesOK'
  BY LoopStep DEF RestartScheduler
<1>2. /\ now \in Nat /\ since \in [Schedulers -> Nat] /\ alarm \in [Loops -> [until : Nat, enqueues : BOOLEAN]]
      /\ alarm' = [l \in Loops |-> IF l[1] = w THEN Planning ELSE alarm[l]]
      /\ since' = [since EXCEPT ![w] = now] /\ UNCHANGED <<now, fired>>
  BY DEF RestartScheduler, ReportsOK, AlarmsOK
<1>3. Planning \in [until : Nat, enqueues : BOOLEAN] /\ Planning.enqueues = FALSE
  BY DEF Planning
<1>4. AlarmsOK'
  <2>1. alarm' \in [Loops -> [until : Nat, enqueues : BOOLEAN]]
    BY <1>2, <1>3
  <2>2. since' \in [Schedulers -> Nat] /\ now' \in Nat
    BY <1>2
  <2>3. ASSUME NEW l \in Loops, alarm'[l] # Planning
        PROVE  now' <= alarm'[l].until
    BY <1>2, <2>3 DEF ReportsOK, AlarmsOK
  <2>4. ASSUME NEW x \in DOMAIN fired'
        PROVE  /\ x \in Schedulers \X {"report", "digest"} \X Nat /\ fired'[x] = 1 /\ x[3] <= now'
               /\ alarm'[<<x[1], x[2]>>].enqueues => x[3] < alarm'[<<x[1], x[2]>>].until
    <3>1. /\ x \in Schedulers \X {"report", "digest"} \X Nat /\ fired'[x] = 1 /\ x[3] <= now'
          /\ alarm[<<x[1], x[2]>>].enqueues => x[3] < alarm[<<x[1], x[2]>>].until
      BY <1>2, <2>4 DEF ReportsOK, AlarmsOK
    <3>2. <<x[1], x[2]>> \in Loops
      BY <3>1 DEF Loops
    <3>3. alarm'[<<x[1], x[2]>>] \in {Planning, alarm[<<x[1], x[2]>>]}
      BY <1>2, <3>2
    <3> QED BY <1>3, <3>1, <3>3
  <2> QED BY <2>1, <2>2, <2>3, <2>4 DEF AlarmsOK
<1>5. ASSUME NEW v \in Schedulers
      PROVE  since'[v] <= now' /\ DigestOK(v)'
  <2>1. <<v, "digest">> \in Loops
    BY DEF Loops
  <2>2. since[v] <= now /\ DigestOK(v)
    BY DEF ReportsOK
  <2>3. CASE v = w
    <3>1. PICK t \in Nat : t = now
      BY <1>2
    <3>2. since'[v] = now /\ alarm'[<<v, "digest">>] = Planning
      BY <1>2, <2>1, <2>3
    <3>3. ASSUME NEW day \in Nat, t \div Day < day
          PROVE  ~(DigestOf(day) < t + 1)
      <4>1. t < DigestOf(day) /\ DigestOf(day) \in Nat
        BY <3>3, DigestOrder, DigestOfDay
      <4> QED BY <4>1
    <3>4. DigestsUntil(v, now + 1)'
      BY <1>2, <3>1, <3>2, <3>3 DEF DigestsUntil
    <3>5. since'[v] <= now' /\ since'[v] = now'
      BY <1>2, <3>2
    <3> QED BY <3>2, <3>4, <3>5 DEF DigestOK
  <2>4. CASE v # w
    <3>1. since'[v] = since[v] /\ alarm'[<<v, "digest">>] = alarm[<<v, "digest">>]
      BY <1>2, <2>1, <2>4
    <3> QED BY <1>2, <2>2, <3>1 DEF DigestOK, DigestsUntil
  <2> QED BY <2>3, <2>4
<1> QED BY <1>1, <1>4, <1>5 DEF ReportsOK

LEMMA TickKeeps ==
  ASSUME CallsOK, TasksOK, DeliveriesOK, ReportsOK, Tick
  PROVE  Moves(DeliveryOps) /\ TasksStep /\ DeliveriesOK' /\ ReportsOK'
<1>1. Moves(DeliveryOps) /\ TasksStep /\ DeliveriesOK'
  BY LoopStep DEF Tick
<1>2. /\ now \in Nat /\ now' = now + 1 /\ since \in [Schedulers -> Nat]
      /\ alarm \in [Loops -> [until : Nat, enqueues : BOOLEAN]]
      /\ UNCHANGED <<alarm, since, fired>>
      /\ \A l \in Loops : alarm[l] # Planning /\ alarm[l].until > now
  BY DEF Tick, ReportsOK, AlarmsOK
<1>3. AlarmsOK'
  <2>1. now' \in Nat
    BY <1>2
  <2>2. ASSUME NEW l \in Loops
        PROVE  now' <= alarm'[l].until
    BY <1>2
  <2>3. ASSUME NEW x \in DOMAIN fired'
        PROVE  /\ x \in Schedulers \X {"report", "digest"} \X Nat /\ fired'[x] = 1 /\ x[3] <= now'
               /\ alarm'[<<x[1], x[2]>>].enqueues => x[3] < alarm'[<<x[1], x[2]>>].until
    <3>1. /\ x \in Schedulers \X {"report", "digest"} \X Nat /\ fired[x] = 1 /\ x[3] <= now
          /\ alarm[<<x[1], x[2]>>].enqueues => x[3] < alarm[<<x[1], x[2]>>].until
      BY <1>2, <2>3 DEF ReportsOK, AlarmsOK
    <3>2. x[3] \in Nat
      BY <3>1
    <3> QED BY <1>2, <3>1, <3>2
  <2> QED BY <1>2, <2>1, <2>2, <2>3 DEF AlarmsOK
<1>4. ASSUME NEW w \in Schedulers
      PROVE  since'[w] <= now' /\ DigestOK(w)'
  <2>1. <<w, "digest">> \in Loops
    BY DEF Loops
  <2>2. since[w] <= now /\ DigestOK(w) /\ since[w] \in Nat
    BY <1>2 DEF ReportsOK
  <2>3. since'[w] <= now'
    BY <1>2, <2>2
  <2> QED BY <1>2, <2>1, <2>2, <2>3 DEF DigestOK, DigestsUntil
<1> QED BY <1>1, <1>3, <1>4 DEF ReportsOK

-----------------------------------------------------------------------------
(* Reports: the end of a sleep.                                            *)

LEMMA FiredOnce ==
  ASSUME NEW x, x \notin DOMAIN fired, fired' = fired (+) SetToBag({x})
  PROVE  /\ DOMAIN fired' = DOMAIN fired \cup {x} /\ fired'[x] = 1
         /\ \A y \in DOMAIN fired : fired[y] \in Nat => fired'[y] = fired[y]
<1>1. DOMAIN SetToBag({x}) = {x} /\ SetToBag({x})[x] = 1
  BY DEF SetToBag
<1>2. /\ DOMAIN fired' = DOMAIN fired \cup {x}
      /\ \A y \in DOMAIN fired' : fired'[y] = (IF y \in DOMAIN fired THEN fired[y] ELSE 0)
                                            + (IF y \in {x} THEN SetToBag({x})[y] ELSE 0)
  BY <1>1 DEF (+)
<1>3. fired'[x] = 0 + 1
  BY <1>1, <1>2
<1>4. ASSUME NEW y \in DOMAIN fired, fired[y] \in Nat
      PROVE  fired'[y] = fired[y]
  <2>1. y \notin {x} /\ y \in DOMAIN fired'
    BY <1>2
  <2>2. fired'[y] = fired[y] + 0
    BY <1>2, <1>4, <2>1
  <2> QED BY <1>4, <2>2
<1> QED BY <1>2, <1>3, <1>4

\* It wakes up when it should, and enqueues for an instant it did not enqueue for.
LEMMA Woken ==
  ASSUME ReportsOK, NEW w \in Schedulers, NEW loop \in {"report", "digest"}, WakeUp(w, loop)
  PROVE  /\ <<w, loop>> \in Loops /\ now \in Nat
         /\ alarm[<<w, loop>>] # Planning /\ alarm[<<w, loop>>].until = now
         /\ alarm' = [alarm EXCEPT ![<<w, loop>>] = Planning] /\ UNCHANGED <<now, since>>
         /\ IF alarm[<<w, loop>>].enqueues
              THEN /\ DOMAIN fired' = DOMAIN fired \cup {<<w, loop, now>>}
                   /\ \A x \in DOMAIN fired' : fired'[x] = 1
              ELSE UNCHANGED fired
<1>1. /\ <<w, loop>> \in Loops /\ now \in Nat /\ alarm \in [Loops -> [until : Nat, enqueues : BOOLEAN]]
      /\ alarm[<<w, loop>>] # Planning /\ now <= alarm[<<w, loop>>].until /\ alarm[<<w, loop>>].until <= now
  BY DEF WakeUp, Loops, ReportsOK, AlarmsOK
<1>2. alarm[<<w, loop>>].until = now
  BY <1>1
<1>3. ASSUME alarm[<<w, loop>>].enqueues
      PROVE  /\ DOMAIN fired' = DOMAIN fired \cup {<<w, loop, now>>}
             /\ \A x \in DOMAIN fired' : fired'[x] = 1
  <2>1. PICK x : x = <<w, loop, now>>
    OBVIOUS
  <2>2. x[1] = w /\ x[2] = loop /\ x[3] = now
    BY <2>1
  <2>3. x \notin DOMAIN fired
    BY <1>1, <1>2, <1>3, <2>2 DEF ReportsOK, AlarmsOK
  <2>4. fired' = fired (+) SetToBag({x})
    BY <1>2, <1>3, <2>1 DEF WakeUp
  <2>5. \A y \in DOMAIN fired : fired[y] = 1
    BY DEF ReportsOK, AlarmsOK
  <2>6. /\ DOMAIN fired' = DOMAIN fired \cup {x} /\ fired'[x] = 1
        /\ \A y \in DOMAIN fired : fired[y] \in Nat => fired'[y] = fired[y]
    BY <2>3, <2>4, FiredOnce
  <2>7. \A y \in DOMAIN fired' : fired'[y] = 1
    BY <2>5, <2>6
  <2> QED BY <2>1, <2>6, <2>7
<1> QED BY <1>1, <1>2, <1>3 DEF WakeUp

LEMMA WokenAlarms ==
  ASSUME ReportsOK, NEW w \in Schedulers, NEW loop \in {"report", "digest"}, WakeUp(w, loop)
  PROVE  AlarmsOK'
<1>1. PICK l : l = <<w, loop>>
  OBVIOUS
<1>2. /\ l \in Loops /\ now \in Nat /\ alarm[l] # Planning /\ alarm[l].until = now
      /\ alarm' = [alarm EXCEPT ![l] = Planning] /\ UNCHANGED <<now, since>>
      /\ IF alarm[l].enqueues
           THEN /\ DOMAIN fired' = DOMAIN fired \cup {<<w, loop, now>>}
                /\ \A x \in DOMAIN fired' : fired'[x] = 1
           ELSE UNCHANGED fired
  BY <1>1, Woken
<1>3. /\ since \in [Schedulers -> Nat] /\ alarm \in [Loops -> [until : Nat, enqueues : BOOLEAN]]
      /\ \A k \in Loops : alarm[k] # Planning => now <= alarm[k].until
  BY DEF ReportsOK, AlarmsOK
<1>4. Planning \in [until : Nat, enqueues : BOOLEAN] /\ Planning.enqueues = FALSE
  BY DEF Planning
<1>5. alarm' \in [Loops -> [until : Nat, enqueues : BOOLEAN]]
  BY <1>2, <1>3, <1>4
<1>6. alarm'[l] = Planning /\ \A k \in Loops \ {l} : alarm'[k] = alarm[k]
  BY <1>2, <1>3
<1>7. \A k \in Loops : alarm'[k] # Planning => now' <= alarm'[k].until
  BY <1>2, <1>3, <1>6
<1>8. ASSUME NEW x \in DOMAIN fired'
      PROVE  /\ x \in Schedulers \X {"report", "digest"} \X Nat /\ fired'[x] = 1 /\ x[3] <= now'
             /\ alarm'[<<x[1], x[2]>>].enqueues => x[3] < alarm'[<<x[1], x[2]>>].until
  <2>1. CASE x \in DOMAIN fired
    <3>1. /\ x \in Schedulers \X {"report", "digest"} \X Nat /\ fired[x] = 1 /\ x[3] <= now
          /\ alarm[<<x[1], x[2]>>].enqueues => x[3] < alarm[<<x[1], x[2]>>].until
      BY <2>1 DEF ReportsOK, AlarmsOK
    <3>2. <<x[1], x[2]>> \in Loops
      BY <3>1 DEF Loops
    <3>3. fired'[x] = 1
      BY <1>2, <1>8, <3>1
    <3>4. alarm'[<<x[1], x[2]>>] \in {Planning, alarm[<<x[1], x[2]>>]}
      BY <1>6, <3>2
    <3> QED BY <1>2, <1>4, <3>1, <3>3, <3>4
  <2>2. CASE x \notin DOMAIN fired
    <3>1. x = <<w, loop, now>> /\ fired'[x] = 1
      BY <1>2, <1>8, <2>2
    <3>2. /\ x \in Schedulers \X {"report", "digest"} \X Nat /\ x[3] = now /\ <<x[1], x[2]>> = l
      BY <1>1, <1>2, <3>1
    <3> QED BY <1>2, <1>4, <1>6, <3>1, <3>2
  <2> QED BY <2>1, <2>2
<1> QED BY <1>2, <1>3, <1>5, <1>7, <1>8 DEF AlarmsOK

LEMMA WokenDigests ==
  ASSUME ReportsOK, NEW w \in Schedulers, NEW loop \in {"report", "digest"}, WakeUp(w, loop),
         NEW v \in Schedulers
  PROVE  since'[v] <= now' /\ DigestOK(v)'
<1>1. PICK l, k : l = <<w, loop>> /\ k = <<v, "digest">>
  OBVIOUS
<1>2. /\ l \in Loops /\ now \in Nat /\ alarm[l] # Planning /\ alarm[l].until = now
      /\ alarm' = [alarm EXCEPT ![l] = Planning] /\ UNCHANGED <<now, since>>
      /\ DOMAIN fired \subseteq DOMAIN fired'
      /\ alarm[l].enqueues => <<w, loop, now>> \in DOMAIN fired'
  BY <1>1, Woken
<1>3. k \in Loops /\ since[v] <= now /\ DigestOK(v) /\ DOMAIN alarm = Loops
  BY <1>1 DEF Loops, ReportsOK, AlarmsOK
<1>4. CASE k = l
  <2>1. v = w /\ loop = "digest"
    BY <1>1, <1>4
  <2>2. alarm[l].enqueues /\ DigestsUntil(v, now) /\ MondaysDigest(now)
    BY <1>1, <1>2, <1>3, <1>4 DEF DigestOK
  <2>3. ASSUME NEW day \in Nat, day % 7 = 1, since[v] \div Day < day, DigestOf(day) < now + 1
        PROVE  <<v, "digest", DigestOf(day)>> \in DOMAIN fired'
    <3>1. DigestOf(day) \in Nat
      BY DigestOfDay
    <3>2. DigestOf(day) < now \/ DigestOf(day) = now
      BY <1>2, <2>3, <3>1
    <3>3. CASE DigestOf(day) < now
      BY <1>2, <2>2, <2>3, <3>3 DEF DigestsUntil
    <3>4. CASE DigestOf(day) = now
      BY <1>2, <2>1, <2>2, <3>4
    <3> QED BY <3>2, <3>3, <3>4
  <2>4. DigestsUntil(v, now + 1)'
    BY <1>2, <2>3 DEF DigestsUntil
  <2>5. alarm'[<<v, "digest">>] = Planning
    BY <1>1, <1>2, <1>3, <1>4
  <2>6. MondaysDigest(now)'
    BY <1>2, <2>2 DEF MondaysDigest
  <2> QED BY <1>2, <1>3, <2>4, <2>5, <2>6 DEF DigestOK
<1>5. CASE k # l
  <2>1. alarm'[<<v, "digest">>] = alarm[<<v, "digest">>]
    BY <1>1, <1>2, <1>3, <1>5
  <2>2. \A t : DigestsUntil(v, t) =>
          \A day \in Nat : day % 7 = 1 /\ since'[v] \div Day < day /\ DigestOf(day) < t
            => <<v, "digest", DigestOf(day)>> \in DOMAIN fired'
    BY <1>2 DEF DigestsUntil
  <2> QED BY <1>2, <1>3, <2>1, <2>2 DEF DigestOK, DigestsUntil
<1> QED BY <1>4, <1>5

LEMMA WakeUpKeeps ==
  ASSUME CallsOK, TasksOK, DeliveriesOK, ReportsOK, NEW w \in Schedulers, NEW loop \in {"report", "digest"},
         WakeUp(w, loop)
  PROVE  Moves(DeliveryOps) /\ TasksStep /\ DeliveriesOK' /\ ReportsOK'
<1>1. Moves(DeliveryOps) /\ TasksStep /\ DeliveriesOK'
  <2>1. \A t \in Periodical(loop) : TaskOK(t)
    BY Constants DEF Periodical, Task, TaskOK
  <2>2. /\ UNCHANGED call /\ UNCHANGED deliveryVars
        /\ UNCHANGED left \/ Count("fault")
        /\ UNCHANGED taskVars \/ Enqueue(Periodical(loop))
    BY DEF WakeUp
  <2> QED BY <2>1, <2>2, LoopStep
<1> QED BY <1>1, WokenAlarms, WokenDigests DEF ReportsOK

-----------------------------------------------------------------------------
(* Reports: the tasks.                                                     *)

LEMMA ComposeKeeps ==
  ASSUME CallsOK, TasksOK, DeliveriesOK, NEW h \in Handlers, ComposeReport(h)
  PROVE  Moves(DeliveryOps) /\ TasksStep /\ DeliveriesOK'
<1>1. call[h].op \in TaskOps /\ call[h].op = "compose" /\ UNCHANGED deliveryVars
  BY DEF ComposeReport, At, TaskOps
<1>2. call[h].task.to # "webhook"
  BY <1>1, TaskCall
<1>3. \/ Acknowledge(h) \/ Fail(h)
      \/ Proceed(h, [op |-> "send", task |-> call[h].task]) /\ UNCHANGED taskVars
  BY DEF ComposeReport
<1> QED BY <1>1, <1>2, <1>3, PlainKeeps DEF TaskOps

LEMMA ReportKeeps ==
  ASSUME CallsOK, TasksOK, DeliveriesOK, ReportsOK, ReportsNext
  PROVE  Moves(DeliveryOps) /\ TasksStep /\ DeliveriesOK' /\ ReportsOK'
<1>1. ASSUME NEW w \in Schedulers,
             \/ PlanReport(w) \/ PlanDigest(w) \/ RestartScheduler(w)
             \/ \E loop \in {"report", "digest"} : WakeUp(w, loop)
      PROVE  Moves(DeliveryOps) /\ TasksStep /\ DeliveriesOK' /\ ReportsOK'
  BY <1>1, PlanReportKeeps, PlanDigestKeeps, RestartKeeps, WakeUpKeeps
<1>2. ASSUME NEW h \in Handlers, NEW t \in BagToSet(tasks), HandleReportSend(h, t) \/ HandleDigestSend(h, t)
      PROVE  Moves(DeliveryOps) /\ TasksStep /\ DeliveriesOK' /\ ReportsOK'
  <2>1. CASE HandleReportSend(h, t)
    BY <2>1, LeaseKeeps, OtherReports DEF HandleReportSend
  <2>2. CASE HandleDigestSend(h, t)
    BY <2>2, LeaseKeeps, OtherReports DEF HandleDigestSend
  <2> QED BY <1>2, <2>1, <2>2
<1>3. ASSUME NEW h \in Handlers, ComposeReport(h)
      PROVE  Moves(DeliveryOps) /\ TasksStep /\ DeliveriesOK' /\ ReportsOK'
  <2>1. UNCHANGED reportVars
    BY <1>3 DEF ComposeReport
  <2> QED BY <1>3, <2>1, ComposeKeeps, OtherReports
<1> QED BY <1>1, <1>2, <1>3, TickKeeps DEF ReportsNext

LEMMA ReportsProperty ==
  ASSUME ReportsOK
  PROVE  PeriodicalsComeOnce
<1>1. DOMAIN fired = BagToSet(fired) /\ \A x \in DOMAIN fired : fired[x] = 1
  BY DEF BagToSet, ReportsOK, AlarmsOK
<1>2. ASSUME NEW w \in Schedulers, NEW day \in 0..now \div Day, day % 7 = 1, since[w] \div Day < day,
             OnDay(day * Day, [hour |-> DigestHour, minute |-> 0]) < now
      PROVE  BagIn(<<w, "digest", OnDay(day * Day, [hour |-> DigestHour, minute |-> 0])>>, fired)
  <2>1. PICK t \in Nat : t = now
    BY DEF ReportsOK, AlarmsOK
  <2>2. day \in Nat
    BY <2>1, DayOf
  <2>3. OnDay(day * Day, [hour |-> DigestHour, minute |-> 0]) = DigestOf(day)
    <3>1. PICK d \in Nat, m \in Nat : d = Day /\ m = DigestHour * MinutesPerHour /\ d # 0
      BY DayIs
    <3>2. (day * d + 0) \div d = day
      BY <2>2, <3>1, Quotient
    <3>3. day * d \in Nat
      BY <2>2
    <3>4. (day * d) \div d = day
      BY <3>2, <3>3
    <3>5. PICK at : at = [hour |-> DigestHour, minute |-> 0]
      OBVIOUS
    <3>6. OnDay(day * Day, at) = day * d + m + 0
      BY <3>1, <3>4, <3>5 DEF OnDay
    <3>7. DigestOf(day) = day * d + m
      BY <3>1 DEF DigestOf
    <3> QED BY <3>1, <3>3, <3>5, <3>6, <3>7
  <2>4. DigestOf(day) \in Nat
    BY <2>2, DigestOfDay
  <2>5. DigestOf(day) < now
    BY <1>2, <2>3
  <2>6. <<w, "digest", DigestOf(day)>> \in DOMAIN fired
    <3>1. CASE alarm[<<w, "digest">>] = Planning
      <4>1. DigestsUntil(w, now + 1) /\ DigestOf(day) < now + 1
        BY <2>1, <2>4, <2>5, <3>1 DEF ReportsOK, DigestOK
      <4> QED BY <1>2, <2>2, <4>1 DEF DigestsUntil
    <3>2. CASE alarm[<<w, "digest">>] # Planning
      <4>1. PICK u \in Nat : u = alarm[<<w, "digest">>].until /\ now <= u
        BY <3>2 DEF ReportsOK, AlarmsOK, Loops
      <4>2. DigestsUntil(w, u) /\ DigestOf(day) < u
        BY <2>1, <2>4, <2>5, <3>2, <4>1 DEF ReportsOK, DigestOK
      <4> QED BY <1>2, <2>2, <4>2 DEF DigestsUntil
    <3> QED BY <3>1, <3>2
  <2> QED BY <1>1, <2>3, <2>6 DEF BagIn
<1> QED BY <1>1, <1>2 DEF PeriodicalsComeOnce

-----------------------------------------------------------------------------
(* The composition.                                                        *)

LEMMA Labels ==
  /\ \A ops \in {CorrelationOps, SummaryOps, TriageOps, DeliveryOps} : ops \cap ThreatOps \subseteq {"idle"}
  /\ \A ops \in {ThreatOps, SummaryOps, TriageOps, DeliveryOps} : ops \cap RefreshOps = {}
  /\ \A ops \in {ThreatOps, CorrelationOps, TriageOps, DeliveryOps} : ops \cap SummaryOps \subseteq {"idle"}
  /\ \A ops \in {ThreatOps, CorrelationOps, SummaryOps, DeliveryOps} :
       ops \cap CacheOps = {} /\ ops \cap TicketOps = {}
  /\ \A ops \in {ThreatOps, CorrelationOps, SummaryOps, TriageOps} :
       ops \cap (PostedOps \cup {"alert", "conclude"}) = {}
<1>1. /\ CorrelationOps \cap ThreatOps \subseteq {"idle"} /\ SummaryOps \cap ThreatOps \subseteq {"idle"}
      /\ TriageOps \cap ThreatOps \subseteq {"idle"} /\ DeliveryOps \cap ThreatOps \subseteq {"idle"}
  BY DEF ThreatOps, VisitOps, CorrelationOps, RefreshOps, SummaryOps, RequestOps, AgentOps,
         TriageOps, ReadOps, EditOps, TicketOps, DeliveryOps, TaskOps, PostedOps
<1>2. /\ SummaryOps \cap CorrelationOps \subseteq {"idle"} /\ TriageOps \cap CorrelationOps \subseteq {"idle"}
      /\ DeliveryOps \cap CorrelationOps \subseteq {"idle"}
  BY DEF CorrelationOps, RefreshOps, SummaryOps, RequestOps, AgentOps,
         TriageOps, ReadOps, EditOps, TicketOps, DeliveryOps, TaskOps, PostedOps
<1>3. /\ TriageOps \cap SummaryOps \subseteq {"idle"} /\ DeliveryOps \cap SummaryOps \subseteq {"idle"}
      /\ DeliveryOps \cap TriageOps \subseteq {"idle"}
  BY DEF SummaryOps, RequestOps, AgentOps, TriageOps, ReadOps, EditOps, TicketOps, DeliveryOps, TaskOps, PostedOps
<1>4. RefreshOps \subseteq CorrelationOps \ {"idle"} /\ "idle" \notin RefreshOps
  BY DEF CorrelationOps, RefreshOps
<1>5. /\ CacheOps \subseteq TriageOps \ {"idle"}
      /\ TicketOps \subseteq TriageOps \ {"idle"}
  BY DEF TriageOps, CacheOps, ReadOps, EditOps, TicketOps
<1>6. PostedOps \cup {"alert", "conclude"} \subseteq DeliveryOps \ {"idle"}
  BY DEF DeliveryOps, PostedOps
<1> QED BY <1>1, <1>2, <1>3, <1>4, <1>5, <1>6

\* The components a step leaves alone keep what is said of them.
LEMMA Others ==
  ASSUME IInv, NEW ops, Moves(ops)
  PROVE  /\ ops \cap ThreatOps \subseteq {"idle"} /\ UNCHANGED threatVars => InventoryOK' /\ HitsOK'
         /\ ops \cap RefreshOps = {} /\ UNCHANGED correlationVars => PairsOK' /\ RefreshesOK'
         /\ ops \cap SummaryOps \subseteq {"idle"} /\ UNCHANGED summaryVars /\ TasksStep => SummariesOK'
         /\ ops \cap CacheOps = {} /\ ops \cap TicketOps = {} /\ UNCHANGED triageVars
              => DetailsOK' /\ TicketsOK'
         /\ ops \cap (PostedOps \cup {"alert", "conclude"}) = {} /\ UNCHANGED deliveryVars => DeliveriesOK'
         /\ UNCHANGED reportVars => ReportsOK'
<1>1. ASSUME ops \cap ThreatOps \subseteq {"idle"}, UNCHANGED threatVars
      PROVE  InventoryOK' /\ HitsOK'
  BY <1>1, OtherThreats DEF IInv
<1>2. ASSUME ops \cap RefreshOps = {}, UNCHANGED correlationVars
      PROVE  PairsOK' /\ RefreshesOK'
  <2>1. Batch' = Batch /\ UNCHANGED <<stored, confidence, overlapped>>
    BY <1>2 DEF correlationVars, Batch
  <2> QED BY <1>2, <2>1, OtherRefreshes DEF IInv, CorrelationStep
<1>3. ASSUME ops \cap SummaryOps \subseteq {"idle"}, UNCHANGED summaryVars, TasksStep
      PROVE  SummariesOK'
  <2>1. SummariesStep
    BY <1>3, OtherSummaries DEF IInv
  <2> QED BY <2>1 DEF SummariesStep, SummariesOK
<1>4. ASSUME ops \cap CacheOps = {}, ops \cap TicketOps = {}, UNCHANGED triageVars
      PROVE  DetailsOK' /\ TicketsOK'
  <2>1. UNCHANGED detailVars /\ UNCHANGED <<links, tickets, failed, dropped>> /\ LinksStay
    BY <1>4 DEF triageVars, jiraVars, LinksStay
  <2> QED BY <1>4, <2>1, OtherDetails, OtherTickets DEF IInv
<1>5. ASSUME ops \cap (PostedOps \cup {"alert", "conclude"}) = {}, UNCHANGED deliveryVars
      PROVE  DeliveriesOK'
  BY <1>5, OtherDeliveries DEF IInv, deliveryVars
<1>6. ASSUME UNCHANGED reportVars
      PROVE  ReportsOK'
  BY <1>6, OtherReports DEF IInv
<1> QED BY <1>1, <1>2, <1>3, <1>4, <1>5, <1>6

LEMMA NotifyLeavesTriage ==
  ASSUME DeliveriesNext
  PROVE  UNCHANGED triageVars
<1>1. ASSUME NEW w \in Webhooks,
             \/ \E topics \in Subscriptions :
                  CreateWebhook(w, topics) \/ \E enabled \in BOOLEAN : UpdateWebhook(w, enabled, topics)
             \/ DeleteWebhook(w) \/ TestWebhook(w)
      PROVE  UNCHANGED triageVars
  BY <1>1 DEF CreateWebhook, UpdateWebhook, DeleteWebhook, TestWebhook
<1>2. ASSUME NEW h \in Handlers,
             \/ \E edit \in SettingsEdits : UpdateNotificationSettings(h, edit)
             \/ SaveNotificationSettings(h)
             \/ \E t \in BagToSet(tasks) : HandleWebhookSend(h, t) \/ HandleEmailSend(h, t)
             \/ GetWebhook(h) \/ PostWebhook(h) \/ UpdateDeliveryStats(h) \/ LogDelivery(h)
             \/ Unrecorded(h) \/ SendEmail(h) \/ FinishDelivery(h)
      PROVE  UNCHANGED triageVars
  BY <1>2 DEF UpdateNotificationSettings, SaveNotificationSettings, HandleWebhookSend, HandleEmailSend,
     GetWebhook, PostWebhook, UpdateDeliveryStats, LogDelivery, Unrecorded, SendEmail, FinishDelivery
<1>3. ASSUME NEW h \in Handlers,
             \/ CheckSLABreaches(h) \/ ListPendingSLABreaches(h) \/ AlertBreach(h)
             \/ MarkSLABreachAttempted(h)
      PROVE  UNCHANGED triageVars
  BY <1>3 DEF CheckSLABreaches, ListPendingSLABreaches, Listing, AlertBreach, MarkSLABreachAttempted
<1>4. ASSUME TestNotificationEmail \/ \E topic \in Topics : EnqueueNotification(topic)
      PROVE  UNCHANGED triageVars
  BY <1>4 DEF TestNotificationEmail, EnqueueNotification
<1> QED BY <1>1, <1>2, <1>3, <1>4 DEF DeliveriesNext

LEMMA ReportLeavesTriage ==
  ASSUME ReportsNext
  PROVE  UNCHANGED triageVars
BY DEF ReportsNext, PlanReport, PlanDigest, RestartScheduler, WakeUp, Tick, HandleReportSend,
   HandleDigestSend, ComposeReport

LEMMA WatchIsKept == IInv /\ Watch => IInv'
<1> SUFFICES ASSUME IInv, Watch
             PROVE  IInv'
  OBVIOUS
<1>1. Moves(ThreatOps) /\ InventoryOK' /\ HitsOK'
  BY WatchKeeps DEF IInv, Watch
<1>2. TasksStep
  BY UnchangedTasks DEF IInv, Watch
<1> QED BY <1>1, <1>2, Labels, Others DEF IInv, Watch, Moves, TasksStep

LEMMA CorrelateIsKept == IInv /\ Correlate => IInv'
<1> SUFFICES ASSUME IInv, Correlate
             PROVE  IInv'
  OBVIOUS
<1>1. Moves(CorrelationOps) /\ PairsOK' /\ RefreshesOK'
  BY CorrelateKeeps DEF IInv, Correlate, CorrelationStep
<1>2. TasksStep
  BY UnchangedTasks DEF IInv, Correlate
<1> QED BY <1>1, <1>2, Labels, Others DEF IInv, Correlate, Moves, TasksStep

LEMMA ExplainIsKept == IInv /\ Explain => IInv'
<1> SUFFICES ASSUME IInv, Explain
             PROVE  IInv'
  OBVIOUS
<1>1. Moves(SummaryOps) /\ TasksOK' /\ SummariesOK'
  BY ExplainKeeps DEF IInv, Explain, SummariesStep, SummariesOK
<1> QED BY <1>1, Labels, Others DEF IInv, Explain, Moves

LEMMA HandleIsKept == IInv /\ Handle => IInv'
<1> SUFFICES ASSUME IInv, Handle
             PROVE  IInv'
  OBVIOUS
<1>1. Moves(TriageOps) /\ TasksStep /\ DetailsOK' /\ TicketsOK'
  BY HandleKeeps DEF IInv, Handle
<1> QED BY <1>1, Labels, Others DEF IInv, Handle, Moves, TasksStep

LEMMA NotifyIsKept == IInv /\ Notify => IInv'
<1> SUFFICES ASSUME IInv, Notify
             PROVE  IInv'
  OBVIOUS
<1>1. Moves(DeliveryOps) /\ TasksStep /\ DeliveriesOK'
  BY NotifyKeeps DEF IInv, Notify
<1>2. UNCHANGED triageVars
  BY NotifyLeavesTriage DEF Notify
<1> QED BY <1>1, <1>2, Labels, Others DEF IInv, Notify, Moves, TasksStep

LEMMA ReportIsKept == IInv /\ Report => IInv'
<1> SUFFICES ASSUME IInv, Report
             PROVE  IInv'
  OBVIOUS
<1>1. Moves(DeliveryOps) /\ TasksStep /\ DeliveriesOK' /\ ReportsOK'
  BY ReportKeeps DEF IInv, Report
<1>2. UNCHANGED triageVars
  BY ReportLeavesTriage DEF Report
<1> QED BY <1>1, <1>2, Labels, Others DEF IInv, Report, Moves, TasksStep

LEMMA CutShortIsKept == IInv /\ (\E h \in Handlers : CutShort(h)) => IInv'
<1> SUFFICES ASSUME IInv, NEW h \in Handlers, CutShort(h)
             PROVE  IInv'
  OBVIOUS
<1>1. /\ CutOff(h) /\ Die(h) /\ ThreatsCutOff(h) /\ CorrelationCutOff(h) /\ SummariesCutOff(h)
      /\ TriageCutOff(h) /\ DeliveriesCutOff(h) /\ UNCHANGED reportVars
  BY DEF CutShort, Die
<1>2. CallsOK'
  <2>1. Moves({"idle", call[h].op})
    BY <1>1, IdleIsOK, FaultMoves DEF CutOff, IInv
  <2> QED BY <2>1 DEF Moves
<1>3. InventoryOK' /\ HitsOK'
  BY <1>1, CutOffThreats DEF IInv
<1>4. PairsOK' /\ RefreshesOK'
  BY <1>1, CutOffCorrelation DEF IInv, CorrelationStep
<1>5. TasksOK' /\ SummariesOK'
  BY <1>1, <1>2, CutOffSummaries DEF IInv, TasksStep, SummariesStep, SummariesOK
<1>6. DetailsOK' /\ TicketsOK'
  BY <1>1, CutOffTriage DEF IInv
<1>7. DeliveriesOK'
  BY <1>1, CutOffDeliveries DEF IInv
<1>8. ReportsOK'
  BY <1>1, OtherReports DEF IInv
<1> QED BY <1>2, <1>3, <1>4, <1>5, <1>6, <1>7, <1>8 DEF IInv

LEMMA StutterIsKept == IInv /\ UNCHANGED responseVars => IInv'
<1> SUFFICES ASSUME IInv, UNCHANGED responseVars
             PROVE  IInv'
  OBVIOUS
<1>1. UNCHANGED <<requestVars, taskVars, threatVars, correlationVars, summaryVars, triageVars,
                  deliveryVars, reportVars>>
  BY DEF responseVars
<1>2. Moves({}) /\ TasksStep
  BY <1>1, StillMoves, UnchangedTasks DEF IInv
<1>3. \A S : {} \cap S = {} /\ {} \cap S \subseteq {"idle"}
  OBVIOUS
<1>4. /\ InventoryOK' /\ HitsOK' /\ PairsOK' /\ RefreshesOK' /\ SummariesOK'
      /\ DetailsOK' /\ TicketsOK' /\ DeliveriesOK' /\ ReportsOK'
  BY <1>1, <1>2, <1>3, Others
<1> QED BY <1>2, <1>4 DEF IInv, Moves, TasksStep

LEMMA StepKeepsIInv == IInv /\ [Next]_responseVars => IInv'
BY WatchIsKept, CorrelateIsKept, ExplainIsKept, HandleIsKept, NotifyIsKept, ReportIsKept,
   CutShortIsKept, StutterIsKept DEF Next

LEMMA InitialCalls ==
  ASSUME Init
  PROVE  CallsOK /\ TasksOK /\ \A h \in Handlers : call[h] = Idle
<1>1. DOMAIN call = Handlers /\ left \in [Kinds -> Nat] /\ \A h \in Handlers : call[h] = Idle
  BY Constants DEF Init, RequestsInit
<1>2. DOMAIN tasks = {}
  BY DEF Init, TasksInit, EmptyBag, SetToBag
<1> QED BY <1>1, <1>2, IdleIsOK DEF CallsOK, TasksOK

LEMMA InitialThreats ==
  ASSUME Init
  PROVE  InventoryOK /\ HitsOK
<1>1. /\ \A h \in Handlers : call[h] = Idle /\ call[h].op = "idle"
      /\ inventory = [p \in Scanned |-> {}] /\ hits = {}
  BY InitialCalls, IdleIsOK DEF Init, ThreatsInit
<1>2. InventoryOK
  <2>1. ASSUME NEW p \in Scanned, NEW A \in SUBSET Replacing(p)
        PROVE  Cardinality(UnseenBy(p, A)) + Cardinality(A) <= Cardinality(Handlers)
    <3>1. A = {} /\ UnseenBy(p, A) = {}
      BY <1>1, <2>1 DEF Replacing, At, UnseenBy
    <3>2. Cardinality({}) = 0 /\ Cardinality(Handlers) \in Nat
      BY Constants, FS_EmptySet, FS_CardinalityType
    <3> QED BY <3>1, <3>2
  <2>2. DOMAIN inventory = Scanned /\ \A p \in Scanned : IsFiniteSet(inventory[p])
    BY <1>1, FS_EmptySet
  <2> QED BY <2>1, <2>2 DEF InventoryOK
<1>3. HitsOK
  BY <1>1 DEF HitsOK, HitCallOK, VisitOps
<1> QED BY <1>2, <1>3

LEMMA InitialRefreshes ==
  ASSUME Init
  PROVE  PairsOK /\ RefreshesOK
<1>1. /\ \A h \in Handlers : call[h] = Idle /\ call[h].op = "idle"
      /\ stored = {} /\ pairs = <<>> /\ confidence = [f \in Findings |-> 0] /\ overlapped = FALSE
  BY InitialCalls, IdleIsOK DEF Init, CorrelationInit
<1>2. Batch = {}
  BY <1>1 DEF Batch
<1>3. PairsOK
  BY <1>1, <1>2, FS_EmptySet DEF PairsOK
<1>4. \A h \in Handlers : RefreshCallOK(call[h]) /\ ~Refreshing(h)
  BY <1>1 DEF RefreshCallOK, Refreshing, RefreshOps
<1> QED BY <1>1, <1>3, <1>4 DEF RefreshesOK

LEMMA InitialSummaries ==
  ASSUME Init
  PROVE  SummariesOK
<1>1. /\ \A h \in Handlers : call[h] = Idle /\ call[h].op = "idle"
      /\ summaries = [f \in Summarized |-> [state |-> "none", text |-> FALSE, signed |-> FALSE]]
  BY InitialCalls, IdleIsOK DEF Init, SummariesInit
<1>2. StatesOK /\ SummariesAreAwaited
  BY <1>1 DEF StatesOK, SummaryState, SummariesAreAwaited
<1>3. \A h \in Handlers : PreparedOK(call[h])
  BY <1>1 DEF PreparedOK
<1> QED BY <1>2, <1>3 DEF SummariesOK

LEMMA InitialFindings ==
  ASSUME Init
  PROVE  DetailsOK /\ TicketsOK
<1>1. \A h \in Handlers : call[h] = Idle /\ call[h].op = "idle"
  BY InitialCalls, IdleIsOK
<1>2. /\ rows = [f \in Triaged |-> [status |-> "open", owner |-> Nothing]]
      /\ edits = [f \in Triaged |-> 0]
      /\ details = [f \in Triaged |-> Nothing] /\ raced = {}
      /\ links = [f \in Triaged |-> "none"]
      /\ tickets = [f \in Triaged |-> 0] /\ failed = [f \in Triaged |-> 0]
  BY DEF Init, TriageInit
<1>3. DetailsOK
  BY <1>1, <1>2 DEF DetailsOK, ReadOps
<1>4. TicketsOK
  BY <1>1, <1>2 DEF TicketsOK, Ticketing
<1> QED BY <1>3, <1>4

LEMMA InitialDeliveries ==
  ASSUME Init
  PROVE  DeliveriesOK
<1>1. \A h \in Handlers : call[h] = Idle /\ call[h].op = "idle"
  BY InitialCalls, IdleIsOK
<1>2. /\ settings = DefaultSettings /\ webhooks = <<>> /\ attempted = {}
      /\ alerts = [f \in Triaged |-> 0] /\ unmarked = [f \in Triaged |-> 0]
      /\ tally = [d \in Destinations |-> [posted |-> 0, received |-> 0, acknowledged |-> 0,
                                         uncounted |-> 0, unlogged |-> 0]]
  BY DEF Init, DeliveriesInit
<1>3. SettingsOK(settings)
  BY <1>2, ReportsAssumption DEF SettingsOK
<1>4. Cardinality({}) = 0
  BY FS_EmptySet
<1>5. TallyOK
  <2>1. DOMAIN webhooks = {}
    BY <1>2
  <2>2. ASSUME NEW d \in Destinations
        PROVE  tally[d].acknowledged + Cardinality(Answered(d)) <= tally[d].received
    <3>1. Answered(d) = {}
      BY <1>1 DEF Answered, PostedOps
    <3> QED BY <1>2, <1>4, <3>1
  <2>3. tally \in [Destinations -> Tally]
    BY <1>2 DEF Tally
  <2>4. \A w \in Webhooks : tally[w].uncounted = 0 /\ tally[w].unlogged = 0
    BY <1>2 DEF Destinations
  <2>5. \A h \in Handlers : call[h].op \notin {"count", "log"}
    BY <1>1
  <2> QED BY <2>1, <2>2, <2>3, <2>4, <2>5 DEF TallyOK
<1>6. AlertsOK
  <2>1. ASSUME NEW f \in Triaged
        PROVE  f \notin attempted /\ alerts[f] = unmarked[f] + Cardinality(Marking(f))
    <3>1. Marking(f) = {}
      BY <1>1 DEF Marking, Alerting
    <3> QED BY <1>2, <1>4, <3>1
  <2>2. alerts \in [Triaged -> Nat] /\ unmarked \in [Triaged -> Nat]
    BY <1>2
  <2> QED BY <2>1, <2>2 DEF AlertsOK
<1> QED BY <1>3, <1>5, <1>6 DEF DeliveriesOK

LEMMA InitialReports ==
  ASSUME Init
  PROVE  ReportsOK
<1>1. /\ now \in Nat /\ SettingsOK(settings) /\ fired = EmptyBag
      /\ alarm = [l \in Loops |-> IF l[2] = "report" THEN ReportPlan(now, settings) ELSE DigestPlan(now)]
      /\ since = [w \in Schedulers |-> now]
  BY Constants, InitialDeliveries DEF Init, ReportsInit, DeliveriesOK
<1>2. DOMAIN fired = {}
  BY <1>1 DEF EmptyBag, SetToBag
<1>3. Later(ReportPlan(now, settings), now) /\ Later(DigestPlan(now), now)
  BY <1>1, ReportPlanIsLater, DigestPlanIsLater
<1>4. \A l \in Loops : Later(alarm[l], now)
  BY <1>1, <1>3
<1>5. AlarmsOK
  <2>1. alarm \in [Loops -> [until : Nat, enqueues : BOOLEAN]]
    BY <1>1, <1>4 DEF Later
  <2>2. \A l \in Loops : now <= alarm[l].until
    BY <1>1, <1>4 DEF Later
  <2>3. since \in [Schedulers -> Nat]
    BY <1>1
  <2> QED BY <1>1, <1>2, <2>1, <2>2, <2>3 DEF AlarmsOK
<1>6. ASSUME NEW w \in Schedulers
      PROVE  since[w] <= now /\ DigestOK(w)
  <2>1. since[w] = now /\ since[w] <= now
    BY <1>1
  <2>2. PICK a : a = alarm[<<w, "digest">>]
    OBVIOUS
  <2>3. a = DigestPlan(now)
    BY <1>1, <2>2 DEF Loops
  <2>4. a # Planning /\ a.enqueues /\ a.until = nextMonday9am(now)
    BY <1>1, <2>3, DigestPlanIsLater DEF Later
  <2>5. MondaysDigest(nextMonday9am(now))
    BY <1>1, NextMondayIs
  <2>6. ASSUME NEW day \in Nat, day % 7 = 1, now \div Day < day
        PROVE  ~(DigestOf(day) < nextMonday9am(now))
    <3>1. PICK q \in Nat : q = now \div Day
      BY <1>1, DayOf
    <3>2. ~(day <= q)
      BY <2>6, <3>1
    <3> QED BY <1>1, <2>6, <3>1, <3>2, NextMondayIs
  <2>7. DigestsUntil(w, a.until)
    BY <2>1, <2>4, <2>6 DEF DigestsUntil
  <2> QED BY <2>1, <2>2, <2>4, <2>5, <2>7 DEF DigestOK
<1> QED BY <1>5, <1>6 DEF ReportsOK

LEMMA InitHasIInv == Init => IInv
BY InitialCalls, InitialThreats, InitialRefreshes, InitialSummaries, InitialFindings,
   InitialDeliveries, InitialReports DEF IInv

-----------------------------------------------------------------------------
(* The theorems.                                                           *)

\* What the first sections say of the calls and of the tables is so between any
\* two statements of the handlers, the workers and the loops, and after any of
\* them was cut off.
THEOREM ResponseInvariant == Spec => []IInv
<1>1. Init => IInv
  BY InitHasIInv
<1>2. IInv /\ [Next]_responseVars => IInv'
  BY StepKeepsIInv
<1> QED BY <1>1, <1>2, PTL DEF Spec

\* However the syncs of threat intelligence interleave and wherever they fail,
\* clearDependencies and UpsertDependencies leave a project no more snapshots
\* than there are goroutines.
THEOREM InventoriesAreBounded == Spec => []InventoryIsBounded
<1>1. IInv => InventoryIsBounded
  BY ThreatProperties DEF IInv
<1> QED BY <1>1, ResponseInvariant, PTL

\* A hit that ReconcileHits stored was announced, is still to be announced by
\* the sync that stored it, or was lost when that sync was cut off; and no sync
\* announces a hit that was stored before it came to the project.
THEOREM HitsAreReported == Spec => []HitsAreReportedOnce
<1>1. IInv => HitsAreReportedOnce
  BY ThreatProperties DEF IInv
<1> QED BY <1>1, ResponseInvariant, PTL

\* No confidence that RefreshBatchCorrelation writes is above what the related
\* findings justify; and as long as no refresh met another and none was cut
\* off, it leaves exactly the pairs and the scores of the stored findings.
THEOREM ConfidenceIsJustified == Spec => []ConfidenceIsEarned
<1>1. IInv => ConfidenceIsEarned
  BY CorrelationProperties DEF IInv
<1> QED BY <1>1, ResponseInvariant, PTL

\* A finding whose summary is pending has a request, a task or an agent of its
\* own, unless one for its signature was lost (PrepareAISummary).
THEOREM PendingIsAwaited == Spec => []SummariesAreAwaited
<1>1. IInv => SummariesAreAwaited
  BY DEF IInv, SummariesOK
<1> QED BY <1>1, ResponseInvariant, PTL

\* A cached detail shows every edit of its finding by users, or an update is on
\* its way to drop it, unless a reader held what it read over an update or the
\* cache was not cleared; it is the row unless a policy wrote it; and the ticket
\* it shows is there (UpdateFinding, BulkUpdateFindings, GetFindingDetail,
\* ExecuteActions and CreateFindingJiraIssue).
THEOREM DetailStaysFresh == Spec => []DetailIsFresh
<1>1. IInv => DetailIsFresh
  BY TriageProperties DEF IInv
<1> QED BY <1>1, ResponseInvariant, PTL

\* ReserveJiraIssueLink lets one call at a time create an issue for a finding;
\* each issue beyond the first follows one that was reported as a failure, and
\* a link stays pending only for a running call or after one that was cut off.
THEOREM TicketsStayLinked == Spec => []TicketsAreLinked
<1>1. IInv => TicketsAreLinked
  BY TriageProperties DEF IInv
<1> QED BY <1>1, ResponseInvariant, PTL

\* What was posted to a webhook is counted and logged, but for what was cut off
\* in between, and nothing is acknowledged that was not received.
THEOREM DeliveriesStayAccounted == Spec => []DeliveriesAreAccounted
<1>1. IInv => DeliveriesAreAccounted
  BY DeliveryProperties DEF IInv
<1> QED BY <1>1, ResponseInvariant, PTL

\* A breach is marked only after an alert, and alerted on at most once for each
\* goroutine and once more for each check that was cut off before
\* MarkSLABreachAttempted.
THEOREM AlertsStayBounded == Spec => []AlertsAreBounded
<1>1. IInv => AlertsAreBounded
  BY DeliveryProperties DEF IInv
<1> QED BY <1>1, ResponseInvariant, PTL

\* No loop of a worker enqueues twice for an instant, and every Monday after the
\* day of its start has its digest, for any settings, hours and restarts
\* (StartReportScheduler, nextReportTime and nextMonday9am).
THEOREM PeriodicalsStayUnique == Spec => []PeriodicalsComeOnce
<1>1. IInv => PeriodicalsComeOnce
  BY ReportsProperty DEF IInv
<1> QED BY <1>1, ResponseInvariant, PTL
=============================================================================
