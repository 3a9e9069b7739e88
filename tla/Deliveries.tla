----------------------------- MODULE Deliveries -----------------------------
(***************************************************************************)
(* What leaves the system: the deliveries of webhooks and e-mails by the   *)
(* workers, the settings and webhooks an administrator changes meanwhile,  *)
(* and the monitor that alerts on breached deadlines, of which every       *)
(* worker runs one.                                                        *)
(*                                                                         *)
(* The checks of URL and delivery type before a POST are left out: those   *)
(* of the API are stricter, so no stored webhook fails them.  Sending of   *)
(* e-mail is switched on.                                                  *)
(***************************************************************************)
EXTENDS Triage, Sequences

CONSTANTS
  Webhooks,
  Topics,         \* of the events: "finding.sla_breach" and others
  Subscriptions,  \* bound: sets of them that webhooks ask for
  Overdue,        \* unsuppressed findings past their deadline, in its order
  ListLimit,
  SettingsEdits,  \* bound: fields and values administrators ask for
  DefaultSettings

ASSUME DeliveriesAssumption ==
  /\ "finding.sla_breach" \in Topics /\ "mail" \notin Webhooks
  /\ Overdue \in Seq(Triaged) /\ \A i, j \in DOMAIN Overdue : Overdue[i] = Overdue[j] => i = j
  /\ ListLimit \in Nat \ {0}

VARIABLES
  settings,  \* notification_settings
  webhooks,  \* rows: enabled, events, delivery_count, error_count, and the log's length
  attempted, \* findings with sla_breach_attempted_at
  alerts,    \* history: alerts enqueued for each finding,
  unmarked,  \* and how many of them by a check that was cut off before its marks
  tally      \* history: what was posted to each destination, received and
             \* acknowledged, and posted but not counted and not logged

deliveryVars == <<settings, webhooks, attempted, alerts, unmarked, tally>>

Destinations == Webhooks \cup {"mail"}

DeliveriesInit ==
  /\ settings = DefaultSettings
  /\ webhooks = <<>> /\ attempted = {}
  /\ alerts = [f \in Triaged |-> 0] /\ unmarked = [f \in Triaged |-> 0]
  /\ tally = [d \in Destinations |-> [posted |-> 0, received |-> 0, acknowledged |-> 0,
                                     uncounted |-> 0, unlogged |-> 0]]

-----------------------------------------------------------------------------
(* Administration.                                                         *)

\* UpdateNotificationSettings reads the row ...
UpdateNotificationSettings(h, edit) ==
  /\ Begin("settings", h, [op |-> "save", edit |-> edit, read |-> settings])
  /\ UNCHANGED <<deliveryVars, triageVars, taskVars>>

\* ... and writes all of its columns: of two updates that overlap, the second
\* takes back what the first changed.
SaveNotificationSettings(h) ==
  /\ At(h, "save")
  /\ LET c == call[h] IN settings' = [c.read EXCEPT ![c.edit.field] = c.edit.value]
  /\ Return(h)
  /\ UNCHANGED <<webhooks, attempted, alerts, unmarked, tally, triageVars, taskVars>>

CreateWebhook(w, topics) ==
  /\ AtOnce("webhook") /\ w \notin DOMAIN webhooks
  /\ tally[w].posted = 0   \* an id is not used again
  /\ webhooks' = AddRow(webhooks, w, [enabled |-> TRUE, events |-> topics,
                                      count |-> 0, errors |-> 0, logged |-> 0])
  /\ UNCHANGED <<settings, attempted, alerts, unmarked, tally, triageVars, taskVars>>

UpdateWebhook(w, enabled, topics) ==
  /\ AtOnce("webhook") /\ w \in DOMAIN webhooks
  /\ webhooks' = [webhooks EXCEPT ![w] = [@ EXCEPT !.enabled = enabled, !.events = topics]]
  /\ UNCHANGED <<settings, attempted, alerts, unmarked, tally, triageVars, taskVars>>

\* The log goes with the row.
DeleteWebhook(w) ==
  /\ AtOnce("webhook") /\ w \in DOMAIN webhooks
  /\ webhooks' = [v \in DOMAIN webhooks \ {w} |-> webhooks[v]]
  /\ UNCHANGED <<settings, attempted, alerts, unmarked, tally, triageVars, taskVars>>

\* Enqueued whether or not the webhook is enabled.
TestWebhook(w) ==
  /\ AtOnce("webhook") /\ w \in DOMAIN webhooks
  /\ Enqueue({Task("webhook", w)})
  /\ UNCHANGED <<deliveryVars, triageVars>>

TestNotificationEmail ==
  /\ AtOnce("webhook") /\ settings.mail
  /\ Enqueue({Mail})
  /\ UNCHANGED <<deliveryVars, triageVars>>

-----------------------------------------------------------------------------
(* Events.                                                                 *)

\* "finding.created" stands for either severity.
Subscribed(topic) ==
  {w \in DOMAIN webhooks :
     /\ webhooks[w].enabled
     /\ \/ topic \in webhooks[w].events
        \/ "finding.created" \in webhooks[w].events /\ topic \in {"finding.critical", "finding.high"}}

\* The tasks of an event: one for each webhook and one e-mail.  Each may fail
\* to be enqueued, which is only logged.
Announcement(topic, recipients) ==
  {Task("webhook", w) : w \in Subscribed(topic)} \cup (IF recipients THEN {Mail} ELSE {})

\* A critical or high finding, or a scan that ended: settings permitting.
EnqueueNotification(topic) ==
  /\ AtOnce("event")
  /\ settings[topic] /\ Enqueue(Announcement(topic, settings.mail))
  /\ UNCHANGED <<deliveryVars, triageVars>>

-----------------------------------------------------------------------------
(* Deliveries.  The handler of a webhook reads the row, posts, counts the  *)
(* result, logs it, and returns nil or an error.                           *)

HandleWebhookSend(h, t) ==
  /\ t.to = "webhook" /\ Lease(h, t, [op |-> "get", task |-> t])
  /\ UNCHANGED <<deliveryVars, triageVars>>

GetWebhook(h) ==
  /\ At(h, "get")
  /\ LET t == call[h].task IN
       IF t.about \notin DOMAIN webhooks THEN Fail(h)
       ELSE IF ~webhooks[t.about].enabled THEN Acknowledge(h)
       ELSE Proceed(h, [op |-> "post", task |-> t]) /\ UNCHANGED taskVars
  /\ UNCHANGED <<deliveryVars, triageVars>>

Destination(t) == IF t.to = "webhook" THEN t.about ELSE "mail"

\* One post more, which arrived or not.
Sent(counts, arrived) ==
  [counts EXCEPT !.posted = counts.posted + 1, !.received = counts.received + arrived]

Transmit(h, next) ==
  LET t == call[h].task
      d == Destination(t)
  IN  \/ /\ tally' = [tally EXCEPT ![d] = Sent(@, 1)]
         /\ Proceed(h, [op |-> next, task |-> t, ok |-> TRUE])
      \/ /\ Count("fault") /\ call' = [call EXCEPT ![h] = [op |-> next, task |-> t, ok |-> FALSE]]
         /\ \E arrived \in {0, 1} :
              tally' = [tally EXCEPT ![d] = Sent(@, arrived)]

\* Answered with 2xx, or with something else, or lost on the way there or back.
PostWebhook(h) ==
  /\ At(h, "post") /\ Transmit(h, "count")
  /\ UNCHANGED <<settings, webhooks, attempted, alerts, unmarked, triageVars, taskVars>>

Counted(row, ok) ==
  [row EXCEPT !.count = row.count + 1, !.errors = IF ok THEN row.errors ELSE row.errors + 1]

\* A webhook that is gone by then has no row to update and no log.
UpdateDeliveryStats(h) ==
  /\ At(h, "count")
  /\ LET w == call[h].task.about IN
       webhooks' = IF w \notin DOMAIN webhooks THEN webhooks ELSE
                   [webhooks EXCEPT ![w] = Counted(@, call[h].ok)]
  /\ Proceed(h, [call[h] EXCEPT !.op = "log"])
  /\ UNCHANGED <<settings, attempted, alerts, unmarked, tally, triageVars, taskVars>>

LogDelivery(h) ==
  /\ At(h, "log")
  /\ LET w == call[h].task.about IN
       webhooks' = IF w \notin DOMAIN webhooks THEN webhooks ELSE [webhooks EXCEPT ![w].logged = @ + 1]
  /\ Proceed(h, [call[h] EXCEPT !.op = "sent"])
  /\ UNCHANGED <<settings, attempted, alerts, unmarked, tally, triageVars, taskVars>>

\* The history of a delivery that misses its count or its log entry.
Missed(counts, m, n) ==
  [counts EXCEPT !.uncounted = counts.uncounted + m, !.unlogged = counts.unlogged + n]

Missing(h, what) ==
  LET one(op) == IF op \in what THEN 1 ELSE 0 IN
  [tally EXCEPT ![call[h].task.about] = Missed(@, one("count"), one("log"))]

\* A failed statement is logged and the delivery goes on.
Unrecorded(h) ==
  /\ call[h].op \in {"count", "log"} /\ Count("fault")
  /\ call' = [call EXCEPT ![h].op = IF @ = "count" THEN "log" ELSE "sent"]
  /\ tally' = Missing(h, {call[h].op})
  /\ UNCHANGED <<settings, webhooks, attempted, alerts, unmarked, triageVars, taskVars>>

\* Recipients were put into the task.
HandleEmailSend(h, t) ==
  /\ t.to = "mail" /\ Lease(h, t, [op |-> "send", task |-> t])
  /\ UNCHANGED <<deliveryVars, triageVars>>

\* After twenty seconds the sender gives up, and its goroutine may still send.
SendEmail(h) ==
  /\ At(h, "send") /\ Transmit(h, "sent")
  /\ UNCHANGED <<settings, webhooks, attempted, alerts, unmarked, triageVars, taskVars>>

\* Faulty: whatever was answered.
FinishAlways(h) ==
  /\ At(h, "sent")
  /\ Acknowledge(h)
  /\ tally' = [tally EXCEPT ![Destination(call[h].task)].acknowledged = @ + 1]
  /\ UNCHANGED <<settings, webhooks, attempted, alerts, unmarked, triageVars>>

FinishDelivery(h) ==
  /\ At(h, "sent")
  /\ IF call[h].ok
       THEN /\ Acknowledge(h)
            /\ tally' = [tally EXCEPT ![Destination(call[h].task)].acknowledged = @ + 1]
       ELSE Fail(h) /\ UNCHANGED tally
  /\ UNCHANGED <<settings, webhooks, attempted, alerts, unmarked, triageVars>>

-----------------------------------------------------------------------------
(* Breached deadlines.                                                     *)

CheckSLABreaches(h) ==
  /\ settings["finding.sla_breach"]
  /\ Begin("monitor", h, [op |-> "list", mail |-> settings.mail])
  /\ UNCHANGED <<deliveryVars, triageVars, taskVars>>

\* The first of those that are pending, as their places in the order.
Listing(h, pending) ==
  /\ At(h, "list")
  /\ LET listed == {i \in pending : Cardinality({j \in pending : j < i}) < ListLimit} IN
       IF listed = {} THEN Return(h)
       ELSE Proceed(h, [op |-> "alert", mail |-> call[h].mail, todo |-> listed, marked |-> {}])
  /\ UNCHANGED <<deliveryVars, triageVars, taskVars>>

Breaching(f) == rows[f].status \notin {"fixed", "verified", "accepted_risk"}

\* Faulty: attempted or not.
ListBreaches(h) == Listing(h, {i \in DOMAIN Overdue : Breaching(Overdue[i])})

ListPendingSLABreaches(h) ==
  Listing(h, {i \in DOMAIN Overdue : Breaching(Overdue[i]) /\ Overdue[i] \notin attempted})

\* One breach: those of its tasks that could be enqueued.
AlertBreach(h) ==
  /\ At(h, "alert")
  /\ LET c == call[h] IN
       \/ c.todo = {} /\ Proceed(h, [op |-> "conclude", marked |-> c.marked]) /\ UNCHANGED <<alerts, taskVars>>
       \/ \E i \in c.todo :
            /\ \A j \in c.todo : i <= j
            /\ LET f == Overdue[i]
                   all == Announcement("finding.sla_breach", c.mail)
               IN  \E some \in SUBSET all :
                     /\ IF some = all THEN UNCHANGED left ELSE Count("fault")
                     /\ Enqueue(some)
                     /\ alerts' = IF some = {} THEN alerts ELSE [alerts EXCEPT ![f] = @ + 1]
                     /\ call' = [call EXCEPT ![h] = [c EXCEPT !.todo = c.todo \ {i},
                                   !.marked = IF some = {} THEN c.marked ELSE c.marked \cup {f}]]
  /\ UNCHANGED <<settings, webhooks, attempted, unmarked, tally, triageVars>>

MarkSLABreachAttempted(h) ==
  /\ At(h, "conclude")
  /\ attempted' = attempted \cup call[h].marked
  /\ Return(h)
  /\ UNCHANGED <<settings, webhooks, alerts, unmarked, tally, triageVars, taskVars>>

-----------------------------------------------------------------------------
Alerting(h) == call[h].op \in {"alert", "conclude"}

DeliveriesNext ==
  \/ \E w \in Webhooks :
       \/ \E topics \in Subscriptions :
            CreateWebhook(w, topics) \/ \E enabled \in BOOLEAN : UpdateWebhook(w, enabled, topics)
       \/ DeleteWebhook(w) \/ TestWebhook(w)
  \/ TestNotificationEmail
  \/ \E topic \in Topics \ {"finding.sla_breach"} : EnqueueNotification(topic)
  \/ \E h \in Handlers :
       \/ \E edit \in SettingsEdits : UpdateNotificationSettings(h, edit)
       \/ SaveNotificationSettings(h)
       \/ \E t \in BagToSet(tasks) : HandleWebhookSend(h, t) \/ HandleEmailSend(h, t)
       \/ GetWebhook(h) \/ PostWebhook(h) \/ UpdateDeliveryStats(h) \/ LogDelivery(h)
       \/ Unrecorded(h) \/ SendEmail(h) \/ FinishDelivery(h)
       \/ CheckSLABreaches(h) \/ ListPendingSLABreaches(h) \/ AlertBreach(h)
       \/ MarkSLABreachAttempted(h)

DeliveriesCutOff(h) ==
  /\ tally' = CASE At(h, "count") -> Missing(h, {"count", "log"})
                [] At(h, "log")   -> Missing(h, {"log"})
                [] OTHER          -> tally
  /\ unmarked' = [f \in Triaged |-> IF Alerting(h) /\ f \in call[h].marked
                                    THEN unmarked[f] + 1 ELSE unmarked[f]]
  /\ UNCHANGED <<settings, webhooks, attempted, alerts>>

-----------------------------------------------------------------------------
\* Nothing is acknowledged that did not arrive, and what a webhook's row and
\* log say was posted was, once for each attempt: they miss an attempt only
\* while it is on its way to them, when their statement failed or when the
\* worker died in between (HandleWebhookSend and HandleEmailSend).
DeliveriesAreAccounted ==
  /\ \A d \in Destinations : tally[d].acknowledged <= tally[d].received
  /\ \A w \in DOMAIN webhooks :
       LET between(ops) == Cardinality({h \in Handlers : call[h].op \in ops /\ call[h].task.about = w}) IN
       /\ tally[w].posted = webhooks[w].count + tally[w].uncounted + between({"count"})
       /\ tally[w].posted = webhooks[w].logged + tally[w].unlogged + between({"count", "log"})

\* A breached deadline is marked only when an alert was enqueued for it, and
\* alerted again only by a check that listed it before the mark: one for each
\* goroutine at most, and one for each check that was cut off before its marks
\* (CheckSLABreaches, of which every worker runs its own).
AlertsAreBounded ==
  \A f \in Triaged :
    /\ f \in attempted => alerts[f] > 0
    /\ alerts[f] <= Cardinality(Handlers) + unmarked[f]
=============================================================================
