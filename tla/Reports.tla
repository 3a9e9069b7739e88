------------------------------- MODULE Reports -------------------------------
(***************************************************************************)
(* The periodic report and the weekly digest.  Every worker runs a loop    *)
(* for each: it computes the next instant, sleeps until then and enqueues  *)
(* a task.  The settings are read when the loop computes, so that a change *)
(* waits for the end of the sleep.                                         *)
(*                                                                         *)
(* The calendar has hours and minutes of its own length and weeks of seven *)
(* days, of which the first begins on a Sunday.  The time `now` is a       *)
(* moment inside the minute it names, after its beginning.                 *)
(***************************************************************************)
EXTENDS Deliveries

CONSTANTS
  Schedulers,                   \* workers, for their two loops
  HoursPerDay, MinutesPerHour,  \* 24 and 60
  DigestHour,                   \* 9
  Pause,                        \* fifteen minutes
  StartTimes

\* atoi returns no negative numbers, as long as the digits fit an int, and
\* checks no upper bound.
TimeOK(time) == time.hour \in Nat /\ time.minute \in Nat

ASSUME ReportsAssumption ==
  /\ "time" \in DOMAIN DefaultSettings /\ TimeOK(DefaultSettings.time)
  /\ \A edit \in SettingsEdits : edit.field = "time" => TimeOK(edit.value)
  /\ HoursPerDay \in Nat \ {0} /\ MinutesPerHour \in Nat \ {0} /\ Pause \in Nat \ {0}
  /\ DigestHour \in 0..HoursPerDay - 1 /\ StartTimes \subseteq Nat

VARIABLES
  now,
  alarm, \* of each loop: until when it sleeps and whether it enqueues then, or Planning
  since, \* history: when each worker was started,
  fired  \* and the bag of instants at which its loops enqueued

reportVars == <<now, alarm, since, fired>>

Loops == Schedulers \X {"report", "digest"}
Planning == [until |-> 0, enqueues |-> FALSE]

-----------------------------------------------------------------------------
(* The calendar.                                                           *)

Day == HoursPerDay * MinutesPerHour
Weekday(t) == (t \div Day) % 7
HourOf(t) == (t % Day) \div MinutesPerHour
OnDay(t, at) == (t \div Day) * Day + at.hour * MinutesPerHour + at.minute
NextMonday(t) == t + Day * (IF Weekday(t) = 1 THEN 7 ELSE (8 - Weekday(t)) % 7)

nextMonday9am(t) == OnDay(NextMonday(t), [hour |-> DigestHour, minute |-> 0])

\* Faulty: daily, also when the time of today has passed.
TimeOfToday(t, schedule, at) == IF schedule = "daily" THEN OnDay(t, at) ELSE t + Pause

\* On a Monday the hours are compared, not the minutes: from the beginning of
\* the hour of the report on, it is next week's.  Nothing checks the schedule,
\* and an unknown one is every fifteen minutes.
nextReportTime(t, schedule, at) ==
  CASE schedule = "daily"  -> IF t < OnDay(t, at) THEN OnDay(t, at) ELSE OnDay(t + Day, at)
    [] schedule = "weekly" -> IF Weekday(t) = 1 /\ HourOf(t) < at.hour
                                THEN OnDay(t, at) ELSE OnDay(NextMonday(t), at)
    [] OTHER               -> t + Pause

-----------------------------------------------------------------------------
(* The loops.                                                              *)

Sleep(until, enqueues) == [until |-> until, enqueues |-> enqueues]

ReportPlan(t, s) ==
  IF s.schedule = "disabled" THEN Sleep(t + Pause, FALSE)
  ELSE Sleep(nextReportTime(t, s.schedule, s.time), TRUE)

DigestPlan(t) == Sleep(nextMonday9am(t), TRUE)

\* The workers were just started.
ReportsInit ==
  /\ now \in StartTimes
  /\ alarm = [l \in Loops |-> IF l[2] = "report" THEN ReportPlan(now, settings) ELSE DigestPlan(now)]
  /\ since = [w \in Schedulers |-> now]
  /\ fired = EmptyBag

PlanReport(w) ==
  LET l == <<w, "report">> IN
  /\ alarm[l] = Planning
  /\ \/ alarm' = [alarm EXCEPT ![l] = ReportPlan(now, settings)] /\ UNCHANGED left
     \/ /\ Count("fault")  \* settings not read: five minutes
        /\ alarm' = [alarm EXCEPT ![l] = Sleep(now + Pause, FALSE)]
  /\ UNCHANGED <<call, now, since, fired, deliveryVars, triageVars, taskVars>>

PlanDigest(w) ==
  /\ alarm[<<w, "digest">>] = Planning
  /\ alarm' = [alarm EXCEPT ![<<w, "digest">>] = DigestPlan(now)]
  /\ UNCHANGED <<requestVars, now, since, fired, deliveryVars, triageVars, taskVars>>

\* What a loop enqueues: of the settings, a report takes the channel, and a
\* digest the recipients.
Periodical(loop) ==
  CASE loop = "report" -> {Task("report", settings.channel)}
    [] loop = "digest" -> IF settings.mail THEN {Task("digest", "user")} ELSE {}

\* The loop goes on when the settings cannot be read or the task not enqueued.
WakeUp(w, loop) ==
  LET l == <<w, loop>> IN
  /\ alarm[l] # Planning /\ alarm[l].until <= now
  /\ alarm' = [alarm EXCEPT ![l] = Planning]
  /\ IF alarm[l].enqueues
       THEN /\ fired' = fired (+) SetToBag({<<w, loop, alarm[l].until>>})
            /\ \/ Enqueue(Periodical(loop)) /\ UNCHANGED left
               \/ Count("fault") /\ UNCHANGED taskVars
       ELSE UNCHANGED <<fired, left, taskVars>>
  /\ UNCHANGED <<call, now, since, deliveryVars, triageVars>>

\* A worker stops and starts again; its sleeps were in memory.
RestartScheduler(w) ==
  /\ Count("restart") /\ UNCHANGED call
  /\ alarm' = [l \in Loops |-> IF l[1] = w THEN Planning ELSE alarm[l]]
  /\ since' = [since EXCEPT ![w] = now]
  /\ UNCHANGED <<now, fired, deliveryVars, triageVars, taskVars>>

\* Time passes, as long as every loop wakes up when it should.
Tick ==
  /\ Count("clock") /\ UNCHANGED call
  /\ \A l \in Loops : alarm[l] # Planning /\ alarm[l].until > now
  /\ now' = now + 1
  /\ UNCHANGED <<alarm, since, fired, deliveryVars, triageVars, taskVars>>

-----------------------------------------------------------------------------
(* The tasks.  Metrics are collected, and what they say is sent.           *)

\* The recipients are those of the settings now.  Slack gets nothing, and an
\* unknown channel is an error.
HandleReportSend(h, t) ==
  /\ t.to = "report" /\ Lease(h, t, [op |-> "compose", task |-> t])
  /\ UNCHANGED <<reportVars, deliveryVars, triageVars>>

ComposeReport(h) ==
  /\ At(h, "compose")
  /\ LET t == call[h].task IN
       CASE t.about = "email" /\ settings.mail  -> Proceed(h, [op |-> "send", task |-> t]) /\ UNCHANGED taskVars
         [] t.about = "email" /\ ~settings.mail -> Acknowledge(h)
         [] t.about = "slack"                   -> Acknowledge(h)
         [] OTHER                               -> Fail(h)
  /\ UNCHANGED <<reportVars, deliveryVars, triageVars>>

HandleDigestSend(h, t) ==
  /\ t.to = "digest" /\ Lease(h, t, [op |-> "send", task |-> t])
  /\ UNCHANGED <<reportVars, deliveryVars, triageVars>>

-----------------------------------------------------------------------------
ReportsNext ==
  \/ \E w \in Schedulers :
       \/ PlanReport(w) \/ PlanDigest(w) \/ RestartScheduler(w)
       \/ \E loop \in {"report", "digest"} : WakeUp(w, loop)
  \/ Tick
  \/ \E h \in Handlers :
       \/ \E t \in BagToSet(tasks) : HandleReportSend(h, t) \/ HandleDigestSend(h, t)
       \/ ComposeReport(h)

\* No loop enqueues twice for an instant, whenever it was restarted and
\* whatever schedule it was given meanwhile; and every Monday has its digest
\* from each worker that was started on an earlier day.  (One started on a
\* Monday, before nine, sends none that day: nextMonday9am.)
PeriodicalsComeOnce ==
  /\ \A instant \in BagToSet(fired) : fired[instant] = 1
  /\ \A w \in Schedulers, day \in 0..now \div Day :
       LET instant == OnDay(day * Day, [hour |-> DigestHour, minute |-> 0]) IN
       day % 7 = 1 /\ since[w] \div Day < day /\ instant < now
         => BagIn(<<w, "digest", instant>>, fired)
=============================================================================
