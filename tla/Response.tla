------------------------------- MODULE Response -------------------------------
(***************************************************************************)
(* What follows a scan: correlation, summaries, triage and tickets, alerts *)
(* and their deliveries, reports, and the watch for new threats.  The      *)
(* handlers of the API and of the workers share the goroutines, the queue  *)
(* of tasks and the findings.                                              *)
(*                                                                         *)
(* Any of them may be cut off between two statements: its client goes      *)
(* away, its context expires, a statement fails or the process dies.  The  *)
(* task of a worker then returns to the queue.                             *)
(***************************************************************************)
EXTENDS Threats, Correlation, Summaries, Reports

responseVars ==
  <<requestVars, taskVars, threatVars, correlationVars, summaryVars,
    triageVars, deliveryVars, reportVars>>

Init ==
  /\ RequestsInit /\ TasksInit /\ ThreatsInit /\ CorrelationInit /\ SummariesInit
  /\ TriageInit /\ DeliveriesInit /\ ReportsInit

CutShort(h) ==
  /\ Die(h)
  /\ ThreatsCutOff(h) /\ CorrelationCutOff(h) /\ SummariesCutOff(h)
  /\ TriageCutOff(h) /\ DeliveriesCutOff(h)
  /\ UNCHANGED reportVars

Watch     == ThreatsNext /\ UNCHANGED <<taskVars, correlationVars, summaryVars, triageVars, deliveryVars, reportVars>>
Correlate == CorrelationNext /\ UNCHANGED <<taskVars, threatVars, summaryVars, triageVars, deliveryVars, reportVars>>
Explain   == SummariesNext /\ UNCHANGED <<threatVars, correlationVars, triageVars, deliveryVars, reportVars>>
Handle    == TriageNext /\ UNCHANGED <<threatVars, correlationVars, summaryVars, deliveryVars, reportVars>>
Notify    == DeliveriesNext /\ UNCHANGED <<threatVars, correlationVars, summaryVars, reportVars>>
Report    == ReportsNext /\ UNCHANGED <<threatVars, correlationVars, summaryVars>>

Next ==
  Watch \/ Correlate \/ Explain \/ Handle \/ Notify \/ Report \/ \E h \in Handlers : CutShort(h)

Spec == Init /\ [][Next]_responseVars
=============================================================================
