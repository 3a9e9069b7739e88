----------------------------- MODULE Correlation -----------------------------
(***************************************************************************)
(* The correlation of a batch: after inserting a finding its scan looks    *)
(* for related findings of the batch, replaces the pairs of the new one    *)
(* and recalculates the confidence of all it touched, statement by         *)
(* statement and outside any transaction, while the other scans of the     *)
(* batch do the same; and the validator, which adds pairs of its own.      *)
(*                                                                         *)
(* Bound: one batch.  A confidence of 0.5 + 0.5 * n / peers is its         *)
(* numerator, peers + n; 0 stands for NULL.                                *)
(***************************************************************************)
EXTENDS Requests, FiniteSetsExt, TLC

CONSTANTS
  Findings,
  Facts,      \* of each: scanner, file, line, suppressed, and the rule, CVE,
              \* secret hash and package it names, as one set of signals
  CategoryOf, \* of each scanner
  Scans       \* scanners of the batch

ASSUME CorrelationAssumption ==
  IsFiniteSet(Scans) /\ \A f \in Findings : Facts[f].line \in Nat

VARIABLES
  stored,     \* findings inserted
  pairs,      \* finding_correlations: the type of each pair
  confidence,
  overlapped  \* history: two refreshes ran at a time, or one was cut off

correlationVars == <<stored, pairs, confidence, overlapped>>

CorrelationInit ==
  stored = {} /\ pairs = <<>> /\ confidence = [f \in Findings |-> 0] /\ overlapped = FALSE

Near(f, g) ==
  /\ Facts[f].file = Facts[g].file
  /\ LET threshold == IF CategoryOf[Facts[f].scanner] = "iac" THEN 15 ELSE 5
     IN  Facts[f].line - Facts[g].line \in -threshold..threshold

FindBatchMatches(f) ==
  IF Facts[f].suppressed THEN {} ELSE
  {g \in stored \ {f} :
     /\ ~Facts[g].suppressed
     /\ CategoryOf[Facts[g].scanner] = CategoryOf[Facts[f].scanner]
     /\ CategoryOf[Facts[f].scanner] = "iac" \/ Facts[g].scanner # Facts[f].scanner
     /\ Facts[f].signals \cap Facts[g].signals # {} \/ Near(f, g)}

Correlated(f, types) ==
  UNION {pair \ {f} : pair \in {q \in DOMAIN pairs : f \in q /\ pairs[q] \in types}}

Peers(f) ==
  {s \in Scans : s # Facts[f].scanner /\ CategoryOf[s] = CategoryOf[Facts[f].scanner]}

\* The scanner of the finding itself counts when IaC correlates its own findings.
Score(f, corroborating) ==
  LET peers == Cardinality(Peers(f))
      scanners == {Facts[g].scanner : g \in corroborating}
  IN  IF peers = 0 \/ scanners = {} THEN 0 ELSE peers + Min({peers, Cardinality(scanners)})

Refreshing(h) == call[h].op \in {"match", "forget", "pair", "score", "write"}

Insert(h, f) ==
  /\ f \notin stored
  /\ Begin("scan", h, [op |-> "match", finding |-> f])
  /\ stored' = stored \cup {f}
  /\ overlapped' = (overlapped \/ \E g \in Handlers : Refreshing(g))
  /\ UNCHANGED <<pairs, confidence>>

RefreshBatchCorrelation(h) ==
  /\ At(h, "match")
  /\ LET f == call[h].finding IN
       Proceed(h, [op |-> "forget", finding |-> f, found |-> FindBatchMatches(f)])
  /\ UNCHANGED correlationVars

Recalculating(f, todo) == [op |-> "score", finding |-> f, todo |-> todo]

ClearCorrelations(h) ==
  /\ At(h, "forget")
  /\ LET f == call[h].finding
         cleared == {q \in DOMAIN pairs : f \in q /\ pairs[q] = "same_family_batch"}
     IN  pairs' = [q \in DOMAIN pairs \ cleared |-> pairs[q]]
  /\ Proceed(h, [op |-> "pair", finding |-> call[h].finding,
                 todo |-> call[h].found, found |-> call[h].found])
  /\ UNCHANGED <<stored, confidence, overlapped>>

\* Faulty: only the new finding is scored again.
InsertPairsAlone(h) ==
  /\ At(h, "pair")
  /\ LET c == call[h] IN
       \/ \E g \in c.todo :
            /\ pairs' = PutRow(pairs, {c.finding, g}, "same_family_batch")
            /\ Proceed(h, [c EXCEPT !.todo = @ \ {g}])
       \/ c.todo = {} /\ Proceed(h, Recalculating(c.finding, {c.finding})) /\ UNCHANGED pairs
  /\ UNCHANGED <<stored, confidence, overlapped>>

\* A pair that is there already becomes one of this type.
ReplaceCorrelationSet(h) ==
  /\ At(h, "pair")
  /\ LET c == call[h] IN
       \/ \E g \in c.todo :
            /\ pairs' = PutRow(pairs, {c.finding, g}, "same_family_batch")
            /\ Proceed(h, [c EXCEPT !.todo = @ \ {g}])
       \/ /\ c.todo = {} /\ UNCHANGED pairs
          /\ Proceed(h, Recalculating(c.finding, c.found \cup {c.finding}))
  /\ UNCHANGED <<stored, confidence, overlapped>>

RecalculateConfidence(h) ==
  /\ At(h, "score")
  /\ LET c == call[h] IN
       \/ c.todo = {} /\ Return(h)
       \/ \E g \in c.todo :
            Proceed(h, [op |-> "write", finding |-> c.finding, todo |-> c.todo \ {g}, scored |-> g,
                        score |-> Score(g, Correlated(g, {"same_family_batch"}))])
  /\ UNCHANGED correlationVars

WriteConfidence(h) ==
  /\ At(h, "write")
  /\ confidence' = [confidence EXCEPT ![call[h].scored] = call[h].score]
  /\ Proceed(h, Recalculating(call[h].finding, call[h].todo))
  /\ UNCHANGED <<stored, pairs, overlapped>>

\* The model is shown the correlated findings and may name only those.
Analyze(h, f) ==
  /\ f \in stored
  /\ \E named \in SUBSET {g \in Correlated(f, {"same_family_batch", "same_signal"}) :
                            ~Facts[g].suppressed} :
       Begin("validate", h, [op |-> "relate", finding |-> f, named |-> named])
  /\ UNCHANGED correlationVars

\* ON CONFLICT DO NOTHING, pair by pair.
InsertCorrelations(h) ==
  /\ At(h, "relate")
  /\ LET c == call[h] IN
       \/ c.named = {} /\ Return(h) /\ UNCHANGED pairs
       \/ \E g \in c.named :
            /\ pairs' = AddRow(pairs, {c.finding, g}, "same_signal")
            /\ Proceed(h, [c EXCEPT !.named = @ \ {g}])
  /\ UNCHANGED <<stored, confidence, overlapped>>

CorrelationNext ==
  \E h \in Handlers :
    \/ \E f \in Findings : Insert(h, f) \/ Analyze(h, f)
    \/ RefreshBatchCorrelation(h) \/ ClearCorrelations(h) \/ ReplaceCorrelationSet(h)
    \/ RecalculateConfidence(h) \/ WriteConfidence(h) \/ InsertCorrelations(h)

CorrelationCutOff(h) ==
  overlapped' = (overlapped \/ Refreshing(h)) /\ UNCHANGED <<stored, pairs, confidence>>

-----------------------------------------------------------------------------
\* Whatever interleaves, no finding is trusted more than the related findings
\* of its batch justify; and when the refreshes ran one after the other, the
\* pairs are the related findings and every score is theirs, those scored
\* before a later finding arrived included (RefreshBatchCorrelation).
ConfidenceIsEarned ==
  /\ \A f \in stored : confidence[f] <= Score(f, FindBatchMatches(f))
  /\ ~overlapped /\ (\A h \in Handlers : ~Refreshing(h)) =>
       \A f \in stored : /\ Correlated(f, {"same_family_batch"}) = FindBatchMatches(f)
                         /\ confidence[f] = Score(f, FindBatchMatches(f))
=============================================================================
