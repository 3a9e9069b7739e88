---------------------------- MODULE FindingIngest ----------------------------
(***************************************************************************)
(* What HandleScan does with the scanner's output: for each parsed finding *)
(* insert the row, link it to the vulnerability it is an instance of,      *)
(* apply the policies and enqueue the alert.  Every statement commits on   *)
(* its own; the handler is retried from the start when it dies, other      *)
(* scans of the project report the same findings, every worker start runs  *)
(* BackfillVulnerabilities over the same rows, and projects are deleted.   *)
(*                                                                         *)
(* A finding is named by its fingerprint, which determines its scanner,    *)
(* its project and its vulnerability.  Abstracted: RefreshBatchCorrelation *)
(* (it touches none of this state) and the texts.                          *)
(***************************************************************************)
EXTENDS Naturals, Sequences, FiniteSets, SequencesExt

CONSTANTS Scans,       \* scan tasks
          Findings,    \* fingerprints
          Vulns,       \* vulnerabilities, by (project, vuln_uid)
          NoVuln,      \* vulnerability_id IS NULL, or vuln_uid = ""
          Projects,
          Backfills,   \* worker processes, each running a backfill at start
          Parsed,      \* the findings each scan's scanner reports, in order
          ScannerOf,   \* the scanner of a finding
          UidOf,       \* ComputeVulnUID of a finding, or NoVuln
          ProjectOf,   \* the project of a finding's scan
          Suppressed,  \* findings a suppression rule matches
          Legacy,      \* rows older than the vulnerabilities table
          BatchSize,   \* rows a backfill reads at a time
          MaxFaults,   \* bound: failed statements and interrupted processes
          MaxStarts,   \* bound: backfills started
          MaxDeletes   \* bound: projects deleted

ASSUME ConstantsAssumption ==
  /\ IsFiniteSet(Scans) /\ IsFiniteSet(Findings) /\ IsFiniteSet(Backfills)
  /\ Parsed \in [Scans -> Seq(Findings)]
  /\ UidOf \in [Findings -> Vulns \cup {NoVuln}] /\ NoVuln \notin Vulns
  /\ ProjectOf \in [Findings -> Projects]
  /\ \A f, g \in Findings : UidOf[f] = UidOf[g] /\ UidOf[f] # NoVuln => ProjectOf[f] = ProjectOf[g]
  /\ Suppressed \subseteq Findings
  /\ Legacy \in Seq(Findings) /\ IsInjective(Legacy)
  /\ BatchSize \in Nat \ {0} /\ MaxFaults \in Nat /\ MaxStarts \in Nat

VARIABLES
  live,      \* projects that have not been deleted
  table,     \* the findings table, oldest row first
  hidden,    \* rows with suppressed = TRUE
  link,      \* findings.vulnerability_id
  count,     \* vulnerabilities.finding_count; 0 where there is no row
  coverage,  \* vulnerabilities.scanner_coverage
  score,     \* vulnerabilities.confidence_score in percent; 0 is NULL
  policied,  \* times the policies were applied to a finding
  notified,  \* times the alert of a finding was enqueued
  pc, at,    \* where a scan's handler is, and at which of its findings
  seen,      \* scanners counted by a recalculation about to write
  bpc, batch, bat, progress, touched, bseen,   \* the same for a backfill
  cut,       \* history: findings with a step lost to a fault
  overlap,   \* history: a backfill ran beside a handler or a backfill
  faults, starts

rows    == <<table, hidden>>
vulns   == <<count, coverage, score>>
effects == <<policied, notified>>
handler == <<pc, at, seen>>
backfill == <<bpc, batch, bat, progress, touched, bseen>>
history == <<cut, overlap>>
bounds  == <<faults, starts>>
vars == <<live, rows, link, vulns, effects, handler, backfill, history, bounds>>

Idle == {"idle", "done"}
HandlerPC == Idle \cup {"insert", "upsert", "link", "read", "write", "policies", "notify", "finish"}
BackfillPC == {"idle", "query", "upsert", "link", "recalc", "write"}

TypeOK ==
  /\ live \subseteq Projects
  /\ table \in Seq(Findings) /\ hidden \subseteq ToSet(table)
  /\ link \in [Findings -> Vulns \cup {NoVuln}]
  /\ count \in [Vulns -> Nat] /\ score \in [Vulns -> 0..100]
  /\ \A v \in Vulns : coverage[v] \subseteq {ScannerOf[f] : f \in Findings}
  /\ pc \in [Scans -> HandlerPC] /\ bpc \in [Backfills -> BackfillPC]
  /\ \A s \in Scans : pc[s] \notin Idle \cup {"finish"} => at[s] \in 1..Len(Parsed[s])
  /\ \A b \in Backfills :
       /\ bpc[b] \in {"upsert", "link"} => bat[b] \in 1..Len(batch[b])
       /\ Len(batch[b]) <= BatchSize
       /\ touched[b] \subseteq Vulns
  /\ faults \in 0..MaxFaults /\ starts \in 0..MaxStarts
  /\ IsInjective(table)

Init ==
  /\ live = Projects
  /\ table = Legacy /\ hidden = {}
  /\ link = [f \in Findings |-> NoVuln]
  /\ count = [v \in Vulns |-> 0]
  /\ coverage = [v \in Vulns |-> {}]
  /\ score = [v \in Vulns |-> 0]
  /\ policied = [f \in Findings |-> 0] /\ notified = policied
  /\ pc = [s \in Scans |-> "idle"] /\ at = [s \in Scans |-> 1] /\ seen = [s \in Scans |-> 0]
  /\ bpc = [b \in Backfills |-> "idle"]
  /\ batch = [b \in Backfills |-> <<>>] /\ bat = [b \in Backfills |-> 1]
  /\ progress = [b \in Backfills |-> FALSE]
  /\ touched = [b \in Backfills |-> {}]
  /\ bseen = [b \in Backfills |-> <<NoVuln, 0>>]
  /\ cut = {} /\ overlap = FALSE
  /\ faults = 0 /\ starts = 0

-----------------------------------------------------------------------------
Stored      == ToSet(table)
Linkable(f) == UidOf[f] # NoVuln
Alive(f)    == ProjectOf[f] \in live
Links(v)    == {f \in Findings : link[f] = v}
Scanning(s) == pc[s] \notin Idle
Busy(b)     == bpc[b] # "idle"
Cur(s)      == Parsed[s][at[s]]
Item(b)     == batch[b][bat[b]]

\* The findings a handler is between inserting and finishing.
InFlight == {Cur(s) : s \in {t \in Scans : pc[t] \notin Idle \cup {"insert", "finish"}}}

\* A statement fails or a process stops: the model allows MaxFaults of them.
Fault == faults < MaxFaults /\ faults' = faults + 1

\* RecalcConfidence's score of n distinct scanners, in percent.
Confidence(n) == IF n >= 2 THEN 50 + (50 * (n - 1)) \div n ELSE 50

ScannersOn(v) == {ScannerOf[f] : f \in Links(v)}

\* Faulty: the conflict branch keeps finding_count.
UpsertKeepsCount(f) ==
  LET v == UidOf[f]
  IN  /\ count' = [count EXCEPT ![v] = IF @ = 0 THEN 1 ELSE @]
      /\ coverage' = [coverage EXCEPT ![v] = @ \cup {ScannerOf[f]}]
      /\ UNCHANGED score

\* Faulty: the conflict branch stores the new coverage unmerged.
UpsertReplacesCoverage(f) ==
  LET v == UidOf[f]
  IN  /\ count' = [count EXCEPT ![v] = @ + 1]
      /\ coverage' = [coverage EXCEPT ![v] = {ScannerOf[f]}]
      /\ UNCHANGED score

\* Upsert: insert with count 1, or add one to it and merge the coverage.
Upsert(f) ==
  LET v == UidOf[f]
  IN  /\ count' = [count EXCEPT ![v] = @ + 1]
      /\ coverage' = [coverage EXCEPT ![v] = @ \cup {ScannerOf[f]}]
      /\ UNCHANGED score

-----------------------------------------------------------------------------
(* HandleScan's loop.                                                      *)

Goto(s, label) == pc' = [pc EXCEPT ![s] = label] /\ UNCHANGED at

\* The next iteration, or the end of the loop.
Continue(s) ==
  IF at[s] < Len(Parsed[s])
    THEN /\ at' = [at EXCEPT ![s] = @ + 1]
         /\ pc' = [pc EXCEPT ![s] = "insert"]
    ELSE /\ at' = [at EXCEPT ![s] = 1]
         /\ pc' = [pc EXCEPT ![s] = "finish"]

\* if !suppressed { applyPolicies }; a check that failed reads FALSE.
AfterLink(s) == Goto(s, IF Cur(s) \in hidden THEN "notify" ELSE "policies")

Begin(s) ==
  /\ pc[s] = "idle"
  /\ Goto(s, IF Parsed[s] = <<>> THEN "finish" ELSE "insert")
  /\ overlap' = (overlap \/ \E b \in Backfills : Busy(b))
  /\ UNCHANGED <<live, rows, link, vulns, effects, seen, backfill, cut, bounds>>

\* Faulty: a finding that is stored already is processed again.
InsertAgain(s) ==
  /\ pc[s] = "insert"
  /\ Alive(Cur(s))
  /\ table' = IF Cur(s) \in Stored THEN table ELSE Append(table, Cur(s))
  /\ pc' = [pc EXCEPT ![s] = IF Linkable(Cur(s)) THEN "upsert" ELSE "policies"]
  /\ UNCHANGED <<live, hidden, link, vulns, effects, at, seen, backfill, history, bounds>>

\* Faulty: no unique index on (project_id, fingerprint).
InsertUnindexed(s) ==
  /\ pc[s] = "insert"
  /\ Alive(Cur(s))
  /\ table' = Append(table, Cur(s))
  /\ pc' = [pc EXCEPT ![s] = "policies"]
  /\ UNCHANGED <<live, hidden, link, vulns, effects, at, seen, backfill, history, bounds>>

\* Faulty: an unlinkable finding skips the rest of the loop.
InsertSkipsUnlinkable(s) ==
  /\ pc[s] = "insert"
  /\ Alive(Cur(s)) /\ Cur(s) \notin Stored
  /\ table' = Append(table, Cur(s))
  /\ IF Linkable(Cur(s)) THEN Goto(s, "upsert") ELSE Continue(s)
  /\ UNCHANGED <<live, hidden, link, vulns, effects, seen, backfill, history, bounds>>

\* The suppression check and the INSERT of a fingerprint the project lacks.
Insert(s) ==
  LET f == Cur(s)
  IN  /\ pc[s] = "insert"
      /\ Alive(f) /\ f \notin Stored
      /\ table' = Append(table, f)
      /\ \/ hidden' = hidden \cup ({f} \cap Suppressed) /\ UNCHANGED faults
         \/ Fault /\ f \in Suppressed /\ UNCHANGED hidden
      /\ Goto(s, IF Linkable(f) THEN "upsert" ELSE IF f \in hidden' THEN "notify" ELSE "policies")
      /\ UNCHANGED <<live, link, vulns, effects, seen, backfill, history, starts>>

\* ON CONFLICT DO NOTHING returns no id: the finding is skipped.
InsertConflict(s) ==
  /\ pc[s] = "insert"
  /\ Alive(Cur(s)) /\ Cur(s) \in Stored
  /\ Continue(s)
  /\ UNCHANGED <<live, rows, link, vulns, effects, seen, backfill, history, bounds>>

\* The INSERT fails (always, once the project is gone): logged and skipped.
InsertFails(s) ==
  /\ pc[s] = "insert"
  /\ \/ ~ Alive(Cur(s)) /\ UNCHANGED faults
     \/ Fault
  /\ Continue(s)
  /\ UNCHANGED <<live, rows, link, vulns, effects, seen, backfill, history, starts>>

UpsertVuln(s) ==
  /\ pc[s] = "upsert"
  /\ Alive(Cur(s))
  /\ Upsert(Cur(s))
  /\ Goto(s, "link")
  /\ UNCHANGED <<live, rows, link, effects, seen, backfill, history, bounds>>

LinkFinding(s) ==
  /\ pc[s] = "link"
  /\ Alive(Cur(s))
  /\ link' = [link EXCEPT ![Cur(s)] = UidOf[Cur(s)]]
  /\ Goto(s, "read")
  /\ UNCHANGED <<live, rows, vulns, effects, seen, backfill, history, bounds>>

\* A failed Upsert ends linkVulnerability, a failed UpdateFindingVulnID does
\* not; both are logged and the loop goes on.
LinkFails(s) ==
  /\ pc[s] \in {"upsert", "link"}
  /\ \/ ~ Alive(Cur(s)) /\ UNCHANGED <<faults, cut>>
     \/ Fault /\ cut' = cut \cup {Cur(s)}
  /\ IF pc[s] = "upsert" THEN AfterLink(s) ELSE Goto(s, "read")
  /\ UNCHANGED <<live, rows, link, vulns, effects, seen, backfill, overlap, starts>>

\* Faulty: counts every scanner that ever reported the vulnerability.
ReadCoverage(s) ==
  LET n == Cardinality(coverage[UidOf[Cur(s)]])
  IN  /\ pc[s] = "read"
      /\ IF n = 0 THEN AfterLink(s) /\ UNCHANGED seen
                  ELSE Goto(s, "write") /\ seen' = [seen EXCEPT ![s] = n]
      /\ UNCHANGED <<live, rows, link, vulns, effects, backfill, history, bounds>>

\* RecalcConfidence counts the scanners of the linked findings ...
ReadScanners(s) ==
  LET n == Cardinality(ScannersOn(UidOf[Cur(s)]))
  IN  /\ pc[s] = "read"
      /\ IF n = 0 THEN AfterLink(s) /\ UNCHANGED seen
                  ELSE Goto(s, "write") /\ seen' = [seen EXCEPT ![s] = n]
      /\ UNCHANGED <<live, rows, link, vulns, effects, backfill, history, bounds>>

\* ... and writes the score in a statement of its own.
WriteScore(s) ==
  LET v == UidOf[Cur(s)]
  IN  /\ pc[s] = "write"
      /\ score' = [score EXCEPT ![v] = IF Alive(Cur(s)) THEN Confidence(seen[s]) ELSE @]
      /\ AfterLink(s)
      /\ seen' = [seen EXCEPT ![s] = 0]
      /\ UNCHANGED <<live, rows, link, count, coverage, effects, backfill, history, bounds>>

\* Any statement of RecalcConfidence fails.
RecalcFails(s) ==
  /\ pc[s] \in {"read", "write"}
  /\ Fault
  /\ AfterLink(s)
  /\ seen' = [seen EXCEPT ![s] = 0]
  /\ UNCHANGED <<live, rows, link, vulns, effects, backfill, history, starts>>

ApplyPolicies(s) ==
  /\ pc[s] = "policies"
  /\ \/ policied' = [policied EXCEPT ![Cur(s)] = @ + 1] /\ UNCHANGED <<cut, faults>>
     \/ Fault /\ cut' = cut \cup {Cur(s)} /\ UNCHANGED policied
  /\ Goto(s, "notify")
  /\ UNCHANGED <<live, rows, link, vulns, notified, seen, backfill, overlap, starts>>

\* The alert goes out for suppressed findings too.
Notify(s) ==
  /\ pc[s] = "notify"
  /\ \/ notified' = [notified EXCEPT ![Cur(s)] = @ + 1] /\ UNCHANGED <<cut, faults>>
     \/ Fault /\ cut' = cut \cup {Cur(s)} /\ UNCHANGED notified
  /\ Continue(s)
  /\ UNCHANGED <<live, rows, link, vulns, policied, seen, backfill, overlap, starts>>

Finish(s) ==
  /\ pc[s] = "finish"
  /\ Goto(s, "done")
  /\ UNCHANGED <<live, rows, link, vulns, effects, seen, backfill, history, bounds>>

\* Deadline, crash or shutdown; the queue runs the handler again later.
Interrupt(s) ==
  /\ Scanning(s)
  /\ Fault
  /\ pc' = [pc EXCEPT ![s] = "idle"]
  /\ at' = [at EXCEPT ![s] = 1]
  /\ seen' = [seen EXCEPT ![s] = 0]
  /\ cut' = IF pc[s] \in {"insert", "finish"} THEN cut ELSE cut \cup {Cur(s)}
  /\ UNCHANGED <<live, rows, link, vulns, effects, backfill, overlap, starts>>

-----------------------------------------------------------------------------
(* BackfillVulnerabilities, in a goroutine of every worker that starts.    *)

StartBackfill(b) ==
  /\ bpc[b] = "idle" /\ starts < MaxStarts
  /\ starts' = starts + 1
  /\ bpc' = [bpc EXCEPT ![b] = "query"]
  /\ overlap' = (overlap \/ (\E s \in Scans : Scanning(s)) \/ \E c \in Backfills : Busy(c))
  /\ UNCHANGED <<live, rows, link, vulns, effects, handler, batch, bat, progress, touched, bseen, cut, faults>>

Unlinked == {i \in DOMAIN table : link[table[i]] = NoVuln}

\* WHERE vulnerability_id IS NULL ORDER BY created_at: positions in the table.
Ordered == {q \in SetToSeqs(Unlinked) : \A i, j \in DOMAIN q : i < j => q[i] < q[j]}

Page(q) == [i \in 1..(IF Len(q) < BatchSize THEN Len(q) ELSE BatchSize) |-> table[q[i]]]

\* LIMIT batchSize.  A row whose scan lost its project does not scan and ends
\* the whole backfill.
QueryBatch(b) ==
  /\ bpc[b] = "query"
  /\ \E q \in Ordered :
       IF \A i \in DOMAIN Page(q) : Alive(Page(q)[i])
         THEN /\ batch' = [batch EXCEPT ![b] = Page(q)]
              /\ bat' = [bat EXCEPT ![b] = 1]
              /\ progress' = [progress EXCEPT ![b] = FALSE]
              /\ bpc' = [bpc EXCEPT ![b] = IF q = <<>> THEN "recalc" ELSE "upsert"]
              /\ UNCHANGED touched
         ELSE /\ bpc' = [bpc EXCEPT ![b] = "idle"]
              /\ touched' = [touched EXCEPT ![b] = {}]
              /\ UNCHANGED <<batch, bat, progress>>
  /\ UNCHANGED <<live, rows, link, vulns, effects, handler, bseen, history, bounds>>

\* The locals of a backfill that is not in a batch any more.
DropBatch(b) == /\ batch' = [batch EXCEPT ![b] = <<>>]
                /\ bat' = [bat EXCEPT ![b] = 1]
                /\ progress' = [progress EXCEPT ![b] = FALSE]

\* Faulty: a full batch is always followed by another query.
NextItemNoStop(b, linked) ==
  IF bat[b] < Len(batch[b])
    THEN /\ bat' = [bat EXCEPT ![b] = @ + 1]
         /\ bpc' = [bpc EXCEPT ![b] = "upsert"]
         /\ progress' = [progress EXCEPT ![b] = @ \/ linked]
         /\ UNCHANGED batch
    ELSE /\ bpc' = [bpc EXCEPT ![b] = IF Len(batch[b]) < BatchSize
                                       THEN "recalc" ELSE "query"]
         /\ DropBatch(b)

\* A short batch is the last one, and so is one in which nothing was linked.
NextItem(b, linked) ==
  IF bat[b] < Len(batch[b])
    THEN /\ bat' = [bat EXCEPT ![b] = @ + 1]
         /\ bpc' = [bpc EXCEPT ![b] = "upsert"]
         /\ progress' = [progress EXCEPT ![b] = @ \/ linked]
         /\ UNCHANGED batch
    ELSE /\ bpc' = [bpc EXCEPT ![b] = IF Len(batch[b]) < BatchSize \/ ~ (progress[b] \/ linked)
                                       THEN "recalc" ELSE "query"]
         /\ DropBatch(b)

BackfillUpsert(b) ==
  /\ bpc[b] = "upsert"
  /\ Linkable(Item(b)) /\ Alive(Item(b))
  /\ Upsert(Item(b))
  /\ bpc' = [bpc EXCEPT ![b] = "link"]
  /\ UNCHANGED <<live, rows, link, effects, handler, batch, bat, progress, touched, bseen, history, bounds>>

\* No vuln_uid, or the Upsert or the link fails: continue with the next row.
BackfillSkip(b) ==
  /\ bpc[b] \in {"upsert", "link"}
  /\ \/ ~ (Linkable(Item(b)) /\ Alive(Item(b))) /\ UNCHANGED faults
     \/ Fault
  /\ NextItem(b, FALSE)
  /\ UNCHANGED <<live, rows, link, vulns, effects, handler, touched, bseen, history, starts>>

BackfillLink(b) ==
  /\ bpc[b] = "link"
  /\ Alive(Item(b))
  /\ link' = [link EXCEPT ![Item(b)] = UidOf[Item(b)]]
  /\ touched' = [touched EXCEPT ![b] = @ \cup {UidOf[Item(b)]}]
  /\ NextItem(b, TRUE)
  /\ UNCHANGED <<live, rows, vulns, effects, handler, bseen, history, bounds>>

\* The scores of the touched vulnerabilities, in no particular order.
BackfillRead(b) ==
  /\ bpc[b] = "recalc"
  /\ \E v \in touched[b] :
       LET n == Cardinality(ScannersOn(v))
       IN  /\ touched' = [touched EXCEPT ![b] = @ \ {v}]
           /\ IF n = 0 THEN UNCHANGED <<bseen, bpc>>
                       ELSE /\ bseen' = [bseen EXCEPT ![b] = <<v, n>>]
                            /\ bpc' = [bpc EXCEPT ![b] = "write"]
  /\ UNCHANGED <<live, rows, link, vulns, effects, handler, batch, bat, progress, history, bounds>>

BackfillWrite(b) ==
  LET v == bseen[b][1]
  IN  /\ bpc[b] = "write"
      /\ \/ score' = [score EXCEPT ![v] = IF count[v] > 0 THEN Confidence(bseen[b][2]) ELSE @]
            /\ UNCHANGED faults
         \/ Fault /\ UNCHANGED score
      /\ bpc' = [bpc EXCEPT ![b] = "recalc"]
      /\ bseen' = [bseen EXCEPT ![b] = <<NoVuln, 0>>]
      /\ UNCHANGED <<live, rows, link, count, coverage, effects, handler,
                     batch, bat, progress, touched, history, starts>>

BackfillReturns(b) ==
  /\ bpc[b] = "recalc" /\ touched[b] = {}
  /\ bpc' = [bpc EXCEPT ![b] = "idle"]
  /\ UNCHANGED <<live, rows, link, vulns, effects, handler, batch, bat, progress, touched, bseen, history, bounds>>

BackfillDies(b) ==
  /\ Busy(b) /\ Fault
  /\ bpc' = [bpc EXCEPT ![b] = "idle"]
  /\ DropBatch(b)
  /\ touched' = [touched EXCEPT ![b] = {}]
  /\ bseen' = [bseen EXCEPT ![b] = <<NoVuln, 0>>]
  /\ UNCHANGED <<live, rows, link, vulns, effects, handler, history, starts>>

-----------------------------------------------------------------------------
(* DELETE FROM projects: vulnerabilities cascade, findings stay unlinked.  *)

DeleteProject(p) ==
  LET gone == {v \in Vulns : \E f \in Findings : UidOf[f] = v /\ ProjectOf[f] = p}
  IN  /\ p \in live
      /\ Cardinality(Projects \ live) < MaxDeletes
      /\ live' = live \ {p}
      /\ link' = [f \in Findings |-> IF link[f] \in gone THEN NoVuln ELSE link[f]]
      /\ count' = [v \in Vulns |-> IF v \in gone THEN 0 ELSE count[v]]
      /\ coverage' = [v \in Vulns |-> IF v \in gone THEN {} ELSE coverage[v]]
      /\ score' = [v \in Vulns |-> IF v \in gone THEN 0 ELSE score[v]]
      /\ UNCHANGED <<rows, effects, handler, backfill, history, bounds>>

-----------------------------------------------------------------------------
HandlerStep(s) ==
  \/ Insert(s) \/ InsertConflict(s) \/ InsertFails(s)
  \/ UpsertVuln(s) \/ LinkFinding(s) \/ LinkFails(s)
  \/ ReadScanners(s) \/ WriteScore(s) \/ RecalcFails(s)
  \/ ApplyPolicies(s) \/ Notify(s) \/ Finish(s)

BackfillStep(b) ==
  \/ QueryBatch(b) \/ BackfillUpsert(b) \/ BackfillSkip(b) \/ BackfillLink(b)
  \/ BackfillRead(b) \/ BackfillWrite(b) \/ BackfillReturns(b)

Next ==
  \/ \E s \in Scans : Begin(s) \/ HandlerStep(s) \/ Interrupt(s)
  \/ \E b \in Backfills : StartBackfill(b) \/ BackfillStep(b) \/ BackfillDies(b)
  \/ \E p \in Projects : DeleteProject(p)

Spec == Init /\ [][Next]_vars

\* A goroutine that runs proceeds.
FairSpec == Spec /\ \A b \in Backfills : WF_vars(BackfillStep(b))
                 /\ \A s \in Scans : WF_vars(HandlerStep(s))

-----------------------------------------------------------------------------
(* Properties.                                                             *)

\* The aggregate columns of a vulnerability never fall behind the findings
\* linked to it: both writers upsert first and link second.
AggregatesCoverLinks ==
  \A v \in Vulns : /\ count[v] >= Cardinality(Links(v))
                   /\ ScannersOn(v) \subseteq coverage[v]

\* Between an Upsert of v and the link it is for.
Pending(v) == Cardinality({s \in Scans : pc[s] = "link" /\ UidOf[Cur(s)] = v /\ Alive(Cur(s))})
            + Cardinality({b \in Backfills : bpc[b] = "link" /\ UidOf[Item(b)] = v /\ Alive(Item(b))})

\* finding_count is exact, however many scans report the same findings, as
\* long as nothing failed and no backfill ran beside them.
CountIsExact ==
  faults = 0 /\ ~ overlap =>
    \A v \in Vulns : count[v] = Cardinality(Links(v)) + Pending(v)

\* The stored score never claims more scanners than the linked findings
\* have, although it is computed from a read another writer may outdate.
ConfidenceNeverOverstates ==
  \A v \in Vulns : score[v] # 0 => score[v] <= Confidence(Cardinality(ScannersOn(v)))

\* Retries and other scans of the same project never apply the policies to a
\* finding again (they would undo a user's triage), nor alert on it again.
EffectsAtMostOnce ==
  \A f \in Findings : policied[f] <= 1 /\ notified[f] <= 1

\* A row nobody is working on has been through every step, unless one was
\* lost to a fault, in which case nothing but the backfill's link repairs it.
StoredIsProcessed ==
  \A f \in Stored \ (InFlight \cup cut \cup ToSet(Legacy)) :
    /\ notified[f] = 1
    /\ f \notin hidden => policied[f] = 1
    /\ Linkable(f) /\ Alive(f) => link[f] = UidOf[f]

\* Every backfill ends, whatever it finds: a full batch of unlinkable rows
\* must not be fetched forever.
BackfillEnds == \A b \in Backfills : Busy(b) ~> ~ Busy(b)

\* "BackfillVulnerabilities processes all findings where vulnerability_id IS
\* NULL": once it returns, what is left unlinked is unlinkable, orphaned or
\* being ingested.
BackfillLinksAll ==
  [][\A b \in Backfills :
       Busy(b) /\ ~ Busy(b)' =>
         \A f \in Stored \ InFlight : Linkable(f) /\ Alive(f) => link[f] # NoVuln]_vars
=============================================================================
