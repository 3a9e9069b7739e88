-------------------------- MODULE FindingIngestProofs --------------------------
(***************************************************************************)
(* Theorems about FindingIngest, for any scans and findings, any number of *)
(* backfills and any number of faults and deletions.                       *)
(***************************************************************************)
EXTENDS FindingIngest, FiniteSetTheorems, SequenceTheorems, TLAPS

-----------------------------------------------------------------------------
(* The score.                                                              *)

LEMMA TimesGrows ==
  ASSUME NEW n \in Nat, NEW i \in Int, NEW j \in Int, i <= j PROVE n * i <= n * j
OBVIOUS

LEMMA QuotientIsBounded ==
  ASSUME NEW n \in Nat, n >= 2, NEW q \in Int, n * q <= 50 * (n - 1), 50 * (n - 1) < n * (q + 1)
  PROVE  q \in 0..50
<1>1. q <= 50
  <2> SUFFICES ASSUME q >= 51 PROVE FALSE
    OBVIOUS
  <2>1. n * 51 <= n * q
    BY TimesGrows
  <2> QED BY <2>1
<1>2. q >= 0
  <2> SUFFICES ASSUME q + 1 <= 0 PROVE FALSE
    OBVIOUS
  <2>1. n * (q + 1) <= n * 0
    BY TimesGrows
  <2> QED BY <2>1
<1> QED BY <1>1, <1>2

LEMMA QuotientGrows ==
  ASSUME NEW m \in Nat, NEW n \in Nat, m >= 2, m <= n, NEW q \in Int, NEW r \in Int,
         m * q <= 50 * (m - 1), 50 * (n - 1) < n * (r + 1)
  PROVE  q <= r
<1> SUFFICES ASSUME r + 1 <= q PROVE FALSE
  OBVIOUS
<1>1. n * (r + 1) <= n * q
  BY TimesGrows
<1>2. 50 * (n - 1) < n * q
  BY <1>1
<1>3. m * (50 - q) = 50 * m - m * q /\ n * (50 - q) = 50 * n - n * q
  OBVIOUS
<1>4. m * (50 - q) >= 50
  BY <1>3
<1>5. 50 - q > 0
  <2> SUFFICES ASSUME 50 - q <= 0 PROVE FALSE
    OBVIOUS
  <2>1. m * (50 - q) <= m * 0
    BY TimesGrows
  <2> QED BY <1>4, <2>1
<1>6. m * (50 - q) <= n * (50 - q)
  <2>1. (50 - q) * m <= (50 - q) * n
    BY <1>5, TimesGrows
  <2> QED BY <2>1
<1> QED BY <1>2, <1>3, <1>4, <1>6

\* Confidence stays a percentage, and does not fall as scanners are added
\* (RecalcConfidence).
LEMMA ConfidenceIsPercentage ==
  ASSUME NEW n \in Nat PROVE Confidence(n) \in 50..100
<1>1. CASE n < 2
  BY <1>1 DEF Confidence
<1>2. CASE n >= 2
  <2>1. PICK q \in Int : q = (50 * (n - 1)) \div n
    BY <1>2
  <2>2. n * q <= 50 * (n - 1) /\ 50 * (n - 1) < n * (q + 1)
    BY <1>2, <2>1
  <2>3. Confidence(n) = 50 + q
    BY <1>2, <2>1 DEF Confidence
  <2> QED BY <1>2, <2>2, <2>3, QuotientIsBounded
<1> QED BY <1>1, <1>2

LEMMA ConfidenceGrows ==
  ASSUME NEW m \in Nat, NEW n \in Nat, m <= n
  PROVE  Confidence(m) <= Confidence(n)
<1>1. CASE m < 2
  <2>1. Confidence(m) = 50
    BY <1>1 DEF Confidence
  <2>2. Confidence(n) \in 50..100
    BY ConfidenceIsPercentage
  <2> QED BY <2>1, <2>2
<1>2. CASE m >= 2
  <2>1. PICK q \in Int : q = (50 * (m - 1)) \div m
    BY <1>2
  <2>2. PICK r \in Int : r = (50 * (n - 1)) \div n
    BY <1>2
  <2>3. m * q <= 50 * (m - 1)
    BY <1>2, <2>1
  <2>4. 50 * (n - 1) < n * (r + 1)
    BY <1>2, <2>2
  <2>5. Confidence(m) = 50 + q /\ Confidence(n) = 50 + r
    BY <1>2, <2>1, <2>2 DEF Confidence
  <2> QED BY <1>2, <2>3, <2>4, <2>5, QuotientGrows
<1> QED BY <1>1, <1>2

USE ConstantsAssumption

Scanners == {ScannerOf[f] : f \in Findings}

\* A handler is processing a row it has inserted.
Working(s) == pc[s] \notin Idle \cup {"insert", "finish"}

-----------------------------------------------------------------------------
(* The inductive invariant.                                                *)

\* Types of the locals and histories TypeOK leaves out.
LocalsOK ==
  /\ at \in [Scans -> Nat \ {0}] /\ seen \in [Scans -> Nat]
  /\ \A s \in Scans : pc[s] \in Idle \cup {"finish"} => at[s] = 1
  /\ batch \in [Backfills -> Seq(Findings)] /\ bat \in [Backfills -> Nat \ {0}]
  /\ progress \in [Backfills -> BOOLEAN]
  /\ touched \in [Backfills -> SUBSET Vulns]
  /\ bseen \in [Backfills -> (Vulns \cup {NoVuln}) \X Nat]
  /\ \A b \in Backfills : bpc[b] = "write" => bseen[b][1] \in Vulns
  /\ coverage \in [Vulns -> SUBSET Scanners]
  /\ policied \in [Findings -> Nat] /\ notified \in [Findings -> Nat]

\* Nothing has happened to a finding that is not stored.
UnstoredOK ==
  \A f \in Findings \ Stored : policied[f] = 0 /\ notified[f] = 0 /\ link[f] = NoVuln

\* A stored finding is in one handler's hands at most: the one that inserted it.
OneHandler ==
  /\ \A s \in Scans : Working(s) => Cur(s) \in Stored
  /\ \A s, t \in Scans : Working(s) /\ Working(t) /\ Cur(s) = Cur(t) => s = t

\* What has been done for the finding a handler is working on.
StageOK(s) ==
  LET f == Cur(s)
  IN  /\ pc[s] \in {"upsert", "link", "read", "write"} => Linkable(f)
      /\ pc[s] \in {"upsert", "link", "read", "write", "policies"} => policied[f] = 0
      /\ Working(s) => notified[f] = 0
      /\ pc[s] = "notify" /\ f \notin cut /\ f \notin hidden => policied[f] = 1
      /\ pc[s] \in {"read", "write", "policies", "notify"} /\ f \notin cut /\ Linkable(f) /\ Alive(f)
           => link[f] = UidOf[f]

Stages == \A s \in Scans : StageOK(s)

\* The vulnerabilities of a deleted project.
Gone(v) == \E f \in Findings : UidOf[f] = v /\ ~ Alive(f)

\* Links are those of the fingerprint, and fall with the project.
LinksOK ==
  /\ \A f \in Findings : link[f] \in {NoVuln, UidOf[f]}
  /\ \A f \in Findings : ~ Alive(f) => link[f] = NoVuln
  /\ \A v \in Vulns : Gone(v) => count[v] = 0 /\ score[v] = 0

\* A backfill's batch has no row twice, and what it links is linkable.
BatchOK(b) ==
  /\ \A i \in 1..Len(batch[b]) : batch[b][i] \in Stored
  /\ \A i, j \in 1..Len(batch[b]) : batch[b][i] = batch[b][j] => i = j
  /\ bpc[b] = "link" => Linkable(Item(b))

BatchesOK == \A b \in Backfills : BatchOK(b)

\* Coverage and count are ahead of the links by what is pending.
Ahead ==
  /\ \A v \in Vulns : count[v] >= Cardinality(Links(v)) + Pending(v)
  /\ \A v \in Vulns : ScannersOn(v) \subseteq coverage[v]
  /\ \A s \in Scans : pc[s] = "link" /\ Alive(Cur(s)) => ScannerOf[Cur(s)] \in coverage[UidOf[Cur(s)]]
  /\ \A b \in Backfills : bpc[b] = "link" /\ Alive(Item(b)) => ScannerOf[Item(b)] \in coverage[UidOf[Item(b)]]

\* As long as no backfill ran beside a handler, a backfill runs alone and both
\* link what is not linked.
Fresh(s)  == pc[s] \in {"upsert", "link"} => link[Cur(s)] = NoVuln
BFresh(b) == bpc[b] \in {"upsert", "link"} =>
               \A i \in bat[b]..Len(batch[b]) : link[batch[b][i]] = NoVuln

Apart ==
  ~ overlap =>
    /\ \A b \in Backfills : Busy(b) => \A s \in Scans : ~ Scanning(s)
    /\ \A b, c \in Backfills : Busy(b) /\ Busy(c) => b = c
    /\ \A s \in Scans : Fresh(s)
    /\ \A b \in Backfills : BFresh(b)

\* A score about to be written claims no more than the links, unless the
\* project is gone.
SeenOK ==
  /\ \A s \in Scans : pc[s] = "write" /\ Alive(Cur(s)) =>
       seen[s] <= Cardinality(ScannersOn(UidOf[Cur(s)]))
  /\ \A b \in Backfills : bpc[b] = "write" =>
       Gone(bseen[b][1]) \/ bseen[b][2] <= Cardinality(ScannersOn(bseen[b][1]))

IInv == /\ TypeOK /\ LocalsOK /\ UnstoredOK /\ OneHandler /\ Stages /\ LinksOK /\ BatchesOK
        /\ Ahead /\ Apart /\ CountIsExact /\ SeenOK
        /\ EffectsAtMostOnce /\ StoredIsProcessed /\ ConfidenceNeverOverstates

-----------------------------------------------------------------------------
(* Which steps change what.                                                *)

Handler(s)  == Begin(s) \/ HandlerStep(s) \/ Interrupt(s)
Backfill(b) == StartBackfill(b) \/ BackfillStep(b) \/ BackfillDies(b)

LEMMA OnlyInsertStores ==
  ASSUME [Next]_vars
  PROVE  UNCHANGED rows \/ \E s \in Scans : Insert(s)
<1>1. ASSUME NEW s \in Scans, Handler(s) PROVE UNCHANGED rows \/ Insert(s)
  BY <1>1 DEF Handler, HandlerStep, Begin, InsertConflict, InsertFails, UpsertVuln, LinkFinding, LinkFails,
     ReadScanners, WriteScore, RecalcFails, ApplyPolicies, Notify, Finish, Interrupt
<1>2. ASSUME NEW b \in Backfills, Backfill(b) PROVE UNCHANGED rows
  BY <1>2 DEF Backfill, BackfillStep, StartBackfill, QueryBatch, BackfillUpsert, BackfillSkip,
     BackfillLink, BackfillRead, BackfillWrite, BackfillReturns, BackfillDies
<1>3. ASSUME NEW p \in Projects, DeleteProject(p) PROVE UNCHANGED rows
  BY <1>3 DEF DeleteProject
<1> QED BY <1>1, <1>2, <1>3 DEF Next, Handler, Backfill, vars

LEMMA OnlyLinkersLink ==
  ASSUME [Next]_vars
  PROVE  \/ UNCHANGED link
         \/ \E s \in Scans : LinkFinding(s)
         \/ \E b \in Backfills : BackfillLink(b)
         \/ \E p \in Projects : DeleteProject(p)
<1>1. ASSUME NEW s \in Scans, Handler(s) PROVE UNCHANGED link \/ LinkFinding(s)
  BY <1>1 DEF Handler, HandlerStep, Begin, Insert, InsertConflict, InsertFails, UpsertVuln, LinkFails,
     ReadScanners, WriteScore, RecalcFails, ApplyPolicies, Notify, Finish, Interrupt
<1>2. ASSUME NEW b \in Backfills, Backfill(b) PROVE UNCHANGED link \/ BackfillLink(b)
  BY <1>2 DEF Backfill, BackfillStep, StartBackfill, QueryBatch, BackfillUpsert, BackfillSkip,
     BackfillRead, BackfillWrite, BackfillReturns, BackfillDies
<1> QED BY <1>1, <1>2 DEF Next, Handler, Backfill, vars

LEMMA OnlyUpsertsCount ==
  ASSUME [Next]_vars
  PROVE  \/ UNCHANGED <<count, coverage>>
         \/ \E s \in Scans : UpsertVuln(s)
         \/ \E b \in Backfills : BackfillUpsert(b)
         \/ \E p \in Projects : DeleteProject(p)
<1>1. ASSUME NEW s \in Scans, Handler(s) PROVE UNCHANGED <<count, coverage>> \/ UpsertVuln(s)
  BY <1>1 DEF Handler, HandlerStep, Begin, Insert, InsertConflict, InsertFails, LinkFinding, LinkFails,
     ReadScanners, WriteScore, RecalcFails, ApplyPolicies, Notify, Finish, Interrupt, vulns
<1>2. ASSUME NEW b \in Backfills, Backfill(b) PROVE UNCHANGED <<count, coverage>> \/ BackfillUpsert(b)
  BY <1>2 DEF Backfill, BackfillStep, StartBackfill, QueryBatch, BackfillSkip,
     BackfillLink, BackfillRead, BackfillWrite, BackfillReturns, BackfillDies, vulns
<1> QED BY <1>1, <1>2 DEF Next, Handler, Backfill, vars, vulns

LEMMA OnlyWritesScore ==
  ASSUME [Next]_vars
  PROVE  \/ UNCHANGED score
         \/ \E s \in Scans : WriteScore(s)
         \/ \E b \in Backfills : BackfillWrite(b)
         \/ \E p \in Projects : DeleteProject(p)
<1>1. ASSUME NEW s \in Scans, Handler(s) PROVE UNCHANGED score \/ WriteScore(s)
  BY <1>1 DEF Handler, HandlerStep, Begin, Insert, InsertConflict, InsertFails, UpsertVuln, Upsert, LinkFinding,
     LinkFails, ReadScanners, RecalcFails, ApplyPolicies, Notify, Finish, Interrupt, vulns
<1>2. ASSUME NEW b \in Backfills, Backfill(b) PROVE UNCHANGED score \/ BackfillWrite(b)
  BY <1>2 DEF Backfill, BackfillStep, StartBackfill, QueryBatch, BackfillUpsert, Upsert, BackfillSkip,
     BackfillLink, BackfillRead, BackfillReturns, BackfillDies, vulns
<1> QED BY <1>1, <1>2 DEF Next, Handler, Backfill, vars, vulns

LEMMA HandlerKeeps ==
  ASSUME NEW s \in Scans, Handler(s) PROVE UNCHANGED <<live, backfill>>
BY DEF Handler, HandlerStep, Begin, Insert, InsertConflict, InsertFails, UpsertVuln, LinkFinding, LinkFails,
   ReadScanners, WriteScore, RecalcFails, ApplyPolicies, Notify, Finish, Interrupt

LEMMA BackfillKeeps ==
  ASSUME NEW b \in Backfills, Backfill(b) PROVE UNCHANGED <<live, rows, effects, handler, cut>>
BY DEF Backfill, BackfillStep, StartBackfill, QueryBatch, BackfillUpsert, BackfillSkip,
   BackfillLink, BackfillRead, BackfillWrite, BackfillReturns, BackfillDies, history

LEMMA DeletionKeeps ==
  ASSUME NEW p \in Projects, DeleteProject(p)
  PROVE  UNCHANGED <<rows, effects, handler, backfill, history, bounds>>
BY DEF DeleteProject

LEMMA ThreeKinds ==
  ASSUME [Next]_vars
  PROVE  \/ UNCHANGED vars
         \/ \E s \in Scans : Handler(s)
         \/ \E b \in Backfills : Backfill(b)
         \/ \E p \in Projects : DeleteProject(p)
BY DEF Next, Handler, Backfill

-----------------------------------------------------------------------------
(* Types.                                                                  *)

LEMMA LinksAreFinite ==
  ASSUME NEW v
  PROVE  /\ IsFiniteSet(Links(v)) /\ Cardinality(Links(v)) \in Nat
         /\ IsFiniteSet(ScannersOn(v)) /\ Cardinality(ScannersOn(v)) \in Nat
<1>1. IsFiniteSet(Links(v)) /\ Cardinality(Links(v)) \in Nat
  <2>1. Links(v) \subseteq Findings
    BY DEF Links
  <2> QED BY <2>1, FS_Subset, FS_CardinalityType
<1>2. IsFiniteSet(ScannersOn(v))
  <2> DEFINE sc == [f \in Links(v) |-> ScannerOf[f]]
  <2>1. sc \in Surjection(Links(v), ScannersOn(v))
    BY DEF Surjection, ScannersOn
  <2> QED BY <1>1, <2>1, FS_Surjection
<1> QED BY <1>1, <1>2, FS_CardinalityType

\* The finding a handler is at.
LEMMA CurIsFinding ==
  ASSUME TypeOK, NEW s \in Scans, pc[s] \notin Idle \cup {"finish"}
  PROVE  Cur(s) \in Findings
<1>1. at[s] \in 1..Len(Parsed[s]) /\ Parsed[s] \in Seq(Findings)
  BY DEF TypeOK
<1> QED BY <1>1, ElementOfSeq DEF Cur

LEMMA ItemIsFinding ==
  ASSUME TypeOK, LocalsOK, NEW b \in Backfills, bpc[b] \in {"upsert", "link"}
  PROVE  Item(b) \in Findings
<1>1. bat[b] \in 1..Len(batch[b]) /\ batch[b] \in Seq(Findings)
  BY DEF TypeOK, LocalsOK
<1> QED BY <1>1, ElementOfSeq DEF Item

\* A handler goes on with its finding, or to the next one, or stops.
Stays(s) ==
  /\ pc[s] \notin Idle \cup {"finish"}
  /\ at' = at
  /\ \E l \in HandlerPC \ (Idle \cup {"insert", "finish"}) : pc' = [pc EXCEPT ![s] = l]
Advances(s) ==
  /\ pc[s] \notin Idle \cup {"finish"}
  /\ at[s] < Len(Parsed[s])
  /\ at' = [at EXCEPT ![s] = @ + 1] /\ pc' = [pc EXCEPT ![s] = "insert"]
Ends(s) ==
  /\ at' = [at EXCEPT ![s] = 1]
  /\ \E l \in Idle \cup {"finish"} : pc' = [pc EXCEPT ![s] = l]
Starts(s) ==
  /\ pc[s] = "idle" /\ at' = at /\ Parsed[s] # <<>>
  /\ pc' = [pc EXCEPT ![s] = "insert"]

LEMMA HandlerMoves ==
  ASSUME TypeOK, LocalsOK, NEW s \in Scans, Handler(s)
  PROVE  /\ Stays(s) \/ Advances(s) \/ Ends(s) \/ Starts(s)
         /\ seen' = [seen EXCEPT ![s] = seen'[s]] /\ seen'[s] \in Nat
<1>1. ASSUME Continue(s), pc[s] \notin Idle \cup {"finish"} PROVE Advances(s) \/ Ends(s)
  BY <1>1 DEF Continue, Advances, Ends
<1>2. ASSUME AfterLink(s), pc[s] \notin Idle \cup {"finish"} PROVE Stays(s)
  <2>1. PICK l \in {"notify", "policies"} : pc' = [pc EXCEPT ![s] = l] /\ at' = at
    BY <1>2 DEF AfterLink, Goto
  <2>2. l \in HandlerPC \ (Idle \cup {"insert", "finish"})
    BY DEF HandlerPC, Idle
  <2> QED BY <1>2, <2>1, <2>2 DEF Stays
<1>3. CASE Begin(s)
  BY <1>3 DEF Begin, Goto, Starts, Ends, LocalsOK, Idle
<1>4. CASE Insert(s)
  <2>1. PICK l \in {"upsert", "notify", "policies"} : pc' = [pc EXCEPT ![s] = l] /\ at' = at
    BY <1>4 DEF Insert, Goto
  <2>2. l \in HandlerPC \ (Idle \cup {"insert", "finish"})
    BY DEF HandlerPC, Idle
  <2> QED BY <1>4, <2>1, <2>2 DEF Insert, Stays, Idle, LocalsOK
<1>5. CASE InsertConflict(s) \/ InsertFails(s)
  BY <1>1, <1>5 DEF InsertConflict, InsertFails, Idle, LocalsOK
<1>6. CASE UpsertVuln(s) \/ LinkFinding(s)
  BY <1>6 DEF UpsertVuln, LinkFinding, Goto, Stays, Idle, HandlerPC, LocalsOK
<1>7. CASE LinkFails(s)
  <2>1. CASE pc[s] = "upsert"
    BY <1>2, <1>7, <2>1 DEF LinkFails, Idle, LocalsOK
  <2>2. CASE pc[s] = "link"
    BY <1>7, <2>2 DEF LinkFails, Goto, Stays, Idle, HandlerPC, LocalsOK
  <2> QED BY <1>7, <2>1, <2>2 DEF LinkFails
<1>8. CASE ReadScanners(s)
  <2> DEFINE n == Cardinality(ScannersOn(UidOf[Cur(s)]))
  <2>1. n \in Nat
    BY LinksAreFinite
  <2>2. CASE n = 0
    BY <1>2, <1>8, <2>2 DEF ReadScanners, Idle, LocalsOK
  <2>3. CASE n # 0
    BY <1>8, <2>1, <2>3 DEF ReadScanners, Goto, Stays, Idle, HandlerPC, LocalsOK
  <2> QED BY <2>2, <2>3
<1>9. CASE WriteScore(s) \/ RecalcFails(s)
  BY <1>2, <1>9 DEF WriteScore, RecalcFails, Idle, LocalsOK
<1>10. CASE ApplyPolicies(s)
  BY <1>10 DEF ApplyPolicies, Goto, Stays, Idle, HandlerPC, LocalsOK
<1>11. CASE Notify(s)
  BY <1>1, <1>11 DEF Notify, Idle, LocalsOK
<1>12. CASE Finish(s) \/ Interrupt(s)
  BY <1>12 DEF Finish, Interrupt, Goto, Ends, Idle, LocalsOK
<1> QED
  BY <1>3, <1>4, <1>5, <1>6, <1>7, <1>8, <1>9, <1>10, <1>11, <1>12 DEF Handler, HandlerStep

\* A backfill takes up its row, goes on to the next one, drops its batch, takes
\* a new one, or is elsewhere.
TakesUp(b) ==
  /\ bpc[b] = "upsert" /\ Linkable(Item(b)) /\ Alive(Item(b))
  /\ bpc' = [bpc EXCEPT ![b] = "link"]
  /\ UNCHANGED <<batch, bat, progress, touched, bseen>>
NextRow(b) ==
  /\ bpc[b] \in {"upsert", "link"} /\ bat[b] < Len(batch[b])
  /\ bat' = [bat EXCEPT ![b] = @ + 1] /\ batch' = batch
  /\ bpc' = [bpc EXCEPT ![b] = "upsert"]
Drops(b) ==
  /\ batch' = [batch EXCEPT ![b] = <<>>] /\ bat' = [bat EXCEPT ![b] = 1]
  /\ \E l \in {"idle", "query", "recalc"} : bpc' = [bpc EXCEPT ![b] = l]
TakesBatch(b) ==
  /\ Busy(b)
  /\ \E q \in Ordered :
       /\ batch' = [batch EXCEPT ![b] = Page(q)] /\ bat' = [bat EXCEPT ![b] = 1]
       /\ bpc' = [bpc EXCEPT ![b] = IF q = <<>> THEN "recalc" ELSE "upsert"]
  /\ UNCHANGED link
Turns(b) ==
  /\ batch' = batch /\ bat' = bat
  /\ \E l \in {"idle", "query", "recalc", "write"} : bpc' = [bpc EXCEPT ![b] = l]

LEMMA NextItemMoves ==
  ASSUME NEW b \in Backfills, NEW linked \in BOOLEAN, NextItem(b, linked), bpc[b] \in {"upsert", "link"}
  PROVE  NextRow(b) \/ Drops(b)
BY DEF NextItem, NextRow, Drops, DropBatch

LEMMA BackfillMoves ==
  ASSUME TypeOK, NEW b \in Backfills, Backfill(b)
  PROVE  TakesUp(b) \/ NextRow(b) \/ Drops(b) \/ TakesBatch(b) \/ Turns(b)
<1>1. CASE StartBackfill(b) \/ BackfillReturns(b) \/ BackfillWrite(b)
  BY <1>1 DEF StartBackfill, BackfillReturns, BackfillWrite, Turns
<1>2. CASE QueryBatch(b)
  <2>1. PICK q \in Ordered :
          \/ /\ batch' = [batch EXCEPT ![b] = Page(q)] /\ bat' = [bat EXCEPT ![b] = 1]
             /\ bpc' = [bpc EXCEPT ![b] = IF q = <<>> THEN "recalc" ELSE "upsert"]
          \/ bpc' = [bpc EXCEPT ![b] = "idle"] /\ UNCHANGED <<batch, bat>>
    BY <1>2 DEF QueryBatch
  <2>2. UNCHANGED link /\ Busy(b)
    BY <1>2 DEF QueryBatch, Busy
  <2> QED BY <2>1, <2>2 DEF TakesBatch, Turns
<1>3. CASE BackfillUpsert(b)
  BY <1>3 DEF BackfillUpsert, TakesUp
<1>4. CASE BackfillSkip(b) \/ BackfillLink(b)
  BY <1>4, NextItemMoves DEF BackfillSkip, BackfillLink
<1>5. CASE BackfillRead(b)
  <2>1. UNCHANGED <<batch, bat>> /\ bpc[b] = "recalc"
    BY <1>5 DEF BackfillRead
  <2>2. bpc' = bpc \/ bpc' = [bpc EXCEPT ![b] = "write"]
    BY <1>5 DEF BackfillRead
  <2>3. bpc = [bpc EXCEPT ![b] = "recalc"]
    BY <2>1 DEF TypeOK
  <2> QED BY <2>1, <2>2, <2>3 DEF Turns
<1>6. CASE BackfillDies(b)
  BY <1>6 DEF BackfillDies, DropBatch, Drops
<1> QED BY <1>1, <1>2, <1>3, <1>4, <1>5, <1>6 DEF Backfill, BackfillStep

\* A page of unlinked rows (QueryBatch).
LEMMA PageOfUnlinked ==
  ASSUME TypeOK, NEW q \in Ordered
  PROVE  /\ Page(q) \in Seq(Findings) /\ Len(Page(q)) <= BatchSize
         /\ q # <<>> => Len(Page(q)) > 0
         /\ \A i \in 1..Len(Page(q)) : Page(q)[i] \in Stored /\ link[Page(q)[i]] = NoVuln
         /\ \A i, j \in 1..Len(Page(q)) : Page(q)[i] = Page(q)[j] => i = j
<1> DEFINE m == IF Len(q) < BatchSize THEN Len(q) ELSE BatchSize
<1>1. Unlinked \subseteq 1..Len(table) /\ Len(table) \in Nat
  BY LenProperties DEF Unlinked, TypeOK
<1>2. IsFiniteSet(Unlinked) /\ Cardinality(Unlinked) \in Nat
  <2>1. IsFiniteSet(1..Len(table))
    BY <1>1, FS_Interval
  <2> QED BY <1>1, <2>1, FS_Subset, FS_CardinalityType
<1>3. /\ q \in [1..Cardinality(Unlinked) -> Unlinked]
      /\ \A i, j \in 1..Cardinality(Unlinked) : i # j => q[i] # q[j]
  BY DEF Ordered, SetToSeqs
<1>4. q \in Seq(Unlinked) /\ Len(q) = Cardinality(Unlinked)
  BY <1>2, <1>3, LenProperties
<1>5. m \in Nat /\ m <= BatchSize /\ m <= Len(q) /\ Page(q) = [i \in 1..m |-> table[q[i]]]
  BY <1>2, <1>4 DEF Page
<1>6. \A i \in 1..m : q[i] \in Unlinked
  BY <1>2, <1>3, <1>4, <1>5
<1>7. \A i \in 1..m : table[q[i]] \in Findings /\ table[q[i]] \in Stored /\ link[table[q[i]]] = NoVuln
  BY <1>1, <1>6, ElementOfSeq DEF Unlinked, TypeOK, Stored, ToSet
<1> HIDE DEF m
<1>8. Page(q) \in Seq(Findings) /\ Len(Page(q)) = m
  BY <1>5, <1>7, LenProperties
<1>9. ASSUME NEW i \in 1..m, NEW j \in 1..m, Page(q)[i] = Page(q)[j] PROVE i = j
  <2>1. table[q[i]] = table[q[j]] /\ q[i] \in DOMAIN table /\ q[j] \in DOMAIN table
    BY <1>5, <1>6, <1>9 DEF Unlinked
  <2>2. q[i] = q[j]
    BY <2>1 DEF TypeOK, IsInjective
  <2> QED BY <1>2, <1>3, <1>4, <1>5, <2>2
<1>10. q # <<>> => m > 0
  BY <1>2, <1>4, EmptySeq DEF m
<1> QED BY <1>5, <1>7, <1>8, <1>9, <1>10

RowTypes ==
  /\ live \subseteq Projects
  /\ table \in Seq(Findings) /\ hidden \subseteq ToSet(table) /\ IsInjective(table)
  /\ link \in [Findings -> Vulns \cup {NoVuln}]
  /\ policied \in [Findings -> Nat] /\ notified \in [Findings -> Nat]
VulnTypes ==
  /\ count \in [Vulns -> Nat] /\ score \in [Vulns -> 0..100]
  /\ coverage \in [Vulns -> SUBSET Scanners]
HandlerTypes ==
  /\ pc \in [Scans -> HandlerPC] /\ at \in [Scans -> Nat \ {0}] /\ seen \in [Scans -> Nat]
  /\ \A s \in Scans : IF pc[s] \in Idle \cup {"finish"} THEN at[s] = 1 ELSE at[s] \in 1..Len(Parsed[s])
BatchTypes ==
  /\ bpc \in [Backfills -> BackfillPC]
  /\ batch \in [Backfills -> Seq(Findings)] /\ bat \in [Backfills -> Nat \ {0}]
  /\ \A b \in Backfills :
       /\ bpc[b] \in {"upsert", "link"} => bat[b] \in 1..Len(batch[b])
       /\ Len(batch[b]) <= BatchSize
RoundTypes ==
  /\ progress \in [Backfills -> BOOLEAN] /\ touched \in [Backfills -> SUBSET Vulns]
  /\ bseen \in [Backfills -> (Vulns \cup {NoVuln}) \X Nat]
  /\ \A b \in Backfills : bpc[b] = "write" => bseen[b][1] \in Vulns
BoundTypes == faults \in 0..MaxFaults /\ starts \in 0..MaxStarts

LEMMA TypesSplit ==
  TypeOK /\ LocalsOK <=> RowTypes /\ VulnTypes /\ HandlerTypes /\ BatchTypes /\ RoundTypes /\ BoundTypes
<1>1. TypeOK /\ LocalsOK => RowTypes /\ VulnTypes /\ BoundTypes
  BY DEF TypeOK, LocalsOK, RowTypes, VulnTypes, BoundTypes
<1>2. TypeOK /\ LocalsOK => HandlerTypes
  BY DEF TypeOK, LocalsOK, HandlerTypes
<1>3. TypeOK /\ LocalsOK => BatchTypes /\ RoundTypes
  BY DEF TypeOK, LocalsOK, BatchTypes, RoundTypes
<1>4. RowTypes /\ VulnTypes /\ HandlerTypes /\ BatchTypes /\ RoundTypes /\ BoundTypes => LocalsOK
  BY DEF LocalsOK, RowTypes, VulnTypes, HandlerTypes, BatchTypes, RoundTypes
<1>5. RowTypes /\ VulnTypes /\ HandlerTypes /\ BatchTypes /\ RoundTypes /\ BoundTypes => TypeOK
  BY DEF TypeOK, RowTypes, VulnTypes, HandlerTypes, BatchTypes, RoundTypes, BoundTypes, Scanners
<1> QED BY <1>1, <1>2, <1>3, <1>4, <1>5

LEMMA StepHandlerTypes == ASSUME TypeOK, LocalsOK, [Next]_vars PROVE HandlerTypes'
<1>1. HandlerTypes
  BY TypesSplit
<1>2. CASE UNCHANGED handler
  BY <1>1, <1>2 DEF handler, HandlerTypes
<1>3. ASSUME NEW s \in Scans, Handler(s) PROVE HandlerTypes'
  <2>1. seen' \in [Scans -> Nat]
    BY <1>3, HandlerMoves DEF LocalsOK
  <2>2. Parsed[s] \in Seq(Findings) /\ Len(Parsed[s]) \in Nat /\ (Parsed[s] # <<>> => Len(Parsed[s]) > 0)
    BY LenProperties, EmptySeq
  <2>3. CASE Stays(s)
    BY <1>1, <2>1, <2>3 DEF Stays, HandlerTypes
  <2>4. CASE Advances(s)
    BY <1>1, <2>1, <2>2, <2>4 DEF Advances, HandlerTypes, HandlerPC, Idle
  <2>5. CASE Ends(s)
    <3>1. PICK l \in Idle \cup {"finish"} : pc' = [pc EXCEPT ![s] = l]
      BY <2>5 DEF Ends
    <3>2. l \in HandlerPC
      BY DEF HandlerPC, Idle
    <3> QED BY <1>1, <2>1, <2>5, <3>1, <3>2 DEF Ends, HandlerTypes
  <2>6. CASE Starts(s)
    BY <1>1, <2>1, <2>2, <2>6 DEF Starts, HandlerTypes, HandlerPC, Idle
  <2> QED BY <1>3, <2>3, <2>4, <2>5, <2>6, HandlerMoves
<1> QED BY <1>2, <1>3, ThreeKinds, BackfillKeeps, DeletionKeeps DEF vars

LEMMA StepBatchTypes == ASSUME TypeOK, LocalsOK, [Next]_vars PROVE BatchTypes'
<1>1. BatchTypes
  BY TypesSplit
<1>2. CASE UNCHANGED backfill
  BY <1>1, <1>2 DEF backfill, BatchTypes
<1>3. ASSUME NEW b \in Backfills, Backfill(b) PROVE BatchTypes'
  <2>1. CASE TakesUp(b)
    BY <1>1, <2>1 DEF TakesUp, BatchTypes, BackfillPC
  <2>2. CASE NextRow(b)
    <3>1. Len(batch[b]) \in Nat
      BY <1>1, LenProperties DEF BatchTypes
    <3> QED BY <1>1, <2>2, <3>1 DEF NextRow, BatchTypes, BackfillPC
  <2>3. CASE Drops(b)
    <3>1. <<>> \in Seq(Findings) /\ Len(<<>>) = 0
      BY EmptySeq
    <3> QED BY <1>1, <2>3, <3>1 DEF Drops, BatchTypes, BackfillPC
  <2>4. CASE TakesBatch(b)
    <3>1. PICK q \in Ordered :
            /\ batch' = [batch EXCEPT ![b] = Page(q)] /\ bat' = [bat EXCEPT ![b] = 1]
            /\ bpc' = [bpc EXCEPT ![b] = IF q = <<>> THEN "recalc" ELSE "upsert"]
      BY <2>4 DEF TakesBatch
    <3>2. Page(q) \in Seq(Findings) /\ Len(Page(q)) <= BatchSize /\ (q # <<>> => Len(Page(q)) > 0)
      BY PageOfUnlinked
    <3>3. Len(Page(q)) \in Nat
      BY <3>2, LenProperties
    <3> QED BY <1>1, <3>1, <3>2, <3>3 DEF BatchTypes, BackfillPC
  <2>5. CASE Turns(b)
    BY <1>1, <2>5 DEF Turns, BatchTypes, BackfillPC
  <2> QED BY <1>3, <2>1, <2>2, <2>3, <2>4, <2>5, BackfillMoves
<1> QED BY <1>2, <1>3, ThreeKinds, HandlerKeeps, DeletionKeeps DEF vars

LEMMA StepRowTypes == ASSUME TypeOK, LocalsOK, [Next]_vars PROVE RowTypes'
<1>0. RowTypes
  BY TypesSplit
<1>1. live' \subseteq Projects
  <2>1. live' = live \/ \E p \in Projects : live' = live \ {p}
    BY ThreeKinds, HandlerKeeps, BackfillKeeps DEF vars, DeleteProject
  <2> QED BY <1>0, <2>1 DEF RowTypes
<1>2. table' \in Seq(Findings) /\ hidden' \subseteq ToSet(table)' /\ IsInjective(table)'
  <2>1. CASE UNCHANGED rows
    BY <1>0, <2>1 DEF rows, RowTypes
  <2>2. ASSUME NEW s \in Scans, Insert(s) PROVE table' \in Seq(Findings) /\ hidden' \subseteq ToSet(table)' /\ IsInjective(table)'
    <3>1. Cur(s) \in Findings /\ Cur(s) \notin Stored /\ table' = Append(table, Cur(s))
      BY <2>2, CurIsFinding DEF Insert, Idle
    <3>2. hidden' \subseteq hidden \cup {Cur(s)}
      BY <2>2 DEF Insert
    <3>3. /\ Len(table) \in Nat /\ table' \in Seq(Findings) /\ Len(table') = Len(table) + 1
          /\ \A i \in 1..Len(table) : table'[i] = table[i]
          /\ table'[Len(table) + 1] = Cur(s)
          /\ DOMAIN table = 1..Len(table) /\ DOMAIN table' = 1..Len(table) + 1
      BY <1>0, <3>1, AppendProperties, LenProperties DEF RowTypes
    <3>4. \A i \in 1..Len(table) : table[i] # Cur(s)
      BY <3>1, <3>3 DEF Stored, ToSet
    <3>5. IsInjective(table)'
      <4> SUFFICES ASSUME NEW i \in 1..Len(table) + 1, NEW j \in 1..Len(table) + 1, table'[i] = table'[j]
                   PROVE  i = j
        BY <3>3 DEF IsInjective
      <4>1. CASE i = Len(table) + 1 \/ j = Len(table) + 1
        BY <3>3, <3>4, <4>1
      <4>2. CASE i # Len(table) + 1 /\ j # Len(table) + 1
        <5>1. i \in DOMAIN table /\ j \in DOMAIN table /\ table[i] = table[j]
          BY <3>3, <4>2
        <5> QED BY <1>0, <5>1 DEF RowTypes, IsInjective
      <4> QED BY <4>1, <4>2
    <3>6. ToSet(table) \subseteq ToSet(table') /\ Cur(s) \in ToSet(table')
      <4>1. \A i \in DOMAIN table : i \in DOMAIN table' /\ table'[i] = table[i]
        BY <3>3
      <4>2. Len(table) + 1 \in DOMAIN table'
        BY <3>3
      <4> QED BY <3>3, <4>1, <4>2 DEF ToSet
    <3> QED BY <1>0, <3>2, <3>3, <3>5, <3>6 DEF RowTypes
  <2> QED BY <2>1, <2>2, OnlyInsertStores
<1>3. link' \in [Findings -> Vulns \cup {NoVuln}]
  <2>1. ASSUME NEW s \in Scans, LinkFinding(s) PROVE link' \in [Findings -> Vulns \cup {NoVuln}]
    <3>1. Cur(s) \in Findings
      BY <2>1, CurIsFinding DEF LinkFinding, Idle
    <3> QED BY <1>0, <2>1, <3>1 DEF LinkFinding, RowTypes
  <2>2. ASSUME NEW b \in Backfills, BackfillLink(b) PROVE link' \in [Findings -> Vulns \cup {NoVuln}]
    <3>1. Item(b) \in Findings
      BY <2>2, ItemIsFinding DEF BackfillLink
    <3> QED BY <1>0, <2>2, <3>1 DEF BackfillLink, RowTypes
  <2>3. ASSUME NEW p \in Projects, DeleteProject(p) PROVE link' \in [Findings -> Vulns \cup {NoVuln}]
    BY <1>0, <2>3 DEF DeleteProject, RowTypes
  <2> QED BY <1>0, <2>1, <2>2, <2>3, OnlyLinkersLink DEF RowTypes
<1>4. policied' \in [Findings -> Nat] /\ notified' \in [Findings -> Nat]
  <2>1. ASSUME NEW s \in Scans, Handler(s) PROVE policied' \in [Findings -> Nat] /\ notified' \in [Findings -> Nat]
    <3>1. \/ UNCHANGED effects
          \/ policied' = [policied EXCEPT ![Cur(s)] = @ + 1] /\ UNCHANGED notified
          \/ notified' = [notified EXCEPT ![Cur(s)] = @ + 1] /\ UNCHANGED policied
      BY <2>1 DEF Handler, HandlerStep, Begin, Insert, InsertConflict, InsertFails, UpsertVuln, LinkFinding,
         LinkFails, ReadScanners, WriteScore, RecalcFails, ApplyPolicies, Notify, Finish, Interrupt, effects
    <3>2. policied \in [Findings -> Nat] /\ notified \in [Findings -> Nat]
      BY <1>0 DEF RowTypes
    <3>3. CASE Cur(s) \in Findings
      <4>1. CASE UNCHANGED effects
        BY <3>2, <4>1 DEF effects
      <4>2. CASE policied' = [policied EXCEPT ![Cur(s)] = @ + 1] /\ UNCHANGED notified
        BY <3>2, <3>3, <4>2
      <4>3. CASE notified' = [notified EXCEPT ![Cur(s)] = @ + 1] /\ UNCHANGED policied
        BY <3>2, <3>3, <4>3
      <4> QED BY <3>1, <4>1, <4>2, <4>3
    <3>4. CASE Cur(s) \notin Findings
      BY <3>1, <3>2, <3>4 DEF effects
    <3> QED BY <3>3, <3>4
  <2> QED BY <1>0, <2>1, ThreeKinds, BackfillKeeps, DeletionKeeps DEF vars, RowTypes, effects
<1> QED BY <1>1, <1>2, <1>3, <1>4 DEF RowTypes

LEMMA UpsertTypes ==
  ASSUME VulnTypes, NEW f \in Findings, Linkable(f), Upsert(f)
  PROVE  /\ UidOf[f] \in Vulns
         /\ count'[UidOf[f]] = count[UidOf[f]] + 1
         /\ coverage'[UidOf[f]] = coverage[UidOf[f]] \cup {ScannerOf[f]}
         /\ \A v \in Vulns \ {UidOf[f]} : count'[v] = count[v] /\ coverage'[v] = coverage[v]
         /\ VulnTypes'
<1>1. UidOf[f] \in Vulns /\ ScannerOf[f] \in Scanners
  BY DEF Linkable, Scanners
<1> QED BY <1>1 DEF Upsert, VulnTypes

LEMMA StepVulnTypes == ASSUME TypeOK, LocalsOK, Stages, [Next]_vars PROVE VulnTypes'
<1>0. VulnTypes
  BY TypesSplit
<1>1. ASSUME NEW s \in Scans, UpsertVuln(s) PROVE VulnTypes'
  <2>1. Cur(s) \in Findings /\ Linkable(Cur(s)) /\ Upsert(Cur(s))
    BY <1>1, CurIsFinding DEF UpsertVuln, Stages, StageOK, Idle
  <2> QED BY <1>0, <2>1, UpsertTypes
<1>2. ASSUME NEW b \in Backfills, BackfillUpsert(b) PROVE VulnTypes'
  <2>1. Item(b) \in Findings /\ Linkable(Item(b)) /\ Upsert(Item(b))
    BY <1>2, ItemIsFinding DEF BackfillUpsert
  <2> QED BY <1>0, <2>1, UpsertTypes
<1>3. ASSUME NEW p \in Projects, DeleteProject(p) PROVE VulnTypes'
  BY <1>0, <1>3 DEF DeleteProject, VulnTypes
<1>4. ASSUME NEW s \in Scans, WriteScore(s), UNCHANGED <<count, coverage>> PROVE VulnTypes'
  <2>1. Confidence(seen[s]) \in 0..100
    <3>1. seen[s] \in Nat
      BY DEF LocalsOK
    <3>2. Confidence(seen[s]) \in 50..100
      BY <3>1, ConfidenceIsPercentage
    <3> QED BY <3>2
  <2>2. Cur(s) \in Findings /\ Linkable(Cur(s))
    BY <1>4, CurIsFinding DEF WriteScore, Stages, StageOK, Idle
  <2>3. UidOf[Cur(s)] \in Vulns
    BY <2>2 DEF Linkable
  <2> QED BY <1>0, <1>4, <2>1, <2>3 DEF WriteScore, VulnTypes
<1>5. ASSUME NEW b \in Backfills, BackfillWrite(b), UNCHANGED <<count, coverage>> PROVE VulnTypes'
  <2>1. bseen[b][1] \in Vulns /\ bseen[b][2] \in Nat
    BY <1>5 DEF LocalsOK, BackfillWrite
  <2>2. Confidence(bseen[b][2]) \in 0..100
    <3>1. Confidence(bseen[b][2]) \in 50..100
      BY <2>1, ConfidenceIsPercentage
    <3> QED BY <3>1
  <2>3. \/ score' = [score EXCEPT ![bseen[b][1]] = IF count[bseen[b][1]] > 0 THEN Confidence(bseen[b][2]) ELSE @]
        \/ UNCHANGED score
    BY <1>5 DEF BackfillWrite
  <2>4. score \in [Vulns -> 0..100]
    BY <1>0 DEF VulnTypes
  <2>5. score' \in [Vulns -> 0..100]
    <3>1. CASE count[bseen[b][1]] > 0
      BY <2>1, <2>2, <2>3, <2>4, <3>1
    <3>2. CASE ~ (count[bseen[b][1]] > 0)
      BY <2>1, <2>3, <2>4, <3>2
    <3> QED BY <3>1, <3>2
  <2> QED BY <1>0, <1>5, <2>5 DEF VulnTypes
<1>6. ASSUME NEW s \in Scans, WriteScore(s) PROVE UNCHANGED <<count, coverage>>
  BY <1>6 DEF WriteScore
<1>7. ASSUME NEW b \in Backfills, BackfillWrite(b) PROVE UNCHANGED <<count, coverage>>
  BY <1>7 DEF BackfillWrite
<1>8. CASE UNCHANGED <<count, coverage, score>>
  BY <1>0, <1>8 DEF VulnTypes
<1> QED BY <1>1, <1>2, <1>3, <1>4, <1>5, <1>6, <1>7, <1>8, OnlyUpsertsCount, OnlyWritesScore

LEMMA StepRoundTypes == ASSUME TypeOK, LocalsOK, BatchesOK, [Next]_vars PROVE RoundTypes'
<1>0. RoundTypes
  BY TypesSplit
<1>1. ASSUME NEW b \in Backfills, Backfill(b) PROVE RoundTypes'
  <2>1. CASE UNCHANGED <<progress, touched, bseen>> /\ \E l \in BackfillPC \ {"write"} : bpc' = [bpc EXCEPT ![b] = l]
    BY <1>0, <2>1 DEF RoundTypes, TypeOK
  <2>2. CASE StartBackfill(b) \/ BackfillUpsert(b) \/ BackfillReturns(b)
    BY <2>1, <2>2 DEF StartBackfill, BackfillUpsert, BackfillReturns, BackfillPC
  <2>3. ASSUME NEW l \in BOOLEAN, NextItem(b, l)
        PROVE  /\ progress' \in [Backfills -> BOOLEAN]
               /\ \E m \in BackfillPC \ {"write"} : bpc' = [bpc EXCEPT ![b] = m]
    BY <1>0, <2>3 DEF NextItem, DropBatch, BackfillPC, RoundTypes
  <2>4. CASE QueryBatch(b)
    <3>1. PICK m \in BackfillPC \ {"write"} : bpc' = [bpc EXCEPT ![b] = m]
      BY <2>4 DEF QueryBatch, BackfillPC
    <3>2. progress' \in [Backfills -> BOOLEAN] /\ touched' \in [Backfills -> SUBSET Vulns] /\ bseen' = bseen
      BY <1>0, <2>4 DEF QueryBatch, RoundTypes
    <3> QED BY <1>0, <3>1, <3>2 DEF RoundTypes, TypeOK
  <2>5. CASE BackfillSkip(b)
    <3>1. NextItem(b, FALSE) /\ UNCHANGED <<touched, bseen>>
      BY <2>5 DEF BackfillSkip
    <3> QED BY <1>0, <2>3, <3>1 DEF RoundTypes, TypeOK
  <2>6. CASE BackfillLink(b)
    <3>1. NextItem(b, TRUE) /\ UNCHANGED bseen /\ touched' = [touched EXCEPT ![b] = @ \cup {UidOf[Item(b)]}]
      BY <2>6 DEF BackfillLink
    <3>2. UidOf[Item(b)] \in Vulns
      <4>1. Item(b) \in Findings /\ Linkable(Item(b))
        BY <2>6, ItemIsFinding DEF BackfillLink, BatchesOK, BatchOK
      <4> QED BY <4>1 DEF Linkable
    <3>3. touched' \in [Backfills -> SUBSET Vulns]
      BY <1>0, <3>1, <3>2 DEF RoundTypes
    <3> QED BY <1>0, <2>3, <3>1, <3>3 DEF RoundTypes, TypeOK
  <2>7. CASE BackfillRead(b)
    <3>1. PICK v \in touched[b] :
            /\ touched' = [touched EXCEPT ![b] = @ \ {v}]
            /\ \/ UNCHANGED <<bseen, bpc>>
               \/ /\ bseen' = [bseen EXCEPT ![b] = <<v, Cardinality(ScannersOn(v))>>]
                  /\ bpc' = [bpc EXCEPT ![b] = "write"]
      BY <2>7 DEF BackfillRead
    <3>2. v \in Vulns /\ Cardinality(ScannersOn(v)) \in Nat /\ progress' = progress
      BY <1>0, <2>7, LinksAreFinite DEF RoundTypes, BackfillRead
    <3>3. touched' \in [Backfills -> SUBSET Vulns]
      BY <1>0, <3>1 DEF RoundTypes
    <3>4. CASE UNCHANGED <<bseen, bpc>>
      BY <1>0, <3>2, <3>3, <3>4 DEF RoundTypes
    <3>5. CASE /\ bseen' = [bseen EXCEPT ![b] = <<v, Cardinality(ScannersOn(v))>>]
               /\ bpc' = [bpc EXCEPT ![b] = "write"]
      <4>1. bseen \in [Backfills -> (Vulns \cup {NoVuln}) \X Nat]
        BY <1>0 DEF RoundTypes
      <4>2. <<v, Cardinality(ScannersOn(v))>> \in (Vulns \cup {NoVuln}) \X Nat
        BY <3>2
      <4>3. bseen' \in [Backfills -> (Vulns \cup {NoVuln}) \X Nat]
        BY <3>5, <4>1, <4>2
      <4>4. bseen'[b][1] = v /\ \A c \in Backfills \ {b} : bseen'[c] = bseen[c] /\ bpc'[c] = bpc[c]
        BY <3>5, <4>1 DEF TypeOK
      <4> QED BY <1>0, <3>2, <3>3, <4>3, <4>4 DEF RoundTypes
    <3> QED BY <3>1, <3>4, <3>5
  <2>8. CASE BackfillWrite(b)
    <3>1. UNCHANGED <<progress, touched>> /\ bpc' = [bpc EXCEPT ![b] = "recalc"]
      BY <2>8 DEF BackfillWrite
    <3>2. bseen' \in [Backfills -> (Vulns \cup {NoVuln}) \X Nat] /\ \A c \in Backfills \ {b} : bseen'[c] = bseen[c]
      BY <1>0, <2>8 DEF BackfillWrite, RoundTypes
    <3> QED BY <1>0, <3>1, <3>2 DEF RoundTypes, TypeOK
  <2>9. CASE BackfillDies(b)
    <3>1. bpc' = [bpc EXCEPT ![b] = "idle"] /\ progress' = [progress EXCEPT ![b] = FALSE]
          /\ touched' = [touched EXCEPT ![b] = {}]
      BY <2>9 DEF BackfillDies, DropBatch
    <3>2. bseen' \in [Backfills -> (Vulns \cup {NoVuln}) \X Nat] /\ \A c \in Backfills \ {b} : bseen'[c] = bseen[c]
      BY <1>0, <2>9 DEF BackfillDies, RoundTypes
    <3> QED BY <1>0, <3>1, <3>2 DEF RoundTypes, TypeOK
  <2> QED BY <1>1, <2>2, <2>4, <2>5, <2>6, <2>7, <2>8, <2>9 DEF Backfill, BackfillStep
<1>2. CASE UNCHANGED backfill
  BY <1>0, <1>2 DEF backfill, RoundTypes
<1> QED BY <1>1, <1>2, ThreeKinds, HandlerKeeps, DeletionKeeps DEF vars

LEMMA StepBoundTypes == ASSUME TypeOK, [Next]_vars PROVE BoundTypes'
<1>1. faults' = faults \/ Fault
  <2>1. ASSUME NEW s \in Scans, Handler(s) PROVE faults' = faults \/ Fault
    BY <2>1 DEF Handler, HandlerStep, Begin, Insert, InsertConflict, InsertFails, UpsertVuln, LinkFinding,
       LinkFails, ReadScanners, WriteScore, RecalcFails, ApplyPolicies, Notify, Finish, Interrupt, bounds
  <2>2. ASSUME NEW b \in Backfills, Backfill(b) PROVE faults' = faults \/ Fault
    BY <2>2 DEF Backfill, BackfillStep, StartBackfill, QueryBatch, BackfillUpsert, BackfillSkip,
       BackfillLink, BackfillRead, BackfillWrite, BackfillReturns, BackfillDies, bounds
  <2> QED BY <2>1, <2>2, ThreeKinds, DeletionKeeps DEF vars, bounds
<1>2. starts' = starts \/ (starts < MaxStarts /\ starts' = starts + 1)
  <2>1. ASSUME NEW s \in Scans, Handler(s) PROVE starts' = starts
    BY <2>1 DEF Handler, HandlerStep, Begin, Insert, InsertConflict, InsertFails, UpsertVuln, LinkFinding,
       LinkFails, ReadScanners, WriteScore, RecalcFails, ApplyPolicies, Notify, Finish, Interrupt, bounds
  <2>2. ASSUME NEW b \in Backfills, Backfill(b) PROVE starts' = starts \/ (starts < MaxStarts /\ starts' = starts + 1)
    BY <2>2 DEF Backfill, BackfillStep, StartBackfill, QueryBatch, BackfillUpsert, BackfillSkip,
       BackfillLink, BackfillRead, BackfillWrite, BackfillReturns, BackfillDies, bounds
  <2> QED BY <2>1, <2>2, ThreeKinds, DeletionKeeps DEF vars, bounds
<1> QED BY <1>1, <1>2 DEF Fault, TypeOK, BoundTypes

-----------------------------------------------------------------------------
(* A finding in one handler's hands.                                       *)

\* Nothing of a finding changes.
Untouched(f) ==
  /\ Stored' \cap {f} = Stored \cap {f} /\ hidden' \cap {f} = hidden \cap {f} /\ cut' \cap {f} = cut \cap {f}
  /\ link'[f] = link[f] /\ policied'[f] = policied[f] /\ notified'[f] = notified[f]

\* Insert stores one row.
LEMMA InsertStores ==
  ASSUME TypeOK, NEW s \in Scans, Insert(s)
  PROVE  Stored' = Stored \cup {Cur(s)} /\ Cur(s) \in Findings \ Stored
<1>1. Cur(s) \in Findings /\ Cur(s) \notin Stored /\ table' = Append(table, Cur(s)) /\ table \in Seq(Findings)
  BY CurIsFinding DEF Insert, Idle, TypeOK
<1>2. /\ Len(table) \in Nat /\ \A i \in 1..Len(table) : table'[i] = table[i]
      /\ table'[Len(table) + 1] = Cur(s)
      /\ DOMAIN table = 1..Len(table) /\ DOMAIN table' = 1..Len(table) + 1
  BY <1>1, AppendProperties, LenProperties
<1>3. Stored' \subseteq Stored \cup {Cur(s)}
  <2> SUFFICES ASSUME NEW i \in 1..Len(table) + 1 PROVE table'[i] \in Stored \cup {Cur(s)}
    BY <1>2 DEF Stored, ToSet
  <2>1. i \in 1..Len(table) \/ i = Len(table) + 1
    BY <1>2
  <2> QED BY <1>2, <2>1 DEF Stored, ToSet
<1>4. Stored \subseteq Stored'
  <2> SUFFICES ASSUME NEW i \in 1..Len(table) PROVE table[i] \in Stored'
    BY <1>2 DEF Stored, ToSet
  <2>1. i \in DOMAIN table' /\ table[i] = table'[i]
    BY <1>2
  <2> QED BY <2>1 DEF Stored, ToSet
<1>5. Cur(s) \in Stored'
  <2>1. Len(table) + 1 \in DOMAIN table'
    BY <1>2
  <2> QED BY <1>2, <2>1 DEF Stored, ToSet
<1> QED BY <1>1, <1>3, <1>4, <1>5

\* A handler touches its finding alone, and only while it works on it.
LEMMA HandlerTouches ==
  ASSUME TypeOK, LocalsOK, NEW s \in Scans, Handler(s), NEW f \in Findings,
         Working(s) \/ Insert(s) => f # Cur(s)
  PROVE  Untouched(f)
<1>1. link \in [Findings -> Vulns \cup {NoVuln}] /\ policied \in [Findings -> Nat] /\ notified \in [Findings -> Nat]
  BY DEF TypeOK, LocalsOK
<1>2. CASE Insert(s)
  <2>1. hidden' \cap {f} = hidden \cap {f} /\ UNCHANGED <<link, policied, notified, cut>>
    BY <1>2 DEF Insert, effects, history
  <2> QED BY <1>2, <2>1, InsertStores DEF Untouched
<1>3. CASE UNCHANGED <<rows, link, effects, cut>>
  BY <1>3 DEF Untouched, Stored, rows, effects
<1>4. CASE Begin(s) \/ InsertConflict(s) \/ InsertFails(s) \/ UpsertVuln(s) \/ ReadScanners(s) \/ WriteScore(s)
           \/ RecalcFails(s) \/ Finish(s)
  BY <1>3, <1>4 DEF Begin, InsertConflict, InsertFails, UpsertVuln, ReadScanners, WriteScore, RecalcFails,
     Finish, history
<1>5. CASE LinkFinding(s)
  <2>1. f # Cur(s)
    BY <1>5 DEF LinkFinding, Working, Idle
  <2> QED BY <1>1, <1>5, <2>1 DEF LinkFinding, Untouched, Stored, rows, effects, history
<1>6. CASE LinkFails(s) \/ ApplyPolicies(s) \/ Notify(s)
  <2>1. f # Cur(s)
    BY <1>6 DEF LinkFails, ApplyPolicies, Notify, Working, Idle
  <2>2. cut' \cap {f} = cut \cap {f} /\ UNCHANGED <<rows, link>>
    BY <1>6, <2>1 DEF LinkFails, ApplyPolicies, Notify
  <2>3. policied'[f] = policied[f] /\ notified'[f] = notified[f]
    BY <1>1, <1>6, <2>1 DEF LinkFails, ApplyPolicies, Notify, effects
  <2> QED BY <2>2, <2>3 DEF Untouched, Stored, rows
<1>7. CASE Interrupt(s)
  <2>1. cut' \cap {f} = cut \cap {f}
    BY <1>7 DEF Interrupt, Working, Idle, Scanning
  <2> QED BY <1>7, <2>1 DEF Interrupt, Untouched, Stored, rows, effects
<1> QED BY <1>2, <1>4, <1>5, <1>6, <1>7 DEF Handler, HandlerStep

\* The other handlers stay where they are; the handler that moved keeps its
\* finding as long as it works on it.
LEMMA HandlersApart ==
  ASSUME TypeOK, LocalsOK, NEW s \in Scans, Handler(s)
  PROVE  /\ \A t \in Scans \ {s} : pc'[t] = pc[t] /\ Cur(t)' = Cur(t) /\ seen'[t] = seen[t]
         /\ Working(s)' => Cur(s)' = Cur(s) /\ pc[s] \notin Idle \cup {"finish"}
         /\ Working(s)' => Insert(s) \/ Working(s)
         /\ pc'[s] \in HandlerPC
<1>1. pc \in [Scans -> HandlerPC] /\ at \in [Scans -> Nat \ {0}] /\ seen \in [Scans -> Nat]
  BY DEF TypeOK, LocalsOK
<1>2. \A t \in Scans \ {s} : pc'[t] = pc[t] /\ at'[t] = at[t] /\ seen'[t] = seen[t]
  <2>1. seen' = [seen EXCEPT ![s] = seen'[s]] /\ (Stays(s) \/ Advances(s) \/ Ends(s) \/ Starts(s))
    BY HandlerMoves
  <2>2. \A t \in Scans \ {s} : seen'[t] = seen[t]
    BY <1>1, <2>1
  <2>3. \A t \in Scans \ {s} : pc'[t] = pc[t] /\ at'[t] = at[t]
    BY <1>1, <2>1 DEF Stays, Advances, Ends, Starts
  <2> QED BY <2>2, <2>3
<1>3. Working(s)' => Stays(s)
  BY <1>1, HandlerMoves DEF Advances, Ends, Starts, Working
<1>4. pc'[s] \in HandlerPC
  BY <1>1, StepHandlerTypes DEF HandlerTypes, Next, Handler
<1>5. ASSUME pc[s] = "insert", ~ Insert(s) PROVE ~ Working(s)'
  <2>1. Continue(s) \/ Interrupt(s)
    BY <1>5 DEF Handler, HandlerStep, Begin, InsertConflict, InsertFails, UpsertVuln, LinkFinding, LinkFails,
       ReadScanners, WriteScore, RecalcFails, ApplyPolicies, Notify, Finish
  <2>2. pc'[s] \in {"insert", "finish", "idle"}
    BY <1>1, <2>1 DEF Continue, Interrupt
  <2> QED BY <2>2 DEF Working, Idle
<1> QED BY <1>2, <1>3, <1>4, <1>5 DEF Stays, Cur, Working

LEMMA StepStored == ASSUME TypeOK, [Next]_vars PROVE Stored \subseteq Stored' /\ cut \subseteq cut' /\ hidden \subseteq hidden'
<1>1. Stored \subseteq Stored' /\ hidden \subseteq hidden'
  <2>1. ASSUME NEW s \in Scans, Insert(s) PROVE hidden \subseteq hidden'
    BY <2>1 DEF Insert
  <2> QED BY <2>1, OnlyInsertStores, InsertStores DEF rows, Stored
<1>2. ASSUME NEW s \in Scans, Handler(s) PROVE cut \subseteq cut'
  BY <1>2 DEF Handler, HandlerStep, Begin, Insert, InsertConflict, InsertFails, UpsertVuln, LinkFinding, LinkFails,
     ReadScanners, WriteScore, RecalcFails, ApplyPolicies, Notify, Finish, Interrupt, history
<1> QED BY <1>1, <1>2, ThreeKinds, BackfillKeeps, DeletionKeeps DEF vars, history

LEMMA StepOneHandler == ASSUME TypeOK, LocalsOK, OneHandler, [Next]_vars PROVE OneHandler'
<1>1. CASE UNCHANGED <<rows, handler>>
  BY <1>1 DEF OneHandler, rows, handler, Working, Cur, Stored
<1>2. ASSUME NEW s \in Scans, Handler(s) PROVE OneHandler'
  <2>1. \A t \in Scans \ {s} : (Working(t)' <=> Working(t)) /\ Cur(t)' = Cur(t)
    BY <1>2, HandlersApart DEF Working
  <2>2. Working(s)' => Cur(s)' = Cur(s) /\ (Insert(s) \/ Working(s))
    BY <1>2, HandlersApart
  <2>3. Stored \subseteq Stored'
    BY <1>2, StepStored DEF Next, Handler
  <2>4. Insert(s) => Cur(s) \in Stored' /\ Cur(s) \notin Stored
    BY InsertStores
  <2>5. \A t \in Scans : Working(t)' => Cur(t)' \in Stored'
    BY <2>1, <2>2, <2>3, <2>4 DEF OneHandler
  <2>6. ASSUME NEW t \in Scans, Working(t)', Working(s)', Cur(t)' = Cur(s)' PROVE t = s
    BY <2>1, <2>2, <2>4, <2>6 DEF OneHandler
  <2>7. ASSUME NEW t \in Scans \ {s}, NEW u \in Scans \ {s}, Working(t)', Working(u)', Cur(t)' = Cur(u)' PROVE t = u
    BY <2>1, <2>7 DEF OneHandler
  <2> QED BY <2>5, <2>6, <2>7 DEF OneHandler
<1> QED BY <1>1, <1>2, ThreeKinds, BackfillKeeps, DeletionKeeps DEF vars

LEMMA StepUnstored ==
  ASSUME TypeOK, LocalsOK, UnstoredOK, OneHandler, BatchesOK, [Next]_vars PROVE UnstoredOK'
<1> SUFFICES ASSUME NEW f \in Findings \ Stored'
             PROVE  policied'[f] = 0 /\ notified'[f] = 0 /\ link'[f] = NoVuln
  BY DEF UnstoredOK
<1>1. f \notin Stored /\ policied[f] = 0 /\ notified[f] = 0 /\ link[f] = NoVuln
  BY StepStored DEF UnstoredOK
<1>2. ASSUME NEW s \in Scans, Handler(s) PROVE Untouched(f)
  <2>1. Working(s) \/ Insert(s) => f # Cur(s)
    BY <1>1, InsertStores DEF OneHandler
  <2> QED BY <1>2, <2>1, HandlerTouches
<1>3. ASSUME NEW b \in Backfills, Backfill(b) PROVE link'[f] = NoVuln
  <2>1. CASE BackfillLink(b)
    <3>1. Item(b) # f
      BY <1>1, <2>1 DEF BackfillLink, BatchesOK, BatchOK, TypeOK, Item
    <3> QED BY <1>1, <2>1, <3>1 DEF BackfillLink, TypeOK
  <2>2. CASE UNCHANGED link
    BY <1>1, <2>2
  <2> QED BY <1>3, <2>1, <2>2 DEF Backfill, BackfillStep, StartBackfill, QueryBatch, BackfillUpsert, BackfillSkip,
     BackfillRead, BackfillWrite, BackfillReturns, BackfillDies
<1>4. ASSUME NEW p \in Projects, DeleteProject(p) PROVE link'[f] = NoVuln
  BY <1>1, <1>4 DEF DeleteProject
<1> QED BY <1>1, <1>2, <1>3, <1>4, ThreeKinds, BackfillKeeps, DeletionKeeps DEF vars, effects, Untouched

LEMMA StepBatches ==
  ASSUME TypeOK, LocalsOK, BatchesOK, [Next]_vars PROVE BatchesOK'
<1>1. Stored \subseteq Stored'
  BY StepStored
<1>2. CASE UNCHANGED backfill
  BY <1>1, <1>2 DEF backfill, BatchesOK, BatchOK, Item
<1>3. ASSUME NEW b \in Backfills, Backfill(b) PROVE BatchesOK'
  <2>1. Stored' = Stored /\ bpc \in [Backfills -> BackfillPC] /\ batch \in [Backfills -> Seq(Findings)] /\ bat \in [Backfills -> Nat \ {0}]
    BY <1>3, BackfillKeeps DEF Stored, rows, TypeOK, LocalsOK
  <2>2. CASE TakesUp(b)
    BY <2>1, <2>2 DEF TakesUp, BatchesOK, BatchOK, Item
  <2>3. CASE NextRow(b)
    BY <2>1, <2>3 DEF NextRow, BatchesOK, BatchOK, Item
  <2>4. CASE Drops(b)
    <3>1. Len(<<>>) = 0
      BY EmptySeq
    <3>2. batch'[b] = <<>> /\ bpc'[b] # "link"
      BY <2>1, <2>4 DEF Drops
    <3>3. \A c \in Backfills \ {b} : batch'[c] = batch[c] /\ bat'[c] = bat[c] /\ bpc'[c] = bpc[c]
      BY <2>1, <2>4 DEF Drops
    <3>4. \A c \in Backfills \ {b} : BatchOK(c)'
      BY <2>1, <3>3 DEF BatchesOK, BatchOK, Item
    <3>5. BatchOK(b)'
      BY <3>1, <3>2 DEF BatchOK
    <3> QED BY <3>4, <3>5 DEF BatchesOK
  <2>5. CASE TakesBatch(b)
    <3>1. PICK q \in Ordered :
            /\ batch' = [batch EXCEPT ![b] = Page(q)] /\ bat' = [bat EXCEPT ![b] = 1]
            /\ bpc' = [bpc EXCEPT ![b] = IF q = <<>> THEN "recalc" ELSE "upsert"]
      BY <2>5 DEF TakesBatch
    <3>2. batch'[b] = Page(q) /\ bpc'[b] # "link"
      BY <2>1, <3>1
    <3>3. \A c \in Backfills \ {b} : batch'[c] = batch[c] /\ bat'[c] = bat[c] /\ bpc'[c] = bpc[c]
      BY <2>1, <3>1
    <3>4. \A c \in Backfills \ {b} : BatchOK(c)'
      BY <2>1, <3>3 DEF BatchesOK, BatchOK, Item
    <3>5. BatchOK(b)'
      <4>1. /\ \A i \in 1..Len(Page(q)) : Page(q)[i] \in Stored
            /\ \A i, j \in 1..Len(Page(q)) : Page(q)[i] = Page(q)[j] => i = j
        BY PageOfUnlinked
      <4> QED BY <2>1, <3>2, <4>1 DEF BatchOK
    <3> QED BY <3>4, <3>5 DEF BatchesOK
  <2>6. CASE Turns(b)
    BY <2>1, <2>6 DEF Turns, BatchesOK, BatchOK, Item
  <2> QED BY <1>3, <2>2, <2>3, <2>4, <2>5, <2>6, BackfillMoves
<1> QED BY <1>2, <1>3, ThreeKinds, HandlerKeeps, DeletionKeeps DEF vars

-----------------------------------------------------------------------------
(* Links and deletions.                                                    *)

\* A deletion unlinks the findings of its project and no other.
LEMMA DeletionUnlinks ==
  ASSUME TypeOK, LinksOK, NEW p \in Projects, DeleteProject(p)
  PROVE  /\ live' = live \ {p}
         /\ \A f \in Findings : link'[f] = IF ProjectOf[f] = p THEN NoVuln ELSE link[f]
         /\ \A v \in Vulns : Gone(v)' /\ ~ Gone(v) => Links(v)' = {} /\ count'[v] = 0 /\ score'[v] = 0
         /\ \A v \in Vulns : ~ Gone(v)' => ~ Gone(v)
         /\ \A v \in Vulns : Gone(v) \/ ~ Gone(v)' =>
              Links(v)' = Links(v) /\ count'[v] = count[v] /\ score'[v] = score[v] /\ coverage'[v] = coverage[v]
<1> DEFINE gone == {v \in Vulns : \E f \in Findings : UidOf[f] = v /\ ProjectOf[f] = p}
<1>1. /\ p \in live /\ live' = live \ {p}
      /\ link' = [f \in Findings |-> IF link[f] \in gone THEN NoVuln ELSE link[f]]
      /\ count' = [v \in Vulns |-> IF v \in gone THEN 0 ELSE count[v]]
      /\ coverage' = [v \in Vulns |-> IF v \in gone THEN {} ELSE coverage[v]]
      /\ score' = [v \in Vulns |-> IF v \in gone THEN 0 ELSE score[v]]
  BY DEF DeleteProject
<1>2. \A v \in Vulns : Gone(v)' <=> Gone(v) \/ v \in gone
  BY <1>1 DEF Gone, Alive
<1>3. \A v \in gone : ~ Gone(v)
  BY <1>1 DEF Gone, Alive
<1>4. \A f \in Findings : link'[f] = IF ProjectOf[f] = p THEN NoVuln ELSE link[f]
  <2> SUFFICES ASSUME NEW f \in Findings, link[f] # NoVuln
               PROVE  link[f] \in gone <=> ProjectOf[f] = p
    BY <1>1
  <2>1. link[f] = UidOf[f] /\ UidOf[f] \in Vulns
    BY DEF LinksOK
  <2> QED BY <2>1
<1> HIDE DEF gone
<1>5. \A v \in Vulns : Links(v)' = IF v \in gone THEN {} ELSE Links(v)
  BY <1>1 DEF Links
<1> QED BY <1>1, <1>2, <1>3, <1>4, <1>5

LEMMA AliveStays ==
  ASSUME TypeOK, [Next]_vars, NEW f \in Findings, Alive(f)' PROVE Alive(f)
<1>1. live' \subseteq live
  BY ThreeKinds, HandlerKeeps, BackfillKeeps DEF vars, DeleteProject
<1> QED BY <1>1 DEF Alive

\* A link made is that of a living, linkable finding.
LEMMA LinkMade ==
  ASSUME TypeOK, LocalsOK, Stages, BatchesOK, LinksOK, [Next]_vars, NEW f \in Findings
  PROVE  \/ link'[f] = link[f]
         \/ link'[f] = UidOf[f] /\ Linkable(f) /\ Alive(f) /\ Alive(f)'
         \/ link'[f] = NoVuln /\ ~ Alive(f)'
<1>1. ASSUME NEW s \in Scans, LinkFinding(s) PROVE link'[f] = link[f] \/ (link'[f] = UidOf[f] /\ Linkable(f) /\ Alive(f) /\ Alive(f)')
  <2>1. Cur(s) \in Findings /\ Linkable(Cur(s)) /\ Alive(Cur(s)) /\ live' = live
        /\ link' = [link EXCEPT ![Cur(s)] = UidOf[Cur(s)]]
    BY <1>1, CurIsFinding DEF LinkFinding, Idle, Stages, StageOK
  <2> QED BY <2>1 DEF TypeOK, Alive
<1>2. ASSUME NEW b \in Backfills, BackfillLink(b) PROVE link'[f] = link[f] \/ (link'[f] = UidOf[f] /\ Linkable(f) /\ Alive(f) /\ Alive(f)')
  <2>1. Item(b) \in Findings /\ Linkable(Item(b)) /\ Alive(Item(b)) /\ live' = live
        /\ link' = [link EXCEPT ![Item(b)] = UidOf[Item(b)]]
    BY <1>2, ItemIsFinding DEF BackfillLink, BatchesOK, BatchOK
  <2> QED BY <2>1 DEF TypeOK, Alive
<1>3. ASSUME NEW p \in Projects, DeleteProject(p) PROVE link'[f] = link[f] \/ (link'[f] = NoVuln /\ ~ Alive(f)')
  BY <1>3, DeletionUnlinks DEF Alive
<1> QED BY <1>1, <1>2, <1>3, OnlyLinkersLink

LEMMA StepStages ==
  ASSUME TypeOK, LocalsOK, UnstoredOK, OneHandler, BatchesOK, LinksOK, Stages, [Next]_vars PROVE Stages'
<1>1. ASSUME NEW s \in Scans, Handler(s), NEW t \in Scans \ {s} PROVE StageOK(t)'
  <2>1. CASE ~ Working(t)
    <3>1. ~ Working(t)'
      BY <1>1, <2>1, HandlersApart DEF Working
    <3> QED BY <3>1 DEF StageOK, Working, Idle
  <2>2. CASE Working(t)
    <3>1. Cur(t) \in Findings /\ Cur(t) \in Stored
      BY <2>2, CurIsFinding DEF Working, OneHandler
    <3>2. Working(s) \/ Insert(s) => Cur(t) # Cur(s)
      BY <1>1, <2>2, <3>1, InsertStores DEF OneHandler
    <3>3. Untouched(Cur(t)) /\ live' = live
      BY <1>1, <3>1, <3>2, HandlerTouches, HandlerKeeps
    <3>4. pc'[t] = pc[t] /\ Cur(t)' = Cur(t)
      BY <1>1, HandlersApart
    <3>5. StageOK(t)
      BY DEF Stages
    <3> QED BY <3>3, <3>4, <3>5 DEF StageOK, Untouched, Working, Linkable, Alive
  <2> QED BY <2>1, <2>2
<1>2. ASSUME NEW s \in Scans, Handler(s) PROVE StageOK(s)'
  <2>1. CASE ~ Working(s)'
    BY <2>1 DEF StageOK, Working, Idle
  <2>2. CASE Working(s)'
    <3>0. PICK f \in Findings : f = Cur(s)
      BY <1>2, <2>2, HandlersApart, CurIsFinding
    <3>1. /\ Cur(s)' = f /\ (Insert(s) \/ Working(s))
          /\ pc[s] \notin Idle \cup {"finish"}
      BY <1>2, <2>2, <3>0, HandlersApart
    <3>2. live' = live
      BY <1>2, HandlerKeeps
    <3>3. /\ pc \in [Scans -> HandlerPC] /\ policied \in [Findings -> Nat] /\ notified \in [Findings -> Nat]
          /\ link \in [Findings -> Vulns \cup {NoVuln}]
      BY DEF TypeOK, LocalsOK
    <3>4. StageOK(s)
      BY DEF Stages
    <3>5. CASE Insert(s)
      <4>1. policied'[f] = 0 /\ notified'[f] = 0
        BY <3>0, <3>1, <3>5, InsertStores DEF UnstoredOK, Insert, effects
      <4>2. IF Linkable(f) THEN pc'[s] = "upsert"
            ELSE pc'[s] \in {"notify", "policies"} /\ (pc'[s] = "notify" => f \in hidden')
        BY <3>0, <3>3, <3>5 DEF Insert, Goto
      <4> QED BY <3>1, <4>1, <4>2 DEF StageOK, Linkable
    <3>6. CASE UpsertVuln(s)
      BY <3>0, <3>1, <3>3, <3>4, <3>6 DEF UpsertVuln, Goto, StageOK, Working, Idle, effects, Linkable
    <3>7. CASE LinkFinding(s)
      <4>1. pc[s] = "link" /\ pc'[s] = "read" /\ UNCHANGED <<policied, notified>> /\ link'[f] = UidOf[f]
        BY <3>0, <3>1, <3>3, <3>7 DEF LinkFinding, Goto, effects
      <4> QED BY <3>0, <3>1, <3>4, <4>1 DEF StageOK, Working, Idle, Linkable
    <3>8. ASSUME AfterLink(s), UNCHANGED <<rows, effects, link>>,
                 pc[s] \in {"upsert", "link", "read", "write"},
                 f \notin cut' /\ Alive(f) => f \notin cut /\ pc[s] \in {"read", "write"}
          PROVE  StageOK(s)'
      <4>1. pc'[s] = IF f \in hidden THEN "notify" ELSE "policies"
        BY <3>0, <3>3, <3>8 DEF AfterLink, Goto
      <4>2. policied'[f] = 0 /\ notified'[f] = 0 /\ hidden' = hidden /\ Linkable(f)
        BY <3>0, <3>4, <3>8 DEF StageOK, Working, Idle, effects, rows
      <4>3. f \notin cut' /\ Alive(f)' => link'[f] = UidOf[f]
        <5>1. f \notin cut /\ Linkable(f) /\ Alive(f) /\ pc[s] \in {"read", "write"} => link[f] = UidOf[f]
          BY <3>0, <3>4 DEF StageOK
        <5> QED BY <3>2, <3>8, <4>2, <5>1 DEF Alive
      <4> QED BY <3>1, <4>1, <4>2, <4>3 DEF StageOK, Linkable, Alive
    <3>9. CASE LinkFails(s)
      <4>1. /\ pc[s] \in {"upsert", "link"} /\ UNCHANGED <<rows, effects, link>>
            /\ ~ Alive(f) \/ f \in cut'
            /\ IF pc[s] = "upsert" THEN AfterLink(s) ELSE pc'[s] = "read"
        BY <3>0, <3>3, <3>9 DEF LinkFails, Goto
      <4>2. CASE pc[s] = "upsert"
        BY <3>8, <4>1, <4>2
      <4>3. CASE pc[s] = "link"
        BY <3>0, <3>1, <3>2, <3>4, <4>1, <4>3 DEF StageOK, Working, Idle, effects, Linkable, Alive
      <4> QED BY <4>1, <4>2, <4>3
    <3>10. CASE ReadScanners(s)
      <4>1. pc[s] = "read" /\ UNCHANGED <<rows, effects, link, cut>> /\ (AfterLink(s) \/ pc'[s] = "write")
        BY <3>3, <3>10 DEF ReadScanners, Goto, history
      <4>2. CASE AfterLink(s)
        BY <3>8, <4>1, <4>2
      <4>3. CASE pc'[s] = "write"
        BY <3>0, <3>1, <3>2, <3>4, <4>1, <4>3 DEF StageOK, Working, Idle, effects, Linkable, Alive
      <4> QED BY <4>1, <4>2, <4>3
    <3>11. CASE WriteScore(s) \/ RecalcFails(s)
      <4>1. pc[s] \in {"read", "write"} /\ UNCHANGED <<rows, effects, link, cut>> /\ AfterLink(s)
        BY <3>11 DEF WriteScore, RecalcFails, history
      <4> QED BY <3>8, <4>1
    <3>12. CASE ApplyPolicies(s)
      <4>1. /\ pc[s] = "policies" /\ pc'[s] = "notify" /\ UNCHANGED <<rows, link, notified>> /\ cut \subseteq cut'
            /\ policied'[f] = 1 \/ f \in cut'
        BY <3>0, <3>1, <3>3, <3>4, <3>12 DEF ApplyPolicies, Goto, StageOK
      <4> QED BY <3>0, <3>1, <3>2, <3>4, <4>1 DEF StageOK, Working, Idle, Linkable, Alive
    <3>13. ~ (InsertConflict(s) \/ InsertFails(s) \/ Notify(s) \/ Finish(s) \/ Interrupt(s) \/ Begin(s))
      <4>1. ASSUME Continue(s) PROVE FALSE
        BY <2>2, <3>3, <4>1 DEF Continue, Working
      <4> QED BY <2>2, <3>1, <3>3, <4>1
          DEF InsertConflict, InsertFails, Notify, Finish, Interrupt, Begin, Goto, Working, Idle
    <3> QED BY <1>2, <3>5, <3>6, <3>7, <3>9, <3>10, <3>11, <3>12, <3>13 DEF Handler, HandlerStep
  <2> QED BY <2>1, <2>2
<1>3. ASSUME NEW t \in Scans, UNCHANGED <<rows, effects, handler, cut>> PROVE StageOK(t)'
  <2>1. CASE ~ Working(t)
    BY <1>3, <2>1 DEF StageOK, Working, Idle, handler
  <2>2. CASE Working(t)
    <3>1. Cur(t) \in Findings
      BY <2>2, CurIsFinding DEF Working
    <3>2. Alive(Cur(t))' => Alive(Cur(t)) /\ (link[Cur(t)] = UidOf[Cur(t)] => link'[Cur(t)] = UidOf[Cur(t)])
      BY <3>1, <1>3, LinkMade, AliveStays DEF Alive, Cur, handler
    <3>3. StageOK(t)
      BY DEF Stages
    <3>4. pc' = pc /\ Cur(t)' = Cur(t) /\ policied' = policied /\ notified' = notified /\ hidden' = hidden /\ cut' = cut
      BY <1>3 DEF rows, effects, handler, Cur
    <3> QED BY <3>2, <3>3, <3>4 DEF StageOK, Working, Linkable, Alive
  <2> QED BY <2>1, <2>2
<1> QED BY <1>1, <1>2, <1>3, ThreeKinds, BackfillKeeps, DeletionKeeps DEF vars, history, Stages

LEMMA StepLinks ==
  ASSUME TypeOK, LocalsOK, Stages, BatchesOK, LinksOK, [Next]_vars PROVE LinksOK'
<1>1. \A f \in Findings : link'[f] \in {NoVuln, UidOf[f]}
  BY LinkMade DEF LinksOK
<1>2. ASSUME NEW p \in Projects, DeleteProject(p) PROVE LinksOK'
  <2>1. \A f \in Findings : ~ Alive(f)' => link'[f] = NoVuln
    BY <1>2, DeletionUnlinks DEF Alive, LinksOK
  <2>2. \A v \in Vulns : Gone(v)' => count'[v] = 0 /\ score'[v] = 0
    BY <1>2, DeletionUnlinks DEF LinksOK
  <2> QED BY <1>1, <2>1, <2>2 DEF LinksOK
<1>3. ASSUME live' = live PROVE LinksOK'
  <2>1. \A f \in Findings : ~ Alive(f)' => link'[f] = NoVuln
    BY <1>3, LinkMade DEF LinksOK, Alive
  <2>2. \A v \in Vulns : Gone(v)' <=> Gone(v)
    BY <1>3 DEF Gone, Alive
  <2>3. ASSUME NEW f \in Findings, Alive(f), Linkable(f) PROVE UidOf[f] \in Vulns /\ ~ Gone(UidOf[f])
    BY <2>3 DEF Gone, Alive, Linkable
  <2>4. ASSUME NEW v \in Vulns, Gone(v) PROVE count'[v] = count[v]
    <3>0. VulnTypes
      BY TypesSplit
    <3>1. ASSUME NEW s \in Scans, UpsertVuln(s) PROVE count'[v] = count[v]
      <4>1. Cur(s) \in Findings /\ Linkable(Cur(s)) /\ Alive(Cur(s)) /\ Upsert(Cur(s))
        BY <3>1, CurIsFinding DEF UpsertVuln, Idle, Stages, StageOK
      <4> QED BY <2>3, <2>4, <3>0, <4>1, UpsertTypes
    <3>2. ASSUME NEW b \in Backfills, BackfillUpsert(b) PROVE count'[v] = count[v]
      <4>1. Item(b) \in Findings /\ Linkable(Item(b)) /\ Alive(Item(b)) /\ Upsert(Item(b))
        BY <3>2, ItemIsFinding DEF BackfillUpsert
      <4> QED BY <2>3, <2>4, <3>0, <4>1, UpsertTypes
    <3>3. ASSUME NEW p \in Projects, DeleteProject(p) PROVE FALSE
      BY <1>3, <3>3 DEF DeleteProject
    <3> QED BY <3>1, <3>2, <3>3, OnlyUpsertsCount
  <2>5. ASSUME NEW v \in Vulns, Gone(v) PROVE score'[v] = score[v]
    <3>1. ASSUME NEW s \in Scans, WriteScore(s) PROVE score'[v] = score[v]
      <4>1. Cur(s) \in Findings /\ Linkable(Cur(s))
        BY <3>1, CurIsFinding DEF WriteScore, Idle, Stages, StageOK
      <4>2. Alive(Cur(s)) => UidOf[Cur(s)] # v
        BY <2>3, <2>5, <4>1
      <4> QED BY <3>1, <4>1, <4>2 DEF WriteScore, TypeOK
    <3>2. ASSUME NEW b \in Backfills, BackfillWrite(b) PROVE score'[v] = score[v]
      <4>1. count[v] = 0
        BY <2>5 DEF LinksOK
      <4>2. ~ (0 > 0)
        OBVIOUS
      <4> QED BY <3>2, <4>1, <4>2 DEF BackfillWrite, TypeOK
    <3>3. ASSUME NEW p \in Projects, DeleteProject(p) PROVE FALSE
      BY <1>3, <3>3 DEF DeleteProject
    <3> QED BY <3>1, <3>2, <3>3, OnlyWritesScore
  <2>6. \A v \in Vulns : Gone(v)' => count'[v] = 0 /\ score'[v] = 0
    BY <2>2, <2>4, <2>5 DEF LinksOK
  <2> QED BY <1>1, <2>1, <2>6 DEF LinksOK
<1> QED BY <1>2, <1>3, ThreeKinds, HandlerKeeps, BackfillKeeps DEF vars

-----------------------------------------------------------------------------
(* Policies and alerts.                                                    *)

LEMMA StepEffects ==
  ASSUME TypeOK, LocalsOK, Stages, EffectsAtMostOnce, [Next]_vars PROVE EffectsAtMostOnce'
<1> SUFFICES ASSUME NEW f \in Findings PROVE policied'[f] <= 1 /\ notified'[f] <= 1
  BY DEF EffectsAtMostOnce
<1>1. policied[f] <= 1 /\ notified[f] <= 1
  BY DEF EffectsAtMostOnce
<1>2. CASE UNCHANGED effects
  BY <1>1, <1>2 DEF effects
<1>3. ASSUME NEW s \in Scans, ApplyPolicies(s) PROVE policied'[f] <= 1 /\ notified'[f] <= 1
  <2>1. policied[Cur(s)] = 0 /\ notified' = notified
    BY <1>3 DEF ApplyPolicies, Stages, StageOK
  <2>2. policied' = policied \/ policied' = [policied EXCEPT ![Cur(s)] = @ + 1]
    BY <1>3 DEF ApplyPolicies
  <2>3. policied \in [Findings -> Nat]
    BY DEF LocalsOK
  <2>4. CASE f = Cur(s)
    BY <1>1, <2>1, <2>2, <2>3, <2>4
  <2>5. CASE f # Cur(s)
    BY <1>1, <2>1, <2>2, <2>3, <2>5
  <2> QED BY <2>4, <2>5
<1>4. ASSUME NEW s \in Scans, Notify(s) PROVE policied'[f] <= 1 /\ notified'[f] <= 1
  <2>1. notified[Cur(s)] = 0 /\ policied' = policied
    BY <1>4 DEF Notify, Stages, StageOK, Working, Idle
  <2>2. notified' = notified \/ notified' = [notified EXCEPT ![Cur(s)] = @ + 1]
    BY <1>4 DEF Notify
  <2>3. notified \in [Findings -> Nat]
    BY DEF LocalsOK
  <2>4. CASE f = Cur(s)
    BY <1>1, <2>1, <2>2, <2>3, <2>4
  <2>5. CASE f # Cur(s)
    BY <1>1, <2>1, <2>2, <2>3, <2>5
  <2> QED BY <2>4, <2>5
<1>5. ASSUME NEW s \in Scans, Handler(s) PROVE UNCHANGED effects \/ ApplyPolicies(s) \/ Notify(s)
  BY <1>5 DEF Handler, HandlerStep, Begin, Insert, InsertConflict, InsertFails, UpsertVuln, LinkFinding, LinkFails,
     ReadScanners, WriteScore, RecalcFails, Finish, Interrupt
<1> QED BY <1>2, <1>3, <1>4, <1>5, ThreeKinds, BackfillKeeps, DeletionKeeps DEF vars

LEMMA StepProcessed ==
  ASSUME TypeOK, LocalsOK, UnstoredOK, OneHandler, BatchesOK, LinksOK, Stages, StoredIsProcessed, [Next]_vars
  PROVE  StoredIsProcessed'
<1> SUFFICES ASSUME NEW f \in Stored', f \notin InFlight', f \notin cut', f \notin ToSet(Legacy)
             PROVE  /\ notified'[f] = 1
                    /\ f \notin hidden' => policied'[f] = 1
                    /\ Linkable(f) /\ Alive(f)' => link'[f] = UidOf[f]
  BY DEF StoredIsProcessed, Linkable, Alive
<1>1. f \in Findings
  <2>1. table' \in Seq(Findings)
    BY StepRowTypes DEF RowTypes
  <2> QED BY <2>1, ElementOfSeq, LenProperties DEF Stored, ToSet
<1>2. \A t \in Scans : Working(t) => Cur(t) \in InFlight
  BY DEF InFlight, Working
<1>3. \A t \in Scans : Working(t)' => Cur(t)' # f
  BY DEF InFlight, Working
<1>4. InFlight = {Cur(t) : t \in {u \in Scans : Working(u)}}
  BY DEF InFlight, Working
<1>5. CASE UNCHANGED <<rows, effects, handler, cut>>
  <2>1. f \in Stored \ (InFlight \cup cut \cup ToSet(Legacy))
    BY <1>5 DEF rows, handler, Stored, InFlight, Cur
  <2>2. /\ notified[f] = 1 /\ (f \notin hidden => policied[f] = 1)
        /\ Linkable(f) /\ Alive(f) => link[f] = UidOf[f]
    BY <2>1 DEF StoredIsProcessed
  <2>3. Alive(f)' => Alive(f)
    BY <1>1, AliveStays
  <2> QED BY <1>1, <1>5, <2>2, <2>3, LinkMade DEF rows, effects
<1>6. ASSUME NEW s \in Scans, Handler(s)
      PROVE  /\ notified'[f] = 1
             /\ f \notin hidden' => policied'[f] = 1
             /\ Linkable(f) /\ Alive(f)' => link'[f] = UidOf[f]
  <2>0. live' = live /\ (Alive(f)' <=> Alive(f))
    BY <1>6, HandlerKeeps DEF Alive
  <2>1. CASE Working(s) \/ Insert(s) => f # Cur(s)
    <3>1. Untouched(f)
      BY <1>1, <1>6, <2>1, HandlerTouches
    <3>2. \A t \in Scans : Working(t) => Cur(t) # f
      BY <1>3, <1>6, <2>1, HandlersApart DEF Working
    <3>3. f \in Stored \ (InFlight \cup cut \cup ToSet(Legacy))
      BY <1>4, <3>1, <3>2 DEF Untouched
    <3>4. /\ notified[f] = 1 /\ (f \notin hidden => policied[f] = 1)
          /\ Linkable(f) /\ Alive(f) => link[f] = UidOf[f]
      BY <3>3 DEF StoredIsProcessed
    <3> QED BY <2>0, <3>1, <3>4 DEF Untouched
  <2>2. CASE (Working(s) \/ Insert(s)) /\ f = Cur(s)
    <3>1. ~ Working(s)'
      BY <1>3, <1>6, <2>2, HandlersApart
    <3>2. pc \in [Scans -> HandlerPC]
      BY DEF TypeOK
    <3>3. ~ Insert(s)
      BY <3>1, <3>2 DEF Insert, Goto, Working, Idle
    <3>4. ASSUME ~ Notify(s), ~ Interrupt(s) PROVE FALSE
      <4>1. ~ Stays(s)
        BY <3>1, <3>2 DEF Stays, Working
      <4>2. ASSUME AfterLink(s) PROVE FALSE
        BY <3>1, <3>2, <4>2 DEF AfterLink, Goto, Working, Idle
      <4>3. Working(s)
        BY <2>2, <3>3
      <4> QED BY <1>6, <3>1, <3>2, <3>3, <3>4, <4>2, <4>3
          DEF Handler, HandlerStep, Begin, InsertConflict, InsertFails, UpsertVuln, LinkFinding, LinkFails,
          ReadScanners, WriteScore, RecalcFails, ApplyPolicies, Finish, Goto, Working, Idle
    <3>5. ~ Interrupt(s)
      BY <2>2, <3>3 DEF Interrupt, Working
    <3>6. CASE Notify(s)
      <4>1. pc[s] = "notify" /\ UNCHANGED <<rows, link, policied>> /\ cut \subseteq cut'
        BY <3>6 DEF Notify
      <4>2. notified' = [notified EXCEPT ![Cur(s)] = @ + 1]
        BY <2>2, <3>6 DEF Notify
      <4>3. /\ notified[f] = 0 /\ (f \notin hidden => policied[f] = 1)
            /\ Linkable(f) /\ Alive(f) => link[f] = UidOf[f]
        BY <2>2, <4>1 DEF Stages, StageOK, Working, Idle
      <4>4. notified'[f] = 1
        BY <1>1, <2>2, <4>2, <4>3 DEF LocalsOK
      <4> QED BY <2>0, <4>1, <4>3, <4>4 DEF rows
    <3> QED BY <3>4, <3>5, <3>6
  <2> QED BY <2>1, <2>2
<1> QED BY <1>5, <1>6, ThreeKinds, BackfillKeeps, DeletionKeeps DEF vars, history

-----------------------------------------------------------------------------
(* What a step does to the count of a vulnerability.                       *)

\* The handlers and the backfills between an upsert of v and its link.
PH(v) == {s \in Scans : pc[s] = "link" /\ UidOf[Cur(s)] = v /\ Alive(Cur(s))}
PB(v) == {b \in Backfills : bpc[b] = "link" /\ UidOf[Item(b)] = v /\ Alive(Item(b))}

\* Nothing is counted or linked; what was pending may be dropped by a fault.
Quiet(v) ==
  /\ count'[v] = count[v] /\ Links(v)' = Links(v)
  /\ PH(v)' \subseteq PH(v) /\ PB(v)' \subseteq PB(v)
  /\ faults' = 0 => PH(v)' = PH(v) /\ PB(v)' = PB(v)
\* One more is counted, and pending.
Counted(v) ==
  /\ count'[v] = count[v] + 1 /\ Links(v)' = Links(v)
  /\ \/ PB(v)' = PB(v) /\ \E s \in Scans \ PH(v) : PH(v)' = PH(v) \cup {s}
     \/ PH(v)' = PH(v) /\ \E b \in Backfills \ PB(v) : PB(v)' = PB(v) \cup {b}
\* What was pending is linked.
Linked(v) ==
  /\ count'[v] = count[v]
  /\ \E f \in Findings :
       /\ Links(v)' = Links(v) \cup {f}
       /\ \/ PB(v)' = PB(v) /\ \E s \in PH(v) : f = Cur(s) /\ PH(v)' = PH(v) \ {s}
          \/ PH(v)' = PH(v) /\ \E b \in PB(v) : f = Item(b) /\ PB(v)' = PB(v) \ {b}
\* The project is deleted.
Emptied(v) ==
  count'[v] = 0 /\ Links(v)' = {} /\ PH(v)' = {} /\ PB(v)' = {} /\ Gone(v)'

LEMMA BackfillsApart ==
  ASSUME TypeOK, LocalsOK, NEW b \in Backfills, Backfill(b)
  PROVE  /\ \A c \in Backfills \ {b} : /\ bpc'[c] = bpc[c] /\ batch'[c] = batch[c] /\ bat'[c] = bat[c]
                                       /\ Item(c)' = Item(c)
         /\ bpc'[b] = "link" => TakesUp(b) /\ Item(b)' = Item(b)
<1>1. bpc \in [Backfills -> BackfillPC] /\ batch \in [Backfills -> Seq(Findings)] /\ bat \in [Backfills -> Nat \ {0}]
  BY DEF TypeOK, LocalsOK
<1> DEFINE Still == \A c \in Backfills \ {b} : bpc'[c] = bpc[c] /\ batch'[c] = batch[c] /\ bat'[c] = bat[c]
<1>2. TakesUp(b) => Still
  BY <1>1 DEF TakesUp
<1>3. NextRow(b) => Still /\ bpc'[b] = "upsert"
  BY <1>1 DEF NextRow
<1>4. Drops(b) => Still /\ bpc'[b] # "link"
  BY <1>1 DEF Drops
<1>5. TakesBatch(b) => Still /\ bpc'[b] # "link"
  BY <1>1 DEF TakesBatch
<1>6. Turns(b) => Still /\ bpc'[b] # "link"
  BY <1>1 DEF Turns
<1> QED BY <1>2, <1>3, <1>4, <1>5, <1>6, BackfillMoves DEF TakesUp, Item

LEMMA HandlerCounts ==
  ASSUME TypeOK, LocalsOK, Stages, LinksOK, NEW s \in Scans, Handler(s), NEW v \in Vulns
  PROVE  Quiet(v) \/ Counted(v) \/ Linked(v)
<1>0. VulnTypes /\ pc \in [Scans -> HandlerPC] /\ link \in [Findings -> Vulns \cup {NoVuln}] /\ faults \in Nat
  BY TypesSplit DEF TypeOK
<1>1. live' = live /\ PB(v)' = PB(v)
  BY HandlerKeeps DEF PB, backfill, Item, Alive
<1>2. /\ \A t \in Scans \ {s} : pc'[t] = pc[t] /\ Cur(t)' = Cur(t)
      /\ Working(s)' => Cur(s)' = Cur(s)
  BY HandlersApart
<1>3. \A t \in Scans \ {s} : t \in PH(v)' <=> t \in PH(v)
  BY <1>1, <1>2 DEF PH, Alive
<1>4. CASE UpsertVuln(s)
  <2>1. /\ Cur(s) \in Findings /\ Linkable(Cur(s)) /\ Alive(Cur(s)) /\ Upsert(Cur(s))
        /\ pc[s] = "upsert" /\ pc'[s] = "link" /\ link' = link
    BY <1>0, <1>4, CurIsFinding DEF UpsertVuln, Goto, Idle, Stages, StageOK
  <2>2. Links(v)' = Links(v) /\ s \notin PH(v) /\ Cur(s)' = Cur(s)
    BY <1>2, <2>1 DEF Links, PH, Working, Idle
  <2>3. CASE UidOf[Cur(s)] = v
    <3>1. s \in PH(v)'
      BY <1>1, <2>1, <2>2, <2>3 DEF PH, Alive
    <3>2. PH(v)' = PH(v) \cup {s}
      BY <1>3, <3>1 DEF PH
    <3>3. count'[v] = count[v] + 1
      BY <1>0, <2>1, <2>3, UpsertTypes
    <3> QED BY <1>1, <2>2, <3>2, <3>3 DEF Counted
  <2>4. CASE UidOf[Cur(s)] # v
    <3>1. s \notin PH(v)'
      BY <2>2, <2>4 DEF PH
    <3>2. PH(v)' = PH(v)
      BY <1>3, <2>2, <3>1 DEF PH
    <3>3. count'[v] = count[v]
      BY <1>0, <2>1, <2>4, UpsertTypes
    <3> QED BY <1>1, <2>2, <3>2, <3>3 DEF Quiet
  <2> QED BY <2>3, <2>4
<1>5. ASSUME ~ UpsertVuln(s) PROVE s \notin PH(v)' /\ PH(v)' = PH(v) \ {s} /\ count' = count
  <2>1. pc'[s] # "link"
    <3>1. CASE AfterLink(s) \/ Continue(s) \/ Interrupt(s)
      BY <1>0, <3>1 DEF AfterLink, Continue, Interrupt, Goto
    <3> QED BY <1>0, <1>5, <3>1
        DEF Handler, HandlerStep, Begin, Insert, InsertConflict, InsertFails, LinkFinding, LinkFails,
        ReadScanners, WriteScore, RecalcFails, ApplyPolicies, Notify, Finish, Goto
  <2>2. s \notin PH(v)'
    BY <2>1 DEF PH
  <2>3. count' = count
    BY <1>5 DEF Handler, HandlerStep, Begin, Insert, InsertConflict, InsertFails, LinkFinding, LinkFails,
       ReadScanners, WriteScore, RecalcFails, ApplyPolicies, Notify, Finish, Interrupt, vulns
  <2> QED BY <1>3, <2>2, <2>3 DEF PH
<1>6. CASE LinkFinding(s)
  <2>1. /\ Cur(s) \in Findings /\ Linkable(Cur(s)) /\ Alive(Cur(s)) /\ pc[s] = "link"
        /\ link' = [link EXCEPT ![Cur(s)] = UidOf[Cur(s)]]
    BY <1>6, CurIsFinding DEF LinkFinding, Idle, Stages, StageOK
  <2>2. ~ UpsertVuln(s)
    BY <2>1 DEF UpsertVuln
  <2>3. CASE UidOf[Cur(s)] = v
    <3>1. s \in PH(v)
      BY <2>1, <2>3 DEF PH
    <3>2. Links(v)' = Links(v) \cup {Cur(s)}
      BY <1>0, <2>1, <2>3 DEF Links
    <3> QED BY <1>1, <1>5, <2>1, <2>2, <3>1, <3>2 DEF Linked
  <2>4. CASE UidOf[Cur(s)] # v
    <3>1. s \notin PH(v)
      BY <2>4 DEF PH
    <3>2. link[Cur(s)] # v
      BY <2>1, <2>4 DEF LinksOK
    <3>3. Links(v)' = Links(v)
      BY <1>0, <2>1, <2>4, <3>2 DEF Links
    <3> QED BY <1>1, <1>5, <2>2, <3>1, <3>3 DEF Quiet
  <2> QED BY <2>3, <2>4
<1>7. CASE ~ UpsertVuln(s) /\ ~ LinkFinding(s)
  <2>1. Links(v)' = Links(v)
    <3>1. link' = link
      BY <1>7 DEF Handler, HandlerStep, Begin, Insert, InsertConflict, InsertFails, LinkFails,
         ReadScanners, WriteScore, RecalcFails, ApplyPolicies, Notify, Finish, Interrupt
    <3> QED BY <3>1 DEF Links
  <2>2. s \in PH(v) => Fault
    BY <1>7 DEF PH, Handler, HandlerStep, Begin, Insert, InsertConflict, InsertFails, LinkFails,
       ReadScanners, WriteScore, RecalcFails, ApplyPolicies, Notify, Finish, Interrupt
  <2>3. faults' = 0 => PH(v)' = PH(v)
    <3>1. CASE s \in PH(v)
      BY <1>0, <2>2, <3>1 DEF Fault
    <3>2. CASE s \notin PH(v)
      BY <1>5, <1>7, <3>2
    <3> QED BY <3>1, <3>2
  <2> QED BY <1>1, <1>5, <1>7, <2>1, <2>3 DEF Quiet
<1> QED BY <1>4, <1>6, <1>7

LEMMA BackfillCounts ==
  ASSUME TypeOK, LocalsOK, LinksOK, BatchesOK, NEW b \in Backfills, Backfill(b), NEW v \in Vulns
  PROVE  Quiet(v) \/ Counted(v) \/ Linked(v)
<1>0. VulnTypes /\ bpc \in [Backfills -> BackfillPC] /\ link \in [Findings -> Vulns \cup {NoVuln}] /\ faults \in Nat
  BY TypesSplit DEF TypeOK
<1>1. live' = live /\ PH(v)' = PH(v)
  BY BackfillKeeps DEF PH, handler, Cur, Alive
<1>2. /\ \A c \in Backfills \ {b} : bpc'[c] = bpc[c] /\ Item(c)' = Item(c)
      /\ bpc'[b] = "link" => TakesUp(b) /\ Item(b)' = Item(b)
  BY BackfillsApart
<1>3. \A c \in Backfills \ {b} : c \in PB(v)' <=> c \in PB(v)
  BY <1>1, <1>2 DEF PB, Alive
<1>4. CASE BackfillUpsert(b)
  <2>1. /\ Item(b) \in Findings /\ Linkable(Item(b)) /\ Alive(Item(b)) /\ Upsert(Item(b))
        /\ bpc[b] = "upsert" /\ bpc'[b] = "link" /\ link' = link
    BY <1>0, <1>4, ItemIsFinding DEF BackfillUpsert
  <2>2. Links(v)' = Links(v) /\ b \notin PB(v) /\ Item(b)' = Item(b)
    BY <1>2, <2>1 DEF Links, PB
  <2>3. CASE UidOf[Item(b)] = v
    <3>1. b \in PB(v)'
      BY <1>1, <2>1, <2>2, <2>3 DEF PB, Alive
    <3>2. PB(v)' = PB(v) \cup {b}
      BY <1>3, <3>1 DEF PB
    <3>3. count'[v] = count[v] + 1
      BY <1>0, <2>1, <2>3, UpsertTypes
    <3> QED BY <1>1, <2>2, <3>2, <3>3 DEF Counted
  <2>4. CASE UidOf[Item(b)] # v
    <3>1. b \notin PB(v)'
      BY <2>2, <2>4 DEF PB
    <3>2. PB(v)' = PB(v)
      BY <1>3, <2>2, <3>1 DEF PB
    <3>3. count'[v] = count[v]
      BY <1>0, <2>1, <2>4, UpsertTypes
    <3> QED BY <1>1, <2>2, <3>2, <3>3 DEF Quiet
  <2> QED BY <2>3, <2>4
<1>5. ASSUME ~ BackfillUpsert(b) PROVE b \notin PB(v)' /\ PB(v)' = PB(v) \ {b} /\ count' = count
  <2>1. bpc'[b] # "link"
    <3>1. CASE NextItem(b, TRUE) \/ NextItem(b, FALSE)
      BY <1>0, <3>1 DEF NextItem
    <3> QED BY <1>0, <1>5, <3>1
        DEF Backfill, BackfillStep, StartBackfill, QueryBatch, BackfillSkip, BackfillLink, BackfillRead,
        BackfillWrite, BackfillReturns, BackfillDies
  <2>2. b \notin PB(v)'
    BY <2>1 DEF PB
  <2>3. count' = count
    BY <1>5 DEF Backfill, BackfillStep, StartBackfill, QueryBatch, BackfillSkip, BackfillLink, BackfillRead,
       BackfillWrite, BackfillReturns, BackfillDies, vulns
  <2> QED BY <1>3, <2>2, <2>3 DEF PB
<1>6. CASE BackfillLink(b)
  <2>1. /\ Item(b) \in Findings /\ Linkable(Item(b)) /\ Alive(Item(b)) /\ bpc[b] = "link"
        /\ link' = [link EXCEPT ![Item(b)] = UidOf[Item(b)]]
    BY <1>6, ItemIsFinding DEF BackfillLink, BatchesOK, BatchOK
  <2>2. ~ BackfillUpsert(b)
    BY <2>1 DEF BackfillUpsert
  <2>3. CASE UidOf[Item(b)] = v
    <3>1. b \in PB(v)
      BY <2>1, <2>3 DEF PB
    <3>2. Links(v)' = Links(v) \cup {Item(b)}
      BY <1>0, <2>1, <2>3 DEF Links
    <3> QED BY <1>1, <1>5, <2>1, <2>2, <3>1, <3>2 DEF Linked
  <2>4. CASE UidOf[Item(b)] # v
    <3>1. b \notin PB(v)
      BY <2>4 DEF PB
    <3>2. link[Item(b)] # v
      BY <2>1, <2>4 DEF LinksOK
    <3>3. Links(v)' = Links(v)
      BY <1>0, <2>1, <2>4, <3>2 DEF Links
    <3> QED BY <1>1, <1>5, <2>2, <3>1, <3>3 DEF Quiet
  <2> QED BY <2>3, <2>4
<1>7. CASE ~ BackfillUpsert(b) /\ ~ BackfillLink(b)
  <2>1. Links(v)' = Links(v)
    <3>1. link' = link
      BY <1>7 DEF Backfill, BackfillStep, StartBackfill, QueryBatch, BackfillSkip, BackfillRead,
         BackfillWrite, BackfillReturns, BackfillDies
    <3> QED BY <3>1 DEF Links
  <2>2. b \in PB(v) => Fault
    <3>1. b \in PB(v) => bpc[b] = "link" /\ Linkable(Item(b)) /\ Alive(Item(b))
      BY DEF PB, BatchesOK, BatchOK
    <3> QED BY <1>7, <3>1 DEF Backfill, BackfillStep, StartBackfill, QueryBatch, BackfillSkip, BackfillRead,
       BackfillWrite, BackfillReturns, BackfillDies
  <2>3. faults' = 0 => PB(v)' = PB(v)
    <3>1. CASE b \in PB(v)
      BY <1>0, <2>2, <3>1 DEF Fault
    <3>2. CASE b \notin PB(v)
      BY <1>5, <1>7, <3>2
    <3> QED BY <3>1, <3>2
  <2> QED BY <1>1, <1>5, <1>7, <2>1, <2>3 DEF Quiet
<1> QED BY <1>4, <1>6, <1>7

LEMMA DeletionCounts ==
  ASSUME TypeOK, LocalsOK, LinksOK, NEW p \in Projects, DeleteProject(p), NEW v \in Vulns
  PROVE  Quiet(v) \/ Emptied(v)
<1>1. UNCHANGED <<handler, backfill>> /\ live' = live \ {p}
  BY DeletionKeeps DEF DeleteProject
<1>2. /\ \A s \in Scans : pc'[s] = pc[s] /\ Cur(s)' = Cur(s) /\ (pc[s] = "link" => Cur(s) \in Findings)
      /\ \A b \in Backfills : bpc'[b] = bpc[b] /\ Item(b)' = Item(b) /\ (bpc[b] = "link" => Item(b) \in Findings)
  BY <1>1, CurIsFinding, ItemIsFinding DEF handler, backfill, Cur, Item, Idle
<1>3. \A f \in Findings : UidOf[f] = v => (Alive(f) <=> ~ Gone(v)) /\ (Alive(f)' <=> ~ Gone(v)')
  BY DEF Gone, Alive
<1>4. CASE Gone(v)' /\ ~ Gone(v)
  <2>1. count'[v] = 0 /\ Links(v)' = {}
    BY <1>4, DeletionUnlinks
  <2>2. PH(v)' = {}
    BY <1>2, <1>3, <1>4 DEF PH, Alive
  <2>3. PB(v)' = {}
    BY <1>2, <1>3, <1>4 DEF PB, Alive
  <2> QED BY <1>4, <2>1, <2>2, <2>3 DEF Emptied
<1>5. CASE Gone(v) \/ ~ Gone(v)'
  <2>1. count'[v] = count[v] /\ Links(v)' = Links(v)
    BY <1>5, DeletionUnlinks
  <2>2. Gone(v)' <=> Gone(v)
    BY <1>1, <1>5, DeletionUnlinks DEF Gone, Alive
  <2>3. PH(v)' = PH(v)
    BY <1>2, <1>3, <2>2 DEF PH, Alive
  <2>4. PB(v)' = PB(v)
    BY <1>2, <1>3, <2>2 DEF PB, Alive
  <2> QED BY <2>1, <2>3, <2>4 DEF Quiet
<1> QED BY <1>4, <1>5

LEMMA StepCounts ==
  ASSUME TypeOK, LocalsOK, Stages, LinksOK, BatchesOK, [Next]_vars, NEW v \in Vulns
  PROVE  Quiet(v) \/ Counted(v) \/ Linked(v) \/ Emptied(v)
<1>1. CASE UNCHANGED vars
  <2>1. UNCHANGED <<count, link, handler, backfill, live>>
    BY <1>1 DEF vars, vulns
  <2> QED BY <2>1 DEF Quiet, Links, PH, PB, handler, backfill, Cur, Item, Alive
<1> QED BY <1>1, ThreeKinds, HandlerCounts, BackfillCounts, DeletionCounts

LEMMA PendingIsFinite ==
  ASSUME NEW v
  PROVE  /\ Pending(v) = Cardinality(PH(v)) + Cardinality(PB(v))
         /\ IsFiniteSet(PH(v)) /\ Cardinality(PH(v)) \in Nat
         /\ IsFiniteSet(PB(v)) /\ Cardinality(PB(v)) \in Nat
<1>1. PH(v) \subseteq Scans /\ PB(v) \subseteq Backfills
  BY DEF PH, PB
<1> QED BY <1>1, FS_Subset, FS_CardinalityType DEF Pending, PH, PB

\* What the steps do to the cardinalities, for any sets L of links and H and B
\* of pending handlers and backfills.
LEMMA GrowsByOne ==
  ASSUME NEW S, IsFiniteSet(S), NEW x
  PROVE  /\ Cardinality(S) \in Nat /\ IsFiniteSet(S \cup {x}) /\ Cardinality(S \cup {x}) \in Nat
         /\ x \notin S => Cardinality(S \cup {x}) = Cardinality(S) + 1
         /\ Cardinality(S \cup {x}) <= Cardinality(S) + 1
<1>1. Cardinality(S) \in Nat
  BY FS_CardinalityType
<1>2. IsFiniteSet(S \cup {x}) /\ Cardinality(S \cup {x}) = IF x \in S THEN Cardinality(S) ELSE Cardinality(S) + 1
  BY FS_AddElement
<1> QED BY <1>1, <1>2

LEMMA ShrinksByOne ==
  ASSUME NEW S, IsFiniteSet(S), NEW x \in S
  PROVE  Cardinality(S) \in Nat /\ Cardinality(S \ {x}) = Cardinality(S) - 1
BY FS_RemoveElement, FS_CardinalityType

LEMMA QuietSum ==
  ASSUME NEW L, NEW H, NEW B, IsFiniteSet(L), IsFiniteSet(H), IsFiniteSet(B),
         NEW H2 \in SUBSET H, NEW B2 \in SUBSET B, NEW c \in Nat
  PROVE  c >= Cardinality(L) + (Cardinality(H) + Cardinality(B)) =>
         c >= Cardinality(L) + (Cardinality(H2) + Cardinality(B2))
<1>1. Cardinality(L) \in Nat /\ Cardinality(H) \in Nat /\ Cardinality(B) \in Nat
  BY FS_CardinalityType
<1>2. IsFiniteSet(H2) /\ Cardinality(H2) <= Cardinality(H)
  BY FS_Subset
<1>3. IsFiniteSet(B2) /\ Cardinality(B2) <= Cardinality(B)
  BY FS_Subset
<1>4. Cardinality(H2) \in Nat /\ Cardinality(B2) \in Nat
  BY <1>2, <1>3, FS_CardinalityType
<1> QED BY <1>1, <1>2, <1>3, <1>4

LEMMA CountedSum ==
  ASSUME NEW L, NEW H, NEW B, IsFiniteSet(L), IsFiniteSet(H), IsFiniteSet(B), NEW x, x \notin H, NEW c \in Nat
  PROVE  /\ c >= Cardinality(L) + (Cardinality(H) + Cardinality(B)) =>
              c + 1 >= Cardinality(L) + (Cardinality(H \cup {x}) + Cardinality(B))
         /\ c = Cardinality(L) + (Cardinality(H) + Cardinality(B)) =>
              c + 1 = Cardinality(L) + (Cardinality(H \cup {x}) + Cardinality(B))
<1>1. PICK l \in Nat, b \in Nat : l = Cardinality(L) /\ b = Cardinality(B)
  BY FS_CardinalityType
<1>2. PICK h \in Nat : h = Cardinality(H) /\ h + 1 = Cardinality(H \cup {x})
  BY GrowsByOne
<1>3. (c >= l + (h + b) => c + 1 >= l + ((h + 1) + b)) /\ (c = l + (h + b) => c + 1 = l + ((h + 1) + b))
  OBVIOUS
<1> QED BY <1>1, <1>2, <1>3, Zenon

LEMMA LinkedSum ==
  ASSUME NEW L, NEW H, NEW B, IsFiniteSet(L), IsFiniteSet(H), IsFiniteSet(B), NEW x \in H, NEW f, NEW c \in Nat
  PROVE  /\ c >= Cardinality(L) + (Cardinality(H) + Cardinality(B)) =>
              c >= Cardinality(L \cup {f}) + (Cardinality(H \ {x}) + Cardinality(B))
         /\ c = Cardinality(L) + (Cardinality(H) + Cardinality(B)) /\ f \notin L =>
              c = Cardinality(L \cup {f}) + (Cardinality(H \ {x}) + Cardinality(B))
<1>1. PICK b \in Nat : b = Cardinality(B)
  BY FS_CardinalityType
<1>2. PICK h \in Nat : h = Cardinality(H) /\ h - 1 = Cardinality(H \ {x})
  BY ShrinksByOne
<1>3. PICK l \in Nat, m \in Nat : /\ l = Cardinality(L) /\ m = Cardinality(L \cup {f})
                                  /\ m <= l + 1 /\ (f \notin L => m = l + 1)
  BY GrowsByOne
<1>4. /\ c >= l + (h + b) => c >= m + ((h - 1) + b)
      /\ c = l + (h + b) /\ f \notin L => c = m + ((h - 1) + b)
  BY <1>3
<1> QED BY <1>1, <1>2, <1>3, <1>4, Zenon

\* The sum of the links and of what is pending.
Sum(v) == Cardinality(Links(v)) + (Cardinality(PH(v)) + Cardinality(PB(v)))

LEMMA SumIs ==
  ASSUME TypeOK, NEW v \in Vulns
  PROVE  /\ Cardinality(Links(v)) + Pending(v) = Sum(v)
         /\ IsFiniteSet(Links(v)) /\ IsFiniteSet(PH(v)) /\ IsFiniteSet(PB(v)) /\ count[v] \in Nat
BY PendingIsFinite, LinksAreFinite DEF Sum, TypeOK

LEMMA SwappedSum ==
  ASSUME NEW L, NEW H, NEW B, IsFiniteSet(L), IsFiniteSet(H), IsFiniteSet(B)
  PROVE  Cardinality(L) + (Cardinality(H) + Cardinality(B)) = Cardinality(L) + (Cardinality(B) + Cardinality(H))
BY FS_CardinalityType

LEMMA StepCountCovers ==
  ASSUME TypeOK, LocalsOK, Stages, LinksOK, BatchesOK, [Next]_vars, NEW v \in Vulns, count[v] >= Sum(v)
  PROVE  count'[v] >= Sum(v)'
<1>1. IsFiniteSet(Links(v)) /\ IsFiniteSet(PH(v)) /\ IsFiniteSet(PB(v)) /\ count[v] \in Nat
  BY SumIs
<1>2. CASE Quiet(v)
  BY <1>1, <1>2, QuietSum DEF Quiet, Sum
<1>3. CASE Counted(v)
  <2>1. CASE PB(v)' = PB(v) /\ \E s \in Scans \ PH(v) : PH(v)' = PH(v) \cup {s}
    <3>1. PICK s \in Scans \ PH(v) : PH(v)' = PH(v) \cup {s}
      BY <2>1
    <3>2. s \notin PH(v) /\ count'[v] = count[v] + 1 /\ Links(v)' = Links(v)
      BY <1>3, <3>1 DEF Counted
    <3>3. count[v] + 1 >= Cardinality(Links(v)) + (Cardinality(PH(v) \cup {s}) + Cardinality(PB(v)))
      BY <1>1, <3>2, CountedSum DEF Sum
    <3> QED BY <2>1, <3>1, <3>2, <3>3 DEF Sum
  <2>2. CASE PH(v)' = PH(v) /\ \E b \in Backfills \ PB(v) : PB(v)' = PB(v) \cup {b}
    <3>1. PICK b \in Backfills \ PB(v) : PB(v)' = PB(v) \cup {b}
      BY <2>2
    <3>2. b \notin PB(v) /\ count'[v] = count[v] + 1 /\ Links(v)' = Links(v) /\ IsFiniteSet(PB(v) \cup {b})
      BY <1>1, <1>3, <3>1, GrowsByOne DEF Counted
    <3>3. count[v] >= Cardinality(Links(v)) + (Cardinality(PB(v)) + Cardinality(PH(v)))
      BY <1>1, SwappedSum DEF Sum
    <3>4. count[v] + 1 >= Cardinality(Links(v)) + (Cardinality(PB(v) \cup {b}) + Cardinality(PH(v)))
      BY <1>1, <3>2, <3>3, CountedSum
    <3>5. count[v] + 1 >= Cardinality(Links(v)) + (Cardinality(PH(v)) + Cardinality(PB(v) \cup {b}))
      BY <1>1, <3>2, <3>4, SwappedSum
    <3> QED BY <2>2, <3>1, <3>2, <3>5 DEF Sum
  <2> QED BY <1>3, <2>1, <2>2 DEF Counted
<1>4. CASE Linked(v)
  <2>1. PICK f \in Findings :
          /\ Links(v)' = Links(v) \cup {f}
          /\ \/ PB(v)' = PB(v) /\ \E s \in PH(v) : f = Cur(s) /\ PH(v)' = PH(v) \ {s}
             \/ PH(v)' = PH(v) /\ \E b \in PB(v) : f = Item(b) /\ PB(v)' = PB(v) \ {b}
    BY <1>4 DEF Linked
  <2>2. CASE PB(v)' = PB(v) /\ \E s \in PH(v) : f = Cur(s) /\ PH(v)' = PH(v) \ {s}
    <3>1. PICK s \in PH(v) : PH(v)' = PH(v) \ {s}
      BY <2>2
    <3>2. count[v] >= Cardinality(Links(v) \cup {f}) + (Cardinality(PH(v) \ {s}) + Cardinality(PB(v)))
      BY <1>1, LinkedSum DEF Sum
    <3> QED BY <1>4, <2>1, <2>2, <3>1, <3>2 DEF Linked, Sum
  <2>3. CASE PH(v)' = PH(v) /\ \E b \in PB(v) : f = Item(b) /\ PB(v)' = PB(v) \ {b}
    <3>1. PICK b \in PB(v) : PB(v)' = PB(v) \ {b}
      BY <2>3
    <3>2. IsFiniteSet(PB(v) \ {b}) /\ IsFiniteSet(Links(v) \cup {f})
      BY <1>1, GrowsByOne, FS_RemoveElement
    <3>3. count[v] >= Cardinality(Links(v)) + (Cardinality(PB(v)) + Cardinality(PH(v)))
      BY <1>1, SwappedSum DEF Sum
    <3>4. count[v] >= Cardinality(Links(v) \cup {f}) + (Cardinality(PB(v) \ {b}) + Cardinality(PH(v)))
      BY <1>1, <3>3, LinkedSum
    <3>5. count[v] >= Cardinality(Links(v) \cup {f}) + (Cardinality(PH(v)) + Cardinality(PB(v) \ {b}))
      BY <1>1, <3>2, <3>4, SwappedSum
    <3> QED BY <1>4, <2>1, <2>3, <3>1, <3>5 DEF Linked, Sum
  <2> QED BY <2>1, <2>2, <2>3
<1>5. CASE Emptied(v)
  BY <1>5, FS_EmptySet DEF Emptied, Sum
<1> QED BY <1>2, <1>3, <1>4, <1>5, StepCounts

-----------------------------------------------------------------------------
(* The exact count.                                                        *)

LEMMA FaultsGrow == ASSUME TypeOK, [Next]_vars, faults' = 0 PROVE faults = 0
<1>1. faults' = faults \/ Fault
  <2>1. ASSUME NEW s \in Scans, Handler(s) PROVE faults' = faults \/ Fault
    BY <2>1 DEF Handler, HandlerStep, Begin, Insert, InsertConflict, InsertFails, UpsertVuln, LinkFinding,
       LinkFails, ReadScanners, WriteScore, RecalcFails, ApplyPolicies, Notify, Finish, Interrupt, bounds
  <2>2. ASSUME NEW b \in Backfills, Backfill(b) PROVE faults' = faults \/ Fault
    BY <2>2 DEF Backfill, BackfillStep, StartBackfill, QueryBatch, BackfillUpsert, BackfillSkip,
       BackfillLink, BackfillRead, BackfillWrite, BackfillReturns, BackfillDies, bounds
  <2> QED BY <2>1, <2>2, ThreeKinds, DeletionKeeps DEF vars, bounds
<1> QED BY <1>1 DEF Fault, TypeOK

LEMMA OnlyStartsOverlap ==
  ASSUME [Next]_vars
  PROVE  \/ UNCHANGED overlap
         \/ \E s \in Scans : Begin(s)
         \/ \E b \in Backfills : StartBackfill(b)
<1>1. ASSUME NEW s \in Scans, Handler(s) PROVE UNCHANGED overlap \/ Begin(s)
  BY <1>1 DEF Handler, HandlerStep, Insert, InsertConflict, InsertFails, UpsertVuln, LinkFinding,
     LinkFails, ReadScanners, WriteScore, RecalcFails, ApplyPolicies, Notify, Finish, Interrupt, history
<1>2. ASSUME NEW b \in Backfills, Backfill(b) PROVE UNCHANGED overlap \/ StartBackfill(b)
  BY <1>2 DEF Backfill, BackfillStep, QueryBatch, BackfillUpsert, BackfillSkip,
     BackfillLink, BackfillRead, BackfillWrite, BackfillReturns, BackfillDies, history
<1> QED BY <1>1, <1>2, ThreeKinds, DeletionKeeps DEF vars, history

LEMMA OverlapGrows ==
  ASSUME [Next]_vars, ~ overlap'
  PROVE  /\ ~ overlap
         /\ \A s \in Scans : Begin(s) => \A b \in Backfills : ~ Busy(b)
         /\ \A c \in Backfills : StartBackfill(c) =>
              (\A b \in Backfills : ~ Busy(b)) /\ \A s \in Scans : ~ Scanning(s)
<1>1. ASSUME NEW s \in Scans, Begin(s) PROVE ~ overlap /\ \A b \in Backfills : ~ Busy(b)
  <2>1. overlap' = (overlap \/ \E b \in Backfills : Busy(b))
    BY <1>1 DEF Begin
  <2> QED BY <2>1, Zenon
<1>2. ASSUME NEW c \in Backfills, StartBackfill(c)
      PROVE  ~ overlap /\ (\A b \in Backfills : ~ Busy(b)) /\ \A s \in Scans : ~ Scanning(s)
  <2>1. overlap' = (overlap \/ (\E s \in Scans : Scanning(s)) \/ \E b \in Backfills : Busy(b))
    BY <1>2 DEF StartBackfill
  <2>2. ~ overlap /\ ~ (\E s \in Scans : Scanning(s)) /\ ~ \E b \in Backfills : Busy(b)
    BY <2>1, Zenon
  <2> QED BY <2>2
<1> QED BY <1>1, <1>2, OnlyStartsOverlap

LEMMA StepApart ==
  ASSUME TypeOK, LocalsOK, UnstoredOK, OneHandler, BatchesOK, Stages, LinksOK, Apart, [Next]_vars
  PROVE  Apart'
<1> SUFFICES ASSUME ~ overlap'
             PROVE  /\ \A b \in Backfills : Busy(b)' => \A s \in Scans : ~ Scanning(s)'
                    /\ \A b, c \in Backfills : Busy(b)' /\ Busy(c)' => b = c
                    /\ \A s \in Scans : Fresh(s)'
                    /\ \A b \in Backfills : BFresh(b)'
  BY Zenon DEF Apart
<1>1. ~ overlap
  BY OverlapGrows
<1>2. /\ \A b \in Backfills : Busy(b) => \A s \in Scans : ~ Scanning(s)
      /\ \A b, c \in Backfills : Busy(b) /\ Busy(c) => b = c
      /\ \A s \in Scans : Fresh(s)
      /\ \A b \in Backfills : BFresh(b)
  BY <1>1, Zenon DEF Apart
<1>3. /\ pc \in [Scans -> HandlerPC] /\ bpc \in [Backfills -> BackfillPC]
      /\ link \in [Findings -> Vulns \cup {NoVuln}]
      /\ batch \in [Backfills -> Seq(Findings)] /\ bat \in [Backfills -> Nat \ {0}]
  BY DEF TypeOK, LocalsOK
<1>4. CASE UNCHANGED vars
  <2>1. UNCHANGED <<link, handler, backfill>>
    BY <1>4 DEF vars
  <2> QED BY <1>2, <2>1 DEF Fresh, BFresh, Busy, Scanning, handler, backfill, Cur
<1>5. ASSUME NEW s \in Scans, Handler(s)
      PROVE  /\ \A b \in Backfills : ~ Busy(b)' /\ BFresh(b)'
             /\ \A t \in Scans : Fresh(t)'
  <2>1. \A b \in Backfills : ~ Busy(b)
    <3> SUFFICES ASSUME NEW b \in Backfills, Busy(b) PROVE FALSE
      OBVIOUS
    <3>1. ~ Scanning(s)
      BY <1>2
    <3>2. Begin(s)
      BY <1>5, <3>1 DEF Handler, HandlerStep, Insert, InsertConflict, InsertFails, UpsertVuln, LinkFinding,
         LinkFails, ReadScanners, WriteScore, RecalcFails, ApplyPolicies, Notify, Finish, Interrupt, Scanning, Idle
    <3> QED BY <3>2, OverlapGrows
  <2>2. \A b \in Backfills : ~ Busy(b)' /\ BFresh(b)'
    BY <1>5, <2>1, HandlerKeeps DEF Busy, BFresh, backfill
  <2>3. ASSUME NEW t \in Scans \ {s} PROVE Fresh(t)'
    <3>1. pc'[t] = pc[t] /\ Cur(t)' = Cur(t)
      BY <1>5, HandlersApart
    <3>2. CASE pc[t] \in {"upsert", "link"}
      <4>1. Working(t) /\ Cur(t) \in Findings /\ Cur(t) \in Stored
        BY <3>2, CurIsFinding DEF Working, Idle, OneHandler
      <4>2. Working(s) \/ Insert(s) => Cur(t) # Cur(s)
        BY <4>1, InsertStores DEF OneHandler
      <4>3. link'[Cur(t)] = link[Cur(t)]
        BY <1>5, <4>1, <4>2, HandlerTouches DEF Untouched
      <4> QED BY <1>2, <3>1, <3>2, <4>3 DEF Fresh
    <3>3. CASE pc[t] \notin {"upsert", "link"}
      BY <3>1, <3>3 DEF Fresh
    <3> QED BY <3>2, <3>3
  <2>4. Fresh(s)'
    <3> SUFFICES ASSUME pc'[s] \in {"upsert", "link"} PROVE link'[Cur(s)'] = NoVuln
      BY DEF Fresh
    <3>1. Working(s)'
      BY DEF Working, Idle
    <3>2. Cur(s)' = Cur(s)
      BY <1>5, <3>1, HandlersApart
    <3>3. ~ AfterLink(s) /\ ~ Continue(s) /\ ~ Interrupt(s)
      BY <1>3 DEF AfterLink, Continue, Interrupt, Goto
    <3>4. Insert(s) \/ UpsertVuln(s)
      BY <1>3, <1>5, <3>3 DEF Handler, HandlerStep, Begin, InsertConflict, InsertFails, LinkFinding, LinkFails,
         ReadScanners, WriteScore, RecalcFails, ApplyPolicies, Notify, Finish, Goto
    <3>5. CASE Insert(s)
      <4>1. link[Cur(s)] = NoVuln
        BY <3>5, InsertStores DEF UnstoredOK
      <4> QED BY <3>2, <3>5, <4>1 DEF Insert
    <3>6. CASE UpsertVuln(s)
      <4>1. link[Cur(s)] = NoVuln
        BY <1>2, <3>6 DEF UpsertVuln, Fresh
      <4> QED BY <3>2, <3>6, <4>1 DEF UpsertVuln
    <3> QED BY <3>4, <3>5, <3>6
  <2> QED BY <2>2, <2>3, <2>4
<1>6. ASSUME NEW b \in Backfills, Backfill(b)
      PROVE  /\ \A s \in Scans : ~ Scanning(s)' /\ Fresh(s)'
             /\ \A c \in Backfills : Busy(c)' => c = b
             /\ \A c \in Backfills : BFresh(c)'
  <2>1. \A s \in Scans : ~ Scanning(s)
    <3>1. CASE StartBackfill(b)
      BY <3>1, OverlapGrows
    <3>2. CASE ~ StartBackfill(b)
      <4>1. Busy(b)
        BY <1>6, <3>2 DEF Backfill, BackfillStep, QueryBatch, BackfillUpsert, BackfillSkip,
           BackfillLink, BackfillRead, BackfillWrite, BackfillReturns, BackfillDies, Busy
      <4> QED BY <1>2, <4>1
    <3> QED BY <3>1, <3>2
  <2>2. \A c \in Backfills \ {b} : ~ Busy(c)
    <3>1. CASE StartBackfill(b)
      BY <3>1, OverlapGrows
    <3>2. CASE ~ StartBackfill(b)
      <4>1. Busy(b)
        BY <1>6, <3>2 DEF Backfill, BackfillStep, QueryBatch, BackfillUpsert, BackfillSkip,
           BackfillLink, BackfillRead, BackfillWrite, BackfillReturns, BackfillDies, Busy
      <4> QED BY <1>2, <4>1
    <3> QED BY <3>1, <3>2
  <2>3. \A s \in Scans : ~ Scanning(s)' /\ Fresh(s)'
    BY <1>6, <2>1, BackfillKeeps DEF Scanning, Fresh, handler, Idle
  <2>4. \A c \in Backfills \ {b} : bpc'[c] = bpc[c]
    BY <1>6, BackfillsApart
  <2>5. \A c \in Backfills \ {b} : ~ Busy(c)' /\ BFresh(c)'
    BY <2>2, <2>4 DEF Busy, BFresh
  <2>6. link' = link \/ BackfillLink(b)
    BY <1>6 DEF Backfill, BackfillStep, StartBackfill, QueryBatch, BackfillUpsert, BackfillSkip,
       BackfillRead, BackfillWrite, BackfillReturns, BackfillDies
  <2>7. BFresh(b)'
    <3>1. CASE TakesUp(b)
      <4>1. link' = link /\ batch' = batch /\ bat' = bat /\ bpc[b] = "upsert"
        BY <2>6, <3>1 DEF TakesUp, BackfillLink
      <4> QED BY <1>2, <4>1 DEF BFresh
    <3>2. CASE NextRow(b)
      <4>1. /\ bat'[b] = bat[b] + 1 /\ batch'[b] = batch[b] /\ bpc[b] \in {"upsert", "link"}
            /\ bat[b] \in 1..Len(batch[b]) /\ Len(batch[b]) \in Nat
        BY <1>3, <3>2, LenProperties DEF NextRow, TypeOK
      <4> SUFFICES ASSUME NEW i \in bat[b] + 1..Len(batch[b]) PROVE link'[batch[b][i]] = NoVuln
        BY <4>1 DEF BFresh
      <4>2. i \in 1..Len(batch[b]) /\ i \in bat[b]..Len(batch[b]) /\ i # bat[b]
        BY <4>1
      <4>3. link[batch[b][i]] = NoVuln
        BY <1>2, <4>1, <4>2 DEF BFresh
      <4>4. batch[b][i] # Item(b) /\ batch[b][i] \in Findings
        <5>1. batch[b] \in Seq(Findings)
          BY <1>3
        <5> QED BY <4>1, <4>2, <5>1, ElementOfSeq DEF BatchesOK, BatchOK, Item
      <4>5. link'[batch[b][i]] = link[batch[b][i]]
        BY <1>3, <2>6, <4>4 DEF BackfillLink
      <4> QED BY <4>3, <4>5
    <3>3. CASE Drops(b)
      BY <1>3, <3>3 DEF Drops, BFresh
    <3>4. CASE TakesBatch(b)
      <4>1. PICK q \in Ordered : batch'[b] = Page(q) /\ bat'[b] = 1 /\ link' = link
        BY <1>3, <3>4 DEF TakesBatch
      <4>2. \A i \in 1..Len(Page(q)) : link[Page(q)[i]] = NoVuln
        BY PageOfUnlinked
      <4> QED BY <4>1, <4>2 DEF BFresh
    <3>5. CASE Turns(b)
      BY <1>3, <3>5 DEF Turns, BFresh
    <3> QED BY <1>6, <3>1, <3>2, <3>3, <3>4, <3>5, BackfillMoves
  <2> QED BY <2>3, <2>5, <2>7
<1>7. ASSUME NEW p \in Projects, DeleteProject(p)
      PROVE  /\ UNCHANGED <<handler, backfill>>
             /\ \A s \in Scans : Fresh(s)'
             /\ \A b \in Backfills : BFresh(b)'
  <2>1. UNCHANGED <<handler, backfill>>
    BY <1>7, DeletionKeeps
  <2>2. \A f \in Findings : link[f] = NoVuln => link'[f] = NoVuln
    BY <1>7, DeletionUnlinks
  <2>3. ASSUME NEW s \in Scans PROVE Fresh(s)'
    <3>1. pc[s] \in {"upsert", "link"} => Cur(s) \in Findings
      BY CurIsFinding DEF Idle
    <3> QED BY <1>2, <2>1, <2>2, <3>1 DEF Fresh, handler, Cur
  <2>4. ASSUME NEW b \in Backfills PROVE BFresh(b)'
    <3>1. \A i \in 1..Len(batch[b]) : batch[b][i] \in Findings
      BY <1>3, ElementOfSeq
    <3>2. bpc[b] \in {"upsert", "link"} => bat[b] \in 1..Len(batch[b]) /\ Len(batch[b]) \in Nat
      BY <1>3, LenProperties DEF TypeOK
    <3>3. bpc[b] \in {"upsert", "link"} => \A i \in bat[b]..Len(batch[b]) : i \in 1..Len(batch[b])
      BY <3>2
    <3> QED BY <1>2, <2>1, <2>2, <3>1, <3>3 DEF BFresh, backfill
  <2> QED BY <2>1, <2>3, <2>4
<1>8. CASE \E p \in Projects : DeleteProject(p)
  <2>1. /\ \A b \in Backfills : Busy(b)' => \A s \in Scans : ~ Scanning(s)'
        /\ \A b, c \in Backfills : Busy(b)' /\ Busy(c)' => b = c
    BY <1>2, <1>7, <1>8 DEF Busy, Scanning, handler, backfill
  <2>2. (\A s \in Scans : Fresh(s)') /\ \A b \in Backfills : BFresh(b)'
    BY <1>7, <1>8
  <2> QED BY <2>1, <2>2
<1> QED BY <1>4, <1>5, <1>6, <1>8, ThreeKinds

\* What is pending is not linked yet.
LEMMA PendingIsUnlinked ==
  ASSUME TypeOK, LocalsOK, Apart, ~ overlap, NEW v \in Vulns
  PROVE  /\ \A s \in PH(v) : Cur(s) \notin Links(v)
         /\ \A b \in PB(v) : Item(b) \notin Links(v)
<1>1. (\A s \in Scans : Fresh(s)) /\ \A b \in Backfills : BFresh(b)
  BY Zenon DEF Apart
<1>2. NoVuln # v
  OBVIOUS
<1>3. ASSUME NEW s \in PH(v) PROVE Cur(s) \notin Links(v)
  BY <1>1, <1>2 DEF PH, Fresh, Links
<1>4. ASSUME NEW b \in PB(v) PROVE Item(b) \notin Links(v)
  <2>1. b \in Backfills /\ bpc[b] = "link"
    BY DEF PB
  <2>2. bat[b] \in 1..Len(batch[b]) /\ Len(batch[b]) \in Nat
    BY <2>1, LenProperties DEF TypeOK, LocalsOK
  <2>3. bat[b] \in bat[b]..Len(batch[b])
    BY <2>2
  <2>4. \A i \in bat[b]..Len(batch[b]) : link[batch[b][i]] = NoVuln
    BY <1>1, <2>1 DEF BFresh
  <2>5. link[batch[b][bat[b]]] = NoVuln
    BY <2>3, <2>4
  <2> QED BY <1>2, <2>5 DEF Item, Links
<1> QED BY <1>3, <1>4

LEMMA StepCountExact ==
  ASSUME TypeOK, LocalsOK, Stages, LinksOK, BatchesOK, Apart, [Next]_vars, NEW v \in Vulns, count[v] = Sum(v),
         faults' = 0, ~ overlap'
  PROVE  count'[v] = Sum(v)'
<1>1. IsFiniteSet(Links(v)) /\ IsFiniteSet(PH(v)) /\ IsFiniteSet(PB(v)) /\ count[v] \in Nat
  BY SumIs
<1>2. CASE Quiet(v)
  BY <1>2 DEF Quiet, Sum
<1>3. CASE Counted(v)
  <2>1. CASE PB(v)' = PB(v) /\ \E s \in Scans \ PH(v) : PH(v)' = PH(v) \cup {s}
    <3>1. PICK s \in Scans \ PH(v) : PH(v)' = PH(v) \cup {s}
      BY <2>1
    <3>2. s \notin PH(v) /\ count'[v] = count[v] + 1 /\ Links(v)' = Links(v)
      BY <1>3, <3>1 DEF Counted
    <3>3. count[v] + 1 = Cardinality(Links(v)) + (Cardinality(PH(v) \cup {s}) + Cardinality(PB(v)))
      BY <1>1, <3>2, CountedSum DEF Sum
    <3> QED BY <2>1, <3>1, <3>2, <3>3 DEF Sum
  <2>2. CASE PH(v)' = PH(v) /\ \E b \in Backfills \ PB(v) : PB(v)' = PB(v) \cup {b}
    <3>1. PICK b \in Backfills \ PB(v) : PB(v)' = PB(v) \cup {b}
      BY <2>2
    <3>2. b \notin PB(v) /\ count'[v] = count[v] + 1 /\ Links(v)' = Links(v) /\ IsFiniteSet(PB(v) \cup {b})
      BY <1>1, <1>3, <3>1, GrowsByOne DEF Counted
    <3>3. count[v] = Cardinality(Links(v)) + (Cardinality(PB(v)) + Cardinality(PH(v)))
      BY <1>1, SwappedSum DEF Sum
    <3>4. count[v] + 1 = Cardinality(Links(v)) + (Cardinality(PB(v) \cup {b}) + Cardinality(PH(v)))
      BY <1>1, <3>2, <3>3, CountedSum
    <3>5. count[v] + 1 = Cardinality(Links(v)) + (Cardinality(PH(v)) + Cardinality(PB(v) \cup {b}))
      BY <1>1, <3>2, <3>4, SwappedSum
    <3> QED BY <2>2, <3>1, <3>2, <3>5 DEF Sum
  <2> QED BY <1>3, <2>1, <2>2 DEF Counted
<1>4. CASE Linked(v)
  <2>0. /\ \A s \in PH(v) : Cur(s) \notin Links(v)
        /\ \A b \in PB(v) : Item(b) \notin Links(v)
    BY PendingIsUnlinked, OverlapGrows
  <2>1. PICK f \in Findings :
          /\ Links(v)' = Links(v) \cup {f}
          /\ \/ PB(v)' = PB(v) /\ \E s \in PH(v) : f = Cur(s) /\ PH(v)' = PH(v) \ {s}
             \/ PH(v)' = PH(v) /\ \E b \in PB(v) : f = Item(b) /\ PB(v)' = PB(v) \ {b}
    BY <1>4 DEF Linked
  <2>2. CASE PB(v)' = PB(v) /\ \E s \in PH(v) : f = Cur(s) /\ PH(v)' = PH(v) \ {s}
    <3>1. PICK s \in PH(v) : f = Cur(s) /\ PH(v)' = PH(v) \ {s}
      BY <2>2
    <3>2. f \notin Links(v)
      BY <2>0, <3>1
    <3>3. count[v] = Cardinality(Links(v) \cup {f}) + (Cardinality(PH(v) \ {s}) + Cardinality(PB(v)))
      BY <1>1, <3>2, LinkedSum DEF Sum
    <3> QED BY <1>4, <2>1, <2>2, <3>1, <3>3 DEF Linked, Sum
  <2>3. CASE PH(v)' = PH(v) /\ \E b \in PB(v) : f = Item(b) /\ PB(v)' = PB(v) \ {b}
    <3>1. PICK b \in PB(v) : f = Item(b) /\ PB(v)' = PB(v) \ {b}
      BY <2>3
    <3>2. IsFiniteSet(PB(v) \ {b}) /\ IsFiniteSet(Links(v) \cup {f}) /\ f \notin Links(v)
      BY <1>1, <2>0, <3>1, GrowsByOne, FS_RemoveElement
    <3>3. count[v] = Cardinality(Links(v)) + (Cardinality(PB(v)) + Cardinality(PH(v)))
      BY <1>1, SwappedSum DEF Sum
    <3>4. count[v] = Cardinality(Links(v) \cup {f}) + (Cardinality(PB(v) \ {b}) + Cardinality(PH(v)))
      BY <1>1, <3>2, <3>3, LinkedSum
    <3>5. count[v] = Cardinality(Links(v) \cup {f}) + (Cardinality(PH(v)) + Cardinality(PB(v) \ {b}))
      BY <1>1, <3>2, <3>4, SwappedSum
    <3> QED BY <1>4, <2>1, <2>3, <3>1, <3>5 DEF Linked, Sum
  <2> QED BY <2>1, <2>2, <2>3
<1>5. CASE Emptied(v)
  BY <1>5, FS_EmptySet DEF Emptied, Sum
<1> QED BY <1>2, <1>3, <1>4, <1>5, StepCounts

LEMMA StepCountIsExact ==
  ASSUME TypeOK, LocalsOK, Stages, LinksOK, BatchesOK, Apart, CountIsExact, [Next]_vars
  PROVE  CountIsExact'
<1> SUFFICES ASSUME faults' = 0, ~ overlap', NEW v \in Vulns
             PROVE  count'[v] = Sum(v)'
  BY DEF CountIsExact, Sum, Pending, PH, PB
<1>1. faults = 0 /\ ~ overlap
  BY FaultsGrow, OverlapGrows
<1>2. count[v] = Cardinality(Links(v)) + Pending(v)
  BY <1>1 DEF CountIsExact
<1>3. count[v] = Sum(v)
  BY <1>2, SumIs
<1> QED BY <1>3, StepCountExact

-----------------------------------------------------------------------------
(* Coverage.                                                               *)

\* Only an upsert leaves a link to be made.
LEMMA UpsertsAwaitLinks ==
  ASSUME TypeOK, LocalsOK
  PROVE  /\ \A s \in Scans : Handler(s) /\ pc'[s] = "link" => UpsertVuln(s) /\ Cur(s)' = Cur(s)
         /\ \A b \in Backfills : Backfill(b) /\ bpc'[b] = "link" => BackfillUpsert(b) /\ Item(b)' = Item(b)
<1>1. pc \in [Scans -> HandlerPC] /\ bpc \in [Backfills -> BackfillPC]
  BY DEF TypeOK
<1>2. ASSUME NEW s \in Scans, Handler(s), pc'[s] = "link" PROVE UpsertVuln(s) /\ Cur(s)' = Cur(s)
  <2>1. Cur(s)' = Cur(s)
    BY <1>2, HandlersApart DEF Working, Idle
  <2>2. ~ AfterLink(s) /\ ~ Continue(s) /\ ~ Interrupt(s)
    BY <1>1, <1>2 DEF AfterLink, Continue, Interrupt, Goto
  <2>3. UpsertVuln(s)
    BY <1>1, <1>2, <2>2 DEF Handler, HandlerStep, Begin, Insert, InsertConflict, InsertFails, LinkFinding, LinkFails,
       ReadScanners, WriteScore, RecalcFails, ApplyPolicies, Notify, Finish, Goto
  <2> QED BY <2>1, <2>3
<1>3. ASSUME NEW b \in Backfills, Backfill(b), bpc'[b] = "link" PROVE BackfillUpsert(b) /\ Item(b)' = Item(b)
  <2>1. Item(b)' = Item(b)
    BY <1>3, BackfillsApart
  <2>2. ~ NextItem(b, TRUE) /\ ~ NextItem(b, FALSE)
    BY <1>1, <1>3 DEF NextItem
  <2>3. BackfillUpsert(b)
    BY <1>1, <1>3, <2>2 DEF Backfill, BackfillStep, StartBackfill, QueryBatch, BackfillSkip, BackfillLink,
       BackfillRead, BackfillWrite, BackfillReturns, BackfillDies
  <2> QED BY <2>1, <2>3
<1> QED BY <1>2, <1>3

LEMMA CoverageGrows ==
  ASSUME TypeOK, LocalsOK, Stages, LinksOK, [Next]_vars, NEW v \in Vulns, ~ Gone(v)'
  PROVE  coverage[v] \subseteq coverage'[v]
<1>0. VulnTypes
  BY TypesSplit
<1>1. ASSUME NEW f \in Findings, Linkable(f), Upsert(f) PROVE coverage[v] \subseteq coverage'[v]
  <2>1. CASE UidOf[f] = v
    BY <1>0, <1>1, <2>1, UpsertTypes
  <2>2. CASE UidOf[f] # v
    BY <1>0, <1>1, <2>2, UpsertTypes
  <2> QED BY <2>1, <2>2
<1>2. ASSUME NEW s \in Scans, UpsertVuln(s) PROVE coverage[v] \subseteq coverage'[v]
  <2>1. Cur(s) \in Findings /\ Linkable(Cur(s)) /\ Upsert(Cur(s))
    BY <1>2, CurIsFinding DEF UpsertVuln, Idle, Stages, StageOK
  <2> QED BY <1>1, <2>1
<1>3. ASSUME NEW b \in Backfills, BackfillUpsert(b) PROVE coverage[v] \subseteq coverage'[v]
  <2>1. Item(b) \in Findings /\ Linkable(Item(b)) /\ Upsert(Item(b))
    BY <1>3, ItemIsFinding DEF BackfillUpsert
  <2> QED BY <1>1, <2>1
<1>4. ASSUME NEW p \in Projects, DeleteProject(p) PROVE coverage'[v] = coverage[v]
  BY <1>4, DeletionUnlinks
<1> QED BY <1>2, <1>3, <1>4, OnlyUpsertsCount

\* A vulnerability of a deleted project has no links.
LEMMA GoneIsUnlinked ==
  ASSUME LinksOK, NEW v \in Vulns, Gone(v) PROVE Links(v) = {}
<1> SUFFICES ASSUME NEW f \in Findings, link[f] = v PROVE FALSE
  BY DEF Links
<1>1. PICK g \in Findings : UidOf[g] = v /\ ~ Alive(g)
  BY DEF Gone
<1>2. v # NoVuln /\ UidOf[f] = v /\ Alive(f)
  BY DEF LinksOK
<1>3. ProjectOf[f] = ProjectOf[g]
  BY <1>1, <1>2
<1> QED BY <1>1, <1>2, <1>3 DEF Alive

\* A living, linkable finding's vulnerability is not gone.
LEMMA AliveIsNotGone ==
  ASSUME NEW f \in Findings, Linkable(f), Alive(f) PROVE UidOf[f] \in Vulns /\ ~ Gone(UidOf[f])
BY DEF Gone, Alive, Linkable

LEMMA NewLinks ==
  ASSUME TypeOK, LocalsOK, Stages, LinksOK, BatchesOK, [Next]_vars, NEW v \in Vulns, ~ Gone(v)'
  PROVE  /\ Links(v) \subseteq Links(v)'
         /\ \A f \in Links(v)' \ Links(v) :
              \/ \E s \in PH(v) : f = Cur(s)
              \/ \E b \in PB(v) : f = Item(b)
<1>1. CASE Quiet(v) \/ Counted(v)
  BY <1>1 DEF Quiet, Counted
<1>2. CASE Linked(v)
  BY <1>2 DEF Linked
<1>3. CASE Emptied(v)
  BY <1>3 DEF Emptied
<1> QED BY <1>1, <1>2, <1>3, StepCounts

\* The same of the next state.
LEMMA GoneLinks == LinksOK => \A v \in Vulns : Gone(v) => Links(v) = {}
BY GoneIsUnlinked
LEMMA GoneLinksNext == (LinksOK => \A v \in Vulns : Gone(v) => Links(v) = {})'
BY GoneLinks, PTL

LEMMA StepAhead ==
  ASSUME TypeOK, LocalsOK, Stages, LinksOK, BatchesOK, Ahead, [Next]_vars PROVE Ahead'
<1>0. LinksOK' /\ \A v \in Vulns : Gone(v)' => Links(v)' = {}
  BY StepLinks, GoneLinksNext
<1>1. ASSUME NEW v \in Vulns PROVE count'[v] >= Sum(v)'
  <2>1. count[v] >= Sum(v)
    <3>1. count[v] >= Cardinality(Links(v)) + Pending(v)
      BY DEF Ahead
    <3> QED BY <3>1, SumIs
  <2> QED BY <2>1, StepCountCovers
<1>2. \A v \in Vulns : count'[v] >= Cardinality(Links(v)') + Pending(v)'
  BY <1>1 DEF Sum, Pending, PH, PB
<1>3. ASSUME NEW v \in Vulns PROVE ScannersOn(v)' \subseteq coverage'[v]
  <2> SUFFICES ASSUME NEW f \in Links(v)' PROVE ScannerOf[f] \in coverage'[v]
    BY DEF ScannersOn
  <2>1. ~ Gone(v)'
    BY <1>0
  <2>2. coverage[v] \subseteq coverage'[v]
    BY <2>1, CoverageGrows
  <2>3. CASE f \in Links(v)
    BY <2>2, <2>3 DEF Ahead, ScannersOn
  <2>4. ASSUME NEW s \in PH(v), f = Cur(s) PROVE ScannerOf[f] \in coverage[v]
    BY <2>4 DEF PH, Ahead
  <2>5. ASSUME NEW b \in PB(v), f = Item(b) PROVE ScannerOf[f] \in coverage[v]
    BY <2>5 DEF PB, Ahead
  <2>6. CASE f \notin Links(v)
    <3>1. (\E s \in PH(v) : f = Cur(s)) \/ (\E b \in PB(v) : f = Item(b))
      BY <2>1, <2>6, NewLinks
    <3> QED BY <2>2, <2>4, <2>5, <3>1
  <2> QED BY <2>3, <2>6
<1>4. ASSUME NEW f \in Findings, Linkable(f), Alive(f)'
      PROVE  UidOf[f] \in Vulns /\ coverage[UidOf[f]] \subseteq coverage'[UidOf[f]]
  <2>1. UidOf[f] \in Vulns /\ ~ Gone(UidOf[f])'
    BY <1>4 DEF Gone, Alive, Linkable
  <2> QED BY <2>1, CoverageGrows
<1>5. ASSUME NEW f \in Findings, Linkable(f), Upsert(f) PROVE ScannerOf[f] \in coverage'[UidOf[f]]
  <2>1. VulnTypes
    BY TypesSplit
  <2> QED BY <1>5, <2>1, UpsertTypes
<1>6. ASSUME NEW s \in Scans, pc'[s] = "link", Alive(Cur(s))' PROVE ScannerOf[Cur(s)'] \in coverage'[UidOf[Cur(s)']]
  <2>1. CASE UpsertVuln(s) /\ Cur(s)' = Cur(s)
    <3>1. Cur(s) \in Findings /\ Linkable(Cur(s)) /\ Upsert(Cur(s))
      BY <2>1, CurIsFinding DEF UpsertVuln, Idle, Stages, StageOK
    <3> QED BY <1>5, <2>1, <3>1
  <2>2. CASE pc[s] = "link" /\ Cur(s)' = Cur(s)
    <3>1. PICK f \in Findings : f = Cur(s) /\ f = Cur(s)' /\ Linkable(f)
      BY <2>2, CurIsFinding DEF Idle, Stages, StageOK
    <3>2. Alive(f)' /\ Alive(f)
      BY <1>6, <3>1, AliveStays DEF Alive
    <3>3. ScannerOf[f] \in coverage[UidOf[f]]
      BY <2>2, <3>1, <3>2 DEF Ahead
    <3> QED BY <1>4, <3>1, <3>2, <3>3
  <2>3. UNCHANGED handler => pc[s] = "link" /\ Cur(s)' = Cur(s)
    BY <1>6 DEF handler, Cur
  <2>4. ASSUME NEW t \in Scans \ {s}, Handler(t) PROVE pc[s] = "link" /\ Cur(s)' = Cur(s)
    BY <1>6, <2>4, HandlersApart
  <2>5. Handler(s) => UpsertVuln(s) /\ Cur(s)' = Cur(s)
    BY <1>6, UpsertsAwaitLinks
  <2> QED BY <2>1, <2>2, <2>3, <2>4, <2>5, ThreeKinds, BackfillKeeps, DeletionKeeps DEF vars
<1>7. ASSUME NEW b \in Backfills, bpc'[b] = "link", Alive(Item(b))' PROVE ScannerOf[Item(b)'] \in coverage'[UidOf[Item(b)']]
  <2>1. CASE BackfillUpsert(b) /\ Item(b)' = Item(b)
    <3>1. Item(b) \in Findings /\ Linkable(Item(b)) /\ Upsert(Item(b))
      BY <2>1, ItemIsFinding DEF BackfillUpsert
    <3> QED BY <1>5, <2>1, <3>1
  <2>2. CASE bpc[b] = "link" /\ Item(b)' = Item(b)
    <3>1. PICK f \in Findings : f = Item(b) /\ f = Item(b)' /\ Linkable(f)
      BY <2>2, ItemIsFinding DEF BatchesOK, BatchOK
    <3>2. Alive(f)' /\ Alive(f)
      BY <1>7, <3>1, AliveStays DEF Alive
    <3>3. ScannerOf[f] \in coverage[UidOf[f]]
      BY <2>2, <3>1, <3>2 DEF Ahead
    <3> QED BY <1>4, <3>1, <3>2, <3>3
  <2>3. UNCHANGED backfill => bpc[b] = "link" /\ Item(b)' = Item(b)
    BY <1>7 DEF backfill, Item
  <2>4. ASSUME NEW c \in Backfills \ {b}, Backfill(c) PROVE bpc[b] = "link" /\ Item(b)' = Item(b)
    BY <1>7, <2>4, BackfillsApart
  <2>5. Backfill(b) => BackfillUpsert(b) /\ Item(b)' = Item(b)
    BY <1>7, UpsertsAwaitLinks
  <2> QED BY <2>1, <2>2, <2>3, <2>4, <2>5, ThreeKinds, HandlerKeeps, DeletionKeeps DEF vars
<1> QED BY <1>2, <1>3, <1>6, <1>7 DEF Ahead

-----------------------------------------------------------------------------
(* The score never overstates.                                             *)

LEMMA ScannersGrow ==
  ASSUME TypeOK, LocalsOK, Stages, LinksOK, BatchesOK, [Next]_vars, NEW v \in Vulns, ~ Gone(v)'
  PROVE  /\ Cardinality(ScannersOn(v)) \in Nat /\ Cardinality(ScannersOn(v)') \in Nat
         /\ Cardinality(ScannersOn(v)) <= Cardinality(ScannersOn(v)')
<1>1. ScannersOn(v) \subseteq ScannersOn(v)'
  BY NewLinks DEF ScannersOn
<1>2. IsFiniteSet(ScannersOn(v)')
  <2> DEFINE sc == [f \in Findings |-> ScannerOf[f]]
             T  == {ScannerOf[f] : f \in Findings}
  <2>1. sc \in Surjection(Findings, T)
    BY DEF Surjection
  <2>2. IsFiniteSet(T)
    BY <2>1, FS_Surjection
  <2>3. ScannersOn(v)' \subseteq T
    BY DEF ScannersOn, Links
  <2> HIDE DEF T
  <2> QED BY <2>2, <2>3, FS_Subset
<1> QED BY <1>1, <1>2, FS_Subset, FS_CardinalityType

LEMMA GoneStays ==
  ASSUME TypeOK, [Next]_vars, NEW v, Gone(v) PROVE Gone(v)'
BY AliveStays DEF Gone

\* Only a read of the scanners leaves a score to be written.
LEMMA ReadsAwaitWrites ==
  ASSUME TypeOK, LocalsOK, NEW s \in Scans, Handler(s), pc'[s] = "write"
  PROVE  ReadScanners(s) /\ Cur(s)' = Cur(s) /\ seen'[s] = Cardinality(ScannersOn(UidOf[Cur(s)]))
<1>1. pc \in [Scans -> HandlerPC] /\ seen \in [Scans -> Nat]
  BY DEF TypeOK, LocalsOK
<1>2. Cur(s)' = Cur(s)
  BY HandlersApart DEF Working, Idle
<1>3. ~ AfterLink(s) /\ ~ Continue(s) /\ ~ Interrupt(s)
  BY <1>1 DEF AfterLink, Continue, Interrupt, Goto
<1>4. ReadScanners(s)
  BY <1>1, <1>3 DEF Handler, HandlerStep, Begin, Insert, InsertConflict, InsertFails, UpsertVuln, LinkFinding,
     LinkFails, WriteScore, RecalcFails, ApplyPolicies, Notify, Finish, Goto
<1>5. seen' = [seen EXCEPT ![s] = Cardinality(ScannersOn(UidOf[Cur(s)]))]
  BY <1>3, <1>4 DEF ReadScanners
<1> QED BY <1>1, <1>2, <1>4, <1>5

LEMMA BackfillSees ==
  ASSUME TypeOK, LocalsOK, NEW b \in Backfills, Backfill(b)
  PROVE  /\ \A c \in Backfills \ {b} : bseen'[c] = bseen[c]
         /\ bpc'[b] = "write" => /\ link' = link
                                 /\ \E v \in Vulns : bseen'[b] = <<v, Cardinality(ScannersOn(v))>>
<1>1. bpc \in [Backfills -> BackfillPC] /\ bseen \in [Backfills -> (Vulns \cup {NoVuln}) \X Nat]
      /\ touched \in [Backfills -> SUBSET Vulns]
  BY DEF TypeOK, LocalsOK
<1>2. ASSUME NEW c \in Backfills \ {b} PROVE bseen'[c] = bseen[c]
  <2>1. \/ bseen' = bseen
        \/ bseen' = [bseen EXCEPT ![b] = <<NoVuln, 0>>]
        \/ \E v \in Vulns : bseen' = [bseen EXCEPT ![b] = <<v, Cardinality(ScannersOn(v))>>]
    BY <1>1 DEF Backfill, BackfillStep, StartBackfill, QueryBatch, BackfillUpsert, BackfillSkip, BackfillLink,
       BackfillRead, BackfillWrite, BackfillReturns, BackfillDies
  <2> QED BY <1>1, <2>1
<1>3. ASSUME bpc'[b] = "write" PROVE link' = link /\ \E v \in Vulns : bseen'[b] = <<v, Cardinality(ScannersOn(v))>>
  <2>1. ~ NextItem(b, TRUE) /\ ~ NextItem(b, FALSE)
    BY <1>1, <1>3 DEF NextItem
  <2>2. BackfillRead(b)
    BY <1>1, <1>3, <2>1 DEF Backfill, BackfillStep, StartBackfill, QueryBatch, BackfillUpsert, BackfillSkip,
       BackfillLink, BackfillWrite, BackfillReturns, BackfillDies
  <2>3. PICK v \in touched[b] : bpc' = bpc \/ bseen' = [bseen EXCEPT ![b] = <<v, Cardinality(ScannersOn(v))>>]
    BY <2>2 DEF BackfillRead
  <2>4. bpc' # bpc /\ v \in Vulns /\ link' = link
    BY <1>1, <1>3, <2>2 DEF BackfillRead
  <2> QED BY <1>1, <2>3, <2>4
<1> QED BY <1>2, <1>3

LEMMA StepSeen ==
  ASSUME TypeOK, LocalsOK, Stages, LinksOK, BatchesOK, SeenOK, [Next]_vars PROVE SeenOK'
<1>1. ASSUME NEW s \in Scans, pc'[s] = "write", Alive(Cur(s))'
      PROVE  seen'[s] <= Cardinality(ScannersOn(UidOf[Cur(s)])')
  <2>1. CASE pc[s] = "write" /\ Cur(s)' = Cur(s) /\ seen'[s] = seen[s]
    <3>1. PICK f \in Findings : f = Cur(s) /\ f = Cur(s)' /\ Linkable(f)
      BY <2>1, CurIsFinding DEF Idle, Stages, StageOK
    <3>2. Alive(f)' /\ Alive(f)
      BY <1>1, <3>1, AliveStays DEF Alive
    <3>3. PICK v \in Vulns : v = UidOf[f]
      BY <3>1 DEF Linkable
    <3>4. ~ Gone(v)'
      BY <3>2, <3>3 DEF Gone, Alive
    <3>5. seen[s] <= Cardinality(ScannersOn(v)) /\ seen[s] \in Nat
      BY <2>1, <3>1, <3>2, <3>3 DEF SeenOK, LocalsOK
    <3>6. ScannersOn(UidOf[Cur(s)])' = ScannersOn(v)'
      BY <3>1, <3>3 DEF ScannersOn, Links
    <3> QED BY <2>1, <3>4, <3>5, <3>6, ScannersGrow
  <2>2. CASE Handler(s)
    <3>1. ReadScanners(s) /\ Cur(s)' = Cur(s) /\ seen'[s] = Cardinality(ScannersOn(UidOf[Cur(s)]))
      BY <1>1, <2>2, ReadsAwaitWrites
    <3>2. link' = link
      BY <3>1 DEF ReadScanners
    <3>3. ScannersOn(UidOf[Cur(s)])' = ScannersOn(UidOf[Cur(s)])
      BY <3>1, <3>2 DEF ScannersOn, Links
    <3>4. seen'[s] \in Nat
      BY <2>2, HandlerMoves
    <3> QED BY <3>1, <3>3, <3>4
  <2>3. UNCHANGED handler => pc[s] = "write" /\ Cur(s)' = Cur(s) /\ seen'[s] = seen[s]
    BY <1>1 DEF handler, Cur
  <2>4. ASSUME NEW t \in Scans \ {s}, Handler(t) PROVE pc[s] = "write" /\ Cur(s)' = Cur(s) /\ seen'[s] = seen[s]
    BY <1>1, <2>4, HandlersApart
  <2> QED BY <2>1, <2>2, <2>3, <2>4, ThreeKinds, BackfillKeeps, DeletionKeeps DEF vars
<1>2. ASSUME NEW b \in Backfills, bpc'[b] = "write"
      PROVE  Gone(bseen[b][1])' \/ bseen'[b][2] <= Cardinality(ScannersOn(bseen[b][1])')
  <2>1. CASE bpc[b] = "write" /\ bseen'[b] = bseen[b]
    <3>1. PICK v \in Vulns, n \in Nat : v = bseen[b][1] /\ n = bseen[b][2]
      BY <2>1 DEF LocalsOK
    <3>2. Gone(v) \/ n <= Cardinality(ScannersOn(v))
      BY <2>1, <3>1 DEF SeenOK
    <3>3. CASE Gone(v)'
      BY <2>1, <3>1, <3>3 DEF Gone
    <3>4. CASE ~ Gone(v)'
      <4>1. ~ Gone(v)
        BY <3>4, GoneStays
      <4>2. n <= Cardinality(ScannersOn(v)')
        BY <3>2, <3>4, <4>1, ScannersGrow
      <4>3. ScannersOn(bseen[b][1])' = ScannersOn(v)'
        BY <2>1, <3>1 DEF ScannersOn, Links
      <4> QED BY <2>1, <3>1, <4>2, <4>3
    <3> QED BY <3>3, <3>4
  <2>2. CASE Backfill(b)
    <3>1. PICK v \in Vulns : bseen'[b] = <<v, Cardinality(ScannersOn(v))>>
      BY <1>2, <2>2, BackfillSees
    <3>2. link' = link
      BY <1>2, <2>2, BackfillSees
    <3>3. ScannersOn(bseen[b][1])' = ScannersOn(v)
      BY <3>1, <3>2 DEF ScannersOn, Links
    <3>4. Cardinality(ScannersOn(v)) \in Nat
      BY LinksAreFinite
    <3> QED BY <3>1, <3>3, <3>4
  <2>3. UNCHANGED backfill => bpc[b] = "write" /\ bseen'[b] = bseen[b]
    BY <1>2 DEF backfill
  <2>4. ASSUME NEW c \in Backfills \ {b}, Backfill(c) PROVE bpc[b] = "write" /\ bseen'[b] = bseen[b]
    BY <1>2, <2>4, BackfillsApart, BackfillSees
  <2> QED BY <2>1, <2>2, <2>3, <2>4, ThreeKinds, HandlerKeeps, DeletionKeeps DEF vars
<1> QED BY <1>1, <1>2 DEF SeenOK, Cur

LEMMA StepConfidence ==
  ASSUME TypeOK, LocalsOK, Stages, LinksOK, BatchesOK, SeenOK, ConfidenceNeverOverstates, [Next]_vars
  PROVE  ConfidenceNeverOverstates'
<1> SUFFICES ASSUME NEW v \in Vulns, score'[v] # 0
             PROVE  score'[v] <= Confidence(Cardinality(ScannersOn(v)'))
  BY DEF ConfidenceNeverOverstates, Confidence
<1>1. ~ Gone(v)'
  BY StepLinks DEF LinksOK
<1>2. ~ Gone(v)
  BY <1>1, GoneStays
<1>3. PICK m \in Nat, n \in Nat : m = Cardinality(ScannersOn(v)) /\ n = Cardinality(ScannersOn(v)') /\ m <= n
  BY <1>1, ScannersGrow
<1>4. score \in [Vulns -> 0..100]
  BY DEF TypeOK
<1>5. ASSUME NEW k \in Nat, k <= m PROVE Confidence(k) <= Confidence(n)
  BY <1>3, <1>5, ConfidenceGrows
<1>6. CASE score'[v] = score[v]
  <2>1. score[v] <= Confidence(m)
    BY <1>3, <1>6 DEF ConfidenceNeverOverstates
  <2>2. PICK x \in 50..100 : x = Confidence(m)
    BY ConfidenceIsPercentage
  <2>3. PICK y \in 50..100 : y = Confidence(n)
    BY ConfidenceIsPercentage
  <2>4. PICK z \in 0..100 : z = score[v]
    BY <1>4
  <2>5. x <= y
    <3>1. Confidence(m) <= Confidence(n)
      BY <1>3, ConfidenceGrows
    <3> QED BY <2>2, <2>3, <3>1, Zenon
  <2>6. z <= x
    BY <2>1, <2>2, <2>4, Zenon
  <2>7. z <= y
    BY <2>5, <2>6
  <2> QED BY <1>3, <1>6, <2>3, <2>4, <2>7, Zenon
<1>7. ASSUME NEW s \in Scans, WriteScore(s), score'[v] # score[v] PROVE score'[v] <= Confidence(n)
  <2>1. v = UidOf[Cur(s)] /\ Alive(Cur(s)) /\ score'[v] = Confidence(seen[s])
    BY <1>4, <1>7 DEF WriteScore
  <2>2. seen[s] \in Nat /\ seen[s] <= m
    BY <1>3, <1>7, <2>1 DEF SeenOK, LocalsOK, WriteScore
  <2> QED BY <1>5, <2>1, <2>2
<1>8. ASSUME NEW b \in Backfills, BackfillWrite(b), score'[v] # score[v] PROVE score'[v] <= Confidence(n)
  <2>1. v = bseen[b][1] /\ score'[v] = Confidence(bseen[b][2]) /\ bpc[b] = "write"
    <3>1. score' = [score EXCEPT ![bseen[b][1]] = IF count[bseen[b][1]] > 0 THEN Confidence(bseen[b][2]) ELSE @]
          /\ bpc[b] = "write"
      BY <1>8 DEF BackfillWrite
    <3>2. CASE count[bseen[b][1]] > 0
      BY <1>4, <1>8, <3>1, <3>2
    <3>3. CASE ~ (count[bseen[b][1]] > 0)
      BY <1>4, <1>8, <3>1, <3>3
    <3> QED BY <3>2, <3>3
  <2>2. bseen[b][2] \in Nat /\ bseen[b][2] <= m
    BY <1>2, <1>3, <2>1 DEF SeenOK, LocalsOK
  <2> QED BY <1>5, <2>1, <2>2
<1>9. ASSUME NEW p \in Projects, DeleteProject(p) PROVE score'[v] = score[v]
  BY <1>1, <1>9, DeletionUnlinks
<1> QED BY <1>3, <1>6, <1>7, <1>8, <1>9, OnlyWritesScore

-----------------------------------------------------------------------------
(* The invariant.                                                          *)

LEMMA TypesSplitNext ==
  (TypeOK /\ LocalsOK <=> RowTypes /\ VulnTypes /\ HandlerTypes /\ BatchTypes /\ RoundTypes /\ BoundTypes)'
BY TypesSplit, PTL

LEMMA InitIInv == Init => IInv
<1> SUFFICES ASSUME Init PROVE IInv
  OBVIOUS
<1>1. TypeOK /\ LocalsOK
  <2>1. RowTypes
    BY DEF Init, RowTypes
  <2>2. VulnTypes
    BY DEF Init, VulnTypes
  <2>3. HandlerTypes
    BY DEF Init, HandlerTypes, HandlerPC, Idle
  <2>4. BatchTypes
    <3>1. <<>> \in Seq(Findings) /\ Len(<<>>) = 0
      BY EmptySeq
    <3> QED BY <3>1 DEF Init, BatchTypes, BackfillPC
  <2>5. RoundTypes
    BY DEF Init, RoundTypes
  <2>6. BoundTypes
    BY DEF Init, BoundTypes
  <2> QED BY <2>1, <2>2, <2>3, <2>4, <2>5, <2>6, TypesSplit
<1>2. \A v \in Vulns : /\ Links(v) = {} /\ ScannersOn(v) = {} /\ PH(v) = {} /\ PB(v) = {}
                       /\ count[v] = 0 /\ score[v] = 0
  BY DEF Init, Links, ScannersOn, PH, PB
<1>3. \A v \in Vulns : Cardinality(Links(v)) = 0 /\ Pending(v) = 0
  <2>1. Cardinality({}) = 0
    BY FS_EmptySet
  <2>2. ASSUME NEW v \in Vulns PROVE Pending(v) = 0
    <3>1. Pending(v) = Cardinality({}) + Cardinality({})
      BY <1>2, PendingIsFinite, Zenon
    <3> QED BY <2>1, <3>1
  <2> QED BY <1>2, <2>1, <2>2
<1>4. UnstoredOK /\ EffectsAtMostOnce
  BY DEF Init, UnstoredOK, EffectsAtMostOnce
<1>5. OneHandler /\ Stages
  BY DEF Init, OneHandler, Stages, StageOK, Working, Idle
<1>6. LinksOK
  BY <1>2 DEF Init, LinksOK, Alive
<1>7. BatchesOK
  <2>1. Len(<<>>) = 0
    BY EmptySeq
  <2> QED BY <2>1 DEF Init, BatchesOK, BatchOK
<1>8. Ahead
  BY <1>2, <1>3 DEF Init, Ahead
<1>9. CountIsExact
  BY <1>2, <1>3 DEF CountIsExact
<1>10. Apart
  BY DEF Init, Apart, Fresh, BFresh, Busy
<1>11. SeenOK
  BY DEF Init, SeenOK
<1>12. StoredIsProcessed
  BY DEF Init, StoredIsProcessed, Stored
<1>13. ConfidenceNeverOverstates
  BY <1>2 DEF ConfidenceNeverOverstates
<1> QED
  BY <1>1, <1>4, <1>5, <1>6, <1>7, <1>8, <1>9, <1>10, <1>11, <1>12, <1>13 DEF IInv

LEMMA StepIInv == IInv /\ [Next]_vars => IInv'
<1> SUFFICES ASSUME IInv, [Next]_vars PROVE IInv'
  OBVIOUS
<1>1. TypeOK /\ LocalsOK /\ UnstoredOK /\ OneHandler /\ Stages /\ LinksOK /\ BatchesOK
  BY DEF IInv
<1>2. (TypeOK /\ LocalsOK)'
  BY <1>1, StepRowTypes, StepVulnTypes, StepHandlerTypes, StepBatchTypes, StepRoundTypes, StepBoundTypes,
     TypesSplitNext
<1>3. UnstoredOK' /\ OneHandler' /\ Stages'
  BY <1>1, StepUnstored, StepOneHandler, StepStages
<1>4. LinksOK' /\ BatchesOK'
  BY <1>1, StepLinks, StepBatches
<1>5. Ahead' /\ Apart' /\ CountIsExact' /\ SeenOK'
  BY <1>1, StepAhead, StepApart, StepCountIsExact, StepSeen DEF IInv
<1>6. EffectsAtMostOnce' /\ StoredIsProcessed' /\ ConfidenceNeverOverstates'
  BY <1>1, StepEffects, StepProcessed, StepConfidence DEF IInv
<1> QED BY <1>2, <1>3, <1>4, <1>5, <1>6 DEF IInv

THEOREM InvariantHolds == Spec => []IInv
BY InitIInv, StepIInv, PTL DEF Spec

\* Every variable keeps its type, and no row is stored twice.
THEOREM TypeCorrect == Spec => []TypeOK
<1>1. IInv => TypeOK
  BY DEF IInv
<1> QED BY <1>1, InvariantHolds, PTL

\* The policies are applied to a finding at most once and its alert is sent at
\* most once, however often HandleScan is retried and whatever else it fails at.
THEOREM EffectsAtMostOnceHolds == Spec => []EffectsAtMostOnce
<1>1. IInv => EffectsAtMostOnce
  BY DEF IInv
<1> QED BY <1>1, InvariantHolds, PTL

\* A stored finding no handler is working on has been through policies, alert
\* and link, unless a fault took a step of it (HandleScan's loop).
THEOREM StoredIsProcessedHolds == Spec => []StoredIsProcessed
<1>1. IInv => StoredIsProcessed
  BY DEF IInv
<1> QED BY <1>1, InvariantHolds, PTL

\* finding_count and scanner_coverage never fall behind the linked findings,
\* whatever fails: Upsert comes before UpdateFindingVulnID in both writers.
THEOREM AggregatesCoverLinksHolds == Spec => []AggregatesCoverLinks
<1>1. IInv => AggregatesCoverLinks
  <2> SUFFICES ASSUME IInv, NEW v \in Vulns PROVE count[v] >= Cardinality(Links(v)) /\ ScannersOn(v) \subseteq coverage[v]
    BY DEF AggregatesCoverLinks
  <2>1. count[v] >= Cardinality(Links(v)) + Pending(v) /\ ScannersOn(v) \subseteq coverage[v]
    BY DEF IInv, Ahead
  <2>2. Cardinality(Links(v)) \in Nat /\ Pending(v) \in Nat /\ count[v] \in Nat
    BY LinksAreFinite, PendingIsFinite DEF IInv, TypeOK
  <2> QED BY <2>1, <2>2
<1> QED BY <1>1, InvariantHolds, PTL

\* finding_count is exact as long as nothing failed and no backfill ran beside
\* a handler or another backfill (linkVulnerability, BackfillVulnerabilities).
THEOREM CountIsExactHolds == Spec => []CountIsExact
<1>1. IInv => CountIsExact
  BY DEF IInv
<1> QED BY <1>1, InvariantHolds, PTL

\* RecalcConfidence's read and write are two statements, yet the stored score
\* never claims more scanners than the linked findings have.
THEOREM ConfidenceHolds == Spec => []ConfidenceNeverOverstates
<1>1. IInv => ConfidenceNeverOverstates
  BY DEF IInv
<1> QED BY <1>1, InvariantHolds, PTL
=============================================================================
