------------------------------- MODULE Threats -------------------------------
(***************************************************************************)
(* The threat intelligence sync: read each project's manifest, replace its *)
(* inventory, ask OSV, store the advisories, match, reconcile the hits and *)
(* announce the new ones.  Every worker enqueues a sync when it starts and *)
(* every six hours, so that syncs overlap.                                 *)
(*                                                                         *)
(* The sync passes no findings to the matcher: every hit is declared,      *)
(* unconfirmed and L0, so a row is its key, and only its insertion makes   *)
(* it new-or-changed.                                                      *)
(***************************************************************************)
EXTENDS Requests, VersionRanges

CONSTANTS
  Scanned,    \* projects
  Contents,   \* what a push may leave in a repository: manifests and their requirements
  Committed,  \* what is there at first
  Advisories, \* of OSV, with their affected entries and their CVE and aliases
  Affected, Aliases,
  Advised(_), \* the advisories OSV returns for a dependency
  Catalog     \* CVEs known to be exploited

VARIABLES
  head,        \* content of the repository of each project
  inventory,   \* project_dependencies: the snapshots whose rows are there
  advisories,  \* threat_advisories, with kev
  hits,        \* keys of project_inventory_hits
  reported,    \* history: hits handed to NotifyForHits
  lost         \* history: hits whose sync failed before it announced them

threatVars == <<head, inventory, advisories, hits, reported, lost>>

ThreatsInit ==
  /\ head = [p \in Scanned |-> Committed]
  /\ inventory = [p \in Scanned |-> {}]
  /\ advisories = <<>>
  /\ hits = {} /\ reported = {} /\ lost = {}

-----------------------------------------------------------------------------
(* Manifests.                                                              *)

threatManifestPaths ==
  <<"package.json", "package-lock.json", "go.mod", "requirements.txt",
    "Cargo.lock", "poetry.lock", "pom.xml">>

\* The first of the well-known manifests that is there, or "none": no
\* repository on GitHub counts as one without a manifest.
FetchManifest(content) ==
  LET there == {i \in DOMAIN threatManifestPaths : threatManifestPaths[i] \in DOMAIN content}
  IN  IF there = {} THEN "none" ELSE threatManifestPaths[Min(there)]

Written(requirements, form) == {r.dep : r \in {q \in requirements : q.form = form}}

\* Without a lockfile a range has no installed version: exact pins only.
ParsePackageJSON(requirements)     == Written(requirements, "exact")
ParseGoMod(requirements)           == Written(requirements, "direct")
ParseRequirementsTxt(requirements) == Written(requirements, "exact")
ParseCargoLock(requirements)       == Written(requirements, "locked")

Parsed == {"package.json", "go.mod", "requirements.txt", "Cargo.lock"}

ParseManifest(file, requirements) ==
  CASE file = "package.json"     -> ParsePackageJSON(requirements)
    [] file = "go.mod"           -> ParseGoMod(requirements)
    [] file = "requirements.txt" -> ParseRequirementsTxt(requirements)
    [] file = "Cargo.lock"       -> ParseCargoLock(requirements)

-----------------------------------------------------------------------------
(* Feeds and matching.                                                     *)

IsKEV(a, catalog) == Aliases[a] \cap catalog # {}

\* What OSV returned, kept per dependency; an advisory that could not be
\* hydrated is missing.
QueryBatchWithDeps(inv, hydrated) ==
  UNION {{[dep |-> d, advisory |-> a] : a \in Advised(d) \cap hydrated} : d \in inv}

DedupeQueryAdvisories(queryHits) == {q.advisory : q \in queryHits}

MatchQueryHits(queryHits) ==
  {q \in queryHits : /\ DepMatchesAdvisory(q.dep, Affected[q.advisory])
                     /\ DepInAffectedRanges(q.dep, Affected[q.advisory])}

-----------------------------------------------------------------------------
(* The sync.  `todo` are the projects it has still to visit.               *)

Push(p, content) ==
  /\ AtOnce("push")
  /\ head' = [head EXCEPT ![p] = content]
  /\ UNCHANGED <<inventory, advisories, hits, reported, lost>>

\* Without the KEV feed the sync goes on with an empty catalog.
SyncThreatIntel(h) ==
  /\ \E kev \in {Catalog, {}} :
       Begin("sync", h, [op |-> "sync", id |-> left["sync"], todo |-> Scanned, kev |-> kev])
  /\ UNCHANGED threatVars

BetweenProjects(c) == [op |-> "sync", id |-> c.id, todo |-> c.todo, kev |-> c.kev]

\* It knows the hits that are stored when it comes to the project.
Visiting(c, p, inv) ==
  [op |-> "clear", id |-> c.id, todo |-> c.todo \ {p}, kev |-> c.kev, project |-> p, known |-> hits,
   inv |-> inv, seen |-> {}, found |-> {}, advs |-> {}]

SyncProject(h) ==
  /\ At(h, "sync")
  /\ LET c == call[h] IN
       \/ c.todo = {} /\ Return(h)
       \/ \E p \in c.todo :
            LET file == FetchManifest(head[p]) IN
              Proceed(h, IF file \in Parsed
                           THEN Visiting(c, p, ParseManifest(file, head[p][file]))
                           ELSE [c EXCEPT !.todo = @ \ {p}])
  /\ UNCHANGED threatVars

\* Hits that were stored and are not announced.
ThreatsCutOff(h) ==
  /\ lost' = IF At(h, "reconcile") THEN lost \cup call[h].fresh ELSE lost
  /\ UNCHANGED <<head, inventory, advisories, hits, reported>>

\* Any of the calls fails, or the answer is malformed: the project is skipped.
SkipProject(h) ==
  /\ call[h].op \in {"clear", "replace", "query", "advise", "reconcile"}
  /\ Count("fault")
  /\ call' = [call EXCEPT ![h] = BetweenProjects(@)]
  /\ ThreatsCutOff(h)

\* Faulty: nothing is deleted.
ClearNothing(h) ==
  /\ At(h, "clear")
  /\ Proceed(h, [call[h] EXCEPT !.op = "replace"])
  /\ UNCHANGED threatVars

\* The transaction's DELETE sees what is committed by then, and waits for
\* another that deletes the same rows; it does not see what that one inserts.
ClearDependencies(h) ==
  /\ At(h, "clear")
  /\ Proceed(h, [call[h] EXCEPT !.op = "replace", !.seen = inventory[call[h].project]])
  /\ UNCHANGED threatVars

\* The INSERTs and the commit.
UpsertDependencies(h) ==
  /\ At(h, "replace")
  /\ LET c == call[h] IN
       /\ inventory' = [inventory EXCEPT ![c.project] =
                          (@ \ c.seen) \cup {[by |-> c.id, deps |-> c.inv]}]
       /\ Proceed(h, [c EXCEPT !.op = "query"])
  /\ UNCHANGED <<head, advisories, hits, reported, lost>>

QueryOSV(h) ==
  /\ At(h, "query")
  /\ \E failed \in SUBSET Advisories :
       LET found == QueryBatchWithDeps(call[h].inv, Advisories \ failed) IN
         /\ call' = [call EXCEPT ![h] = [@ EXCEPT !.op = "advise", !.found = found,
                                                  !.advs = DedupeQueryAdvisories(found)]]
         /\ IF failed = {} THEN UNCHANGED left ELSE Count("fault")
  /\ UNCHANGED threatVars

\* One statement for each advisory; kev is overwritten.
UpsertAdvisory(h, a) ==
  /\ At(h, "advise") /\ a \in call[h].advs
  /\ advisories' = PutRow(advisories, a, IsKEV(a, call[h].kev))
  /\ Proceed(h, [call[h] EXCEPT !.advs = @ \ {a}])
  /\ UNCHANGED <<head, inventory, hits, reported, lost>>

\* ReconcileHits reads the rows of the project once ...
LoadPrior(h) ==
  /\ At(h, "advise") /\ call[h].advs = {}
  /\ LET c == call[h] IN
       Proceed(h, [op |-> "reconcile", id |-> c.id, todo |-> c.todo, kev |-> c.kev,
                   project |-> c.project, known |-> c.known, fresh |-> {},
                   prior |-> {k \in hits : k.project = c.project},
                   matched |-> {[project |-> c.project, dep |-> q.dep, advisory |-> q.advisory] :
                                  q \in MatchQueryHits(c.found)}])
  /\ UNCHANGED threatVars

\* Faulty: the version is not part of the key.
ReconcileHitByPackage(h, k) ==
  /\ At(h, "reconcile") /\ k \in call[h].matched
  /\ hits' = hits \cup {k}
  /\ LET c == call[h]
         existed == \E old \in c.prior : old.advisory = k.advisory /\ old.dep.package = k.dep.package
     IN  Proceed(h, [c EXCEPT !.matched = c.matched \ {k}, !.prior = c.prior \cup {k},
                              !.fresh = IF existed THEN c.fresh ELSE c.fresh \cup {k}])
  /\ UNCHANGED <<head, inventory, advisories, reported, lost>>

\* ... and upserts hit after hit, each a statement of its own.
ReconcileHit(h, k) ==
  /\ At(h, "reconcile") /\ k \in call[h].matched
  /\ hits' = hits \cup {k}
  /\ LET c == call[h] IN
       Proceed(h, [c EXCEPT !.matched = c.matched \ {k}, !.prior = c.prior \cup {k},
                            !.fresh = IF k \in c.prior THEN c.fresh ELSE c.fresh \cup {k}])
  /\ UNCHANGED <<head, inventory, advisories, reported, lost>>

\* An unconfirmed hit asks for one rescan of the project, whose INSERT always
\* fails: its batch id, "threat-rescan", is not a UUID.  The error is logged.
NotifyForHits(h) ==
  /\ At(h, "reconcile") /\ call[h].matched = {}
  /\ reported' = reported \cup call[h].fresh
  /\ Proceed(h, BetweenProjects(call[h]))
  /\ UNCHANGED <<head, inventory, advisories, hits, lost>>

-----------------------------------------------------------------------------
ThreatsNext ==
  \/ \E p \in Scanned, content \in Contents : Push(p, content)
  \/ \E h \in Handlers :
       \/ SyncThreatIntel(h) \/ SyncProject(h) \/ SkipProject(h)
       \/ ClearDependencies(h) \/ UpsertDependencies(h) \/ QueryOSV(h)
       \/ \E a \in Advisories : UpsertAdvisory(h, a)
       \/ LoadPrior(h)
       \/ At(h, "reconcile") /\ \E k \in call[h].matched : ReconcileHit(h, k)
       \/ NotifyForHits(h)

-----------------------------------------------------------------------------
\* A stored hit has been announced, is about to be, or its sync failed in
\* between: no interleaving of syncs makes a hit old that nobody announced,
\* although each compares with its own reading of the rows (ReconcileHits).
\* And a hit that was stored when a sync came to its project is not new to
\* that sync: migration 050 was written because "every sync" had "re-notified
\* on the full set".
HitsAreReportedOnce ==
  LET syncs == {h \in Handlers : At(h, "reconcile")} IN
  /\ hits \subseteq reported \cup lost \cup UNION {call[h].fresh : h \in syncs}
  /\ \A h \in syncs : call[h].fresh \cap call[h].known = {}

\* Overlapping syncs may leave several snapshots in project_dependencies,
\* which has no unique key, but never more than ran at the same time: every
\* later sync removes what it can see (UpsertDependencies).
InventoryIsBounded ==
  \A p \in Scanned : Cardinality(inventory[p]) <= Cardinality(Handlers)
=============================================================================
