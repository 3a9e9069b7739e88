----------------------------- MODULE Migrations -----------------------------
(***************************************************************************)
(* The start of a process: every API and worker, of an old release or a    *)
(* new one, migrates the database before it serves, one at a time under an *)
(* advisory lock that goes with its session.                               *)
(*                                                                         *)
(* A script is a sequence of the tokens the splitter looks at and of words *)
(* between them, of which the Objects are those a statement creates.       *)
(*                                                                         *)
(* External: PostgreSQL's concurrent index build waits for the snapshots   *)
(* older than its own, and a process that waits for the lock holds one.    *)
(***************************************************************************)
EXTENDS Requests, FiniteSetsExt, SequencesExt, TLC

CONSTANTS
  Releases,
  Shipped,  \* versions that each embeds
  Scripts,  \* of each version
  Objects   \* columns, constraints and indexes

ASSUME MigrationsAssumption == Shipped \in [Releases -> SUBSET (DOMAIN Scripts \cap Nat)]

VARIABLES
  schema,   \* objects that are there
  invalid,  \* indexes whose concurrent build did not end
  applied,  \* schema_migrations
  torn,     \* history: indexes whose build was cut off or aborted,
  serving,  \* releases that were started,
  refused   \* and whether a start failed on a script or its record

migrationVars == <<schema, invalid, applied, torn, serving, refused>>

MigrationsInit ==
  /\ schema = {} /\ invalid = {} /\ applied = {}
  /\ torn = {} /\ serving = {} /\ refused = FALSE

-----------------------------------------------------------------------------
(* The scripts.                                                            *)

\* What ends a comment or a quotation.
Closing == ("--" :> "newline") @@ ("/*" :> "*/") @@ ("'" :> "'") @@ ("$$" :> "$$")

Lexed == [statements |-> <<>>, current |-> <<>>, until |-> "none"]

LexToken(s, token) ==
  IF s.until # "none"
    THEN [s EXCEPT !.current = Append(@, token), !.until = IF token = @ THEN "none" ELSE @]
  ELSE IF token = ";" THEN [Lexed EXCEPT !.statements = Append(s.statements, s.current)]
  ELSE [s EXCEPT !.current = Append(@, token),
                 !.until = IF token \in DOMAIN Closing THEN Closing[token] ELSE "none"]

Lex(script) == FoldLeft(LexToken, Lexed, script)

splitSQLStatements(script) ==
  LET s == Lex(script) IN
  SelectSeq(Append(s.statements, s.current), LAMBDA statement : statement # <<>>)

isNonTransactional(script) == IsPrefix(<<"--", "NO TRANSACTION">>, script)

Creates(words) == ToSet(words) \cap Objects
Guarded(words) == "IF NOT EXISTS" \in ToSet(words)
Concurrently(words) == "CONCURRENTLY" \in ToSet(words)

\* The database's own reading: quotations are closed, and what is created is new.
WellFormed(words) ==
  /\ Lex(words).until = "none"
  /\ Guarded(words) \/ Creates(words) \cap (schema \cup invalid) = {}

-----------------------------------------------------------------------------
(* The run.                                                                *)

Locked(h) == call[h].op \in {"list", "pending", "statement", "build", "await"}

\* In the SELECT of pg_advisory_lock; "awaited" when a build waits for its snapshot.
Waiting(h) == call[h].op \in {"lock", "awaited"}

RunMigrations(h, r) ==
  /\ Begin("start", h, [op |-> "lock", release |-> r])
  /\ UNCHANGED migrationVars

\* Faulty: nobody waits.
PassLock(h) ==
  /\ Waiting(h)
  /\ Proceed(h, [call[h] EXCEPT !.op = "list"])
  /\ UNCHANGED migrationVars

AcquireLock(h) ==
  /\ Waiting(h) /\ \A g \in Handlers : ~Locked(g)
  /\ Proceed(h, [call[h] EXCEPT !.op = "list"])
  /\ UNCHANGED migrationVars

GetApplied(h) ==
  /\ At(h, "list")
  /\ LET r == call[h].release IN
       Proceed(h, [op |-> "pending", release |-> r, todo |-> Shipped[r] \ applied])
  /\ UNCHANGED migrationVars

Refuse(h) == Return(h) /\ refused' = TRUE /\ UNCHANGED <<schema, invalid, applied, torn, serving>>

\* Script and record in one transaction.
ApplyTransactional(h) ==
  /\ At(h, "pending") /\ call[h].todo # {}
  /\ LET v == Min(call[h].todo)
         script == Scripts[v]
     IN  /\ ~isNonTransactional(script)
         /\ IF WellFormed(script) /\ ~Concurrently(script) /\ v \notin applied
              THEN /\ schema' = schema \cup Creates(script) /\ applied' = applied \cup {v}
                   /\ Proceed(h, [call[h] EXCEPT !.todo = @ \ {v}])
                   /\ UNCHANGED <<invalid, torn, serving, refused>>
              ELSE Refuse(h)

\* The statements of a script that are left, and the index one is building.
InScript(c, rest) ==
  [op |-> "statement", release |-> c.release, todo |-> c.todo, rest |-> rest]

Building(c, new) ==
  [op |-> "build", release |-> c.release, todo |-> c.todo, rest |-> c.rest, index |-> new]

ApplyNonTransactional(h) ==
  /\ At(h, "pending") /\ call[h].todo # {}
  /\ LET script == Scripts[Min(call[h].todo)] IN
       /\ isNonTransactional(script)
       /\ Proceed(h, InScript(call[h], splitSQLStatements(script)))
  /\ UNCHANGED migrationVars

\* Statement by statement; a concurrent index is there, invalid, until it is built.
ExecStatement(h) ==
  /\ At(h, "statement") /\ call[h].rest # <<>>
  /\ LET words == Head(call[h].rest)
         new == Creates(words) \ (schema \cup invalid)
         rest == InScript(call[h], Tail(call[h].rest))
     IN
       IF ~WellFormed(words) THEN Refuse(h)
       ELSE IF Concurrently(words) /\ new # {} THEN
         /\ invalid' = invalid \cup new /\ Proceed(h, Building(rest, new))
         /\ UNCHANGED <<schema, applied, torn, serving, refused>>
       ELSE
         /\ schema' = schema \cup new /\ Proceed(h, rest)
         /\ UNCHANGED <<invalid, applied, torn, serving, refused>>

\* The build waits for the snapshots there are.
AwaitSnapshots(h) ==
  /\ At(h, "build")
  /\ call' = [g \in Handlers |-> IF g = h THEN [call[g] EXCEPT !.op = "await"]
                                ELSE IF At(g, "lock") THEN [call[g] EXCEPT !.op = "awaited"]
                                ELSE call[g]]
  /\ UNCHANGED <<left, migrationVars>>

IndexIsBuilt(h) ==
  /\ At(h, "await") /\ \A g \in Handlers : ~At(g, "awaited")
  /\ LET c == call[h] IN
       /\ schema' = schema \cup c.index /\ invalid' = invalid \ c.index
       /\ Proceed(h, InScript(c, c.rest))
  /\ UNCHANGED <<applied, torn, serving, refused>>

\* Each waits for the other and the database aborts one: the start fails, and
\* the index of a build stays invalid.
Deadlocked(h) ==
  /\ At(h, "await")
  /\ \E g \in Handlers :
       /\ At(g, "awaited")
       /\ \/ Return(g) /\ UNCHANGED torn
          \/ Return(h) /\ torn' = torn \cup call[h].index
  /\ UNCHANGED <<schema, invalid, applied, serving, refused>>

RecordMigration(h) ==
  /\ At(h, "statement") /\ call[h].rest = <<>>
  /\ LET v == Min(call[h].todo) IN
       IF v \in applied THEN Refuse(h) ELSE
         /\ applied' = applied \cup {v}
         /\ Proceed(h, [op |-> "pending", release |-> call[h].release, todo |-> call[h].todo \ {v}])
         /\ UNCHANGED <<schema, invalid, torn, serving, refused>>

Serve(h) ==
  /\ At(h, "pending") /\ call[h].todo = {}
  /\ serving' = serving \cup {call[h].release}
  /\ Return(h)
  /\ UNCHANGED <<schema, invalid, applied, torn, refused>>

MigrationsNext ==
  \E h \in Handlers :
    \/ \E r \in Releases : RunMigrations(h, r)
    \/ AcquireLock(h) \/ GetApplied(h) \/ ApplyTransactional(h) \/ ApplyNonTransactional(h)
    \/ ExecStatement(h) \/ AwaitSnapshots(h) \/ IndexIsBuilt(h) \/ Deadlocked(h)
    \/ RecordMigration(h) \/ Serve(h)

IsBuilding(h) == call[h].op \in {"build", "await"}

MigrationsCutOff(h) ==
  /\ torn' = IF IsBuilding(h) THEN torn \cup call[h].index ELSE torn
  /\ UNCHANGED <<schema, invalid, applied, serving, refused>>

-----------------------------------------------------------------------------
\* However many processes start together, with whatever releases, wherever one
\* was killed and whichever the database aborted: no start fails on a script it
\* finds half run or on its record, a release serves only when all of its
\* migrations are recorded, and what is recorded is in the schema.  Only an
\* index whose build was cut off or aborted stays invalid for good: the retry
\* finds it there and records the migration (applyNonTransactional).
SchemaIsComplete ==
  /\ ~refused
  /\ \A r \in serving : Shipped[r] \subseteq applied
  /\ \A v \in applied : Creates(Scripts[v]) \subseteq schema \cup torn
  /\ \A o \in invalid : o \in torn \/ \E h \in Handlers : IsBuilding(h) /\ o \in call[h].index
=============================================================================
