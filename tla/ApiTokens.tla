------------------------------ MODULE ApiTokens ------------------------------
(***************************************************************************)
(* API keys for CI systems: rows that hold the hash of a secret, an owner  *)
(* and, for some, the one project they are for.  A request with a key is   *)
(* authenticated in several reads, limited by the bucket of the key and,   *)
(* when it asks for a scan of a project by name, may create the project.   *)
(*                                                                         *)
(* Abstracted: names of tokens, the prefix by which a secret is found (a   *)
(* secret has one), last_used_at, scanners, targets and audit rows.  The   *)
(* scans are those of ScanLifecycle.                                       *)
(***************************************************************************)
EXTENDS Tenancy, TokenBucket, McpProtocol

CONSTANTS
  TokenIds,
  Messages \* sent to the MCP endpoint

VARIABLES
  tokens,  \* tokens that have a row, with the row
  fresh,   \* the next secret: each is generated once
  retired  \* history: secrets replaced or revoked, the request answered

tokenVars == <<tokens, fresh, retired>>

NoOwner    == "no owner"
AnyProject == "any project"

Secrets == Keys

TokensTypeOK ==
  /\ DOMAIN tokens \subseteq TokenIds
  /\ \A k \in DOMAIN tokens :
       /\ tokens[k].secret \in Secrets /\ tokens[k].secret < fresh
       /\ tokens[k].owner \in DOMAIN users \cup {NoOwner}
       /\ tokens[k].project \in DOMAIN projects \cup {AnyProject}

  /\ retired \subseteq 1..fresh - 1

TokensInit == tokens = <<>> /\ fresh = 1 /\ retired = {}

SecretsOf(ks) == {tokens[k].secret : k \in ks}

-----------------------------------------------------------------------------
(* Management, by a signed-in user.                                        *)

SignedIn(u) == \E s \in sessions : Accepted(s) /\ s.user = u

NewSecret == fresh \in Secrets /\ fresh' = fresh + 1

CreateToken(k, u, p) ==
  /\ AtOnce("key") /\ SignedIn(u)
  /\ k \notin DOMAIN tokens /\ p \in DOMAIN projects \cup {AnyProject}
  /\ NewSecret
  /\ tokens' = AddRow(tokens, k, [secret |-> fresh, owner |-> u, project |-> p])
  /\ UNCHANGED retired

\* Faulty: the new secret is a row of its own.
RotateByInsert(k) ==
  /\ AtOnce("key")
  /\ k \in DOMAIN tokens /\ SignedIn(tokens[k].owner)
  /\ NewSecret
  /\ \E j \in TokenIds \ DOMAIN tokens :
       tokens' = AddRow(tokens, j, [tokens[k] EXCEPT !.secret = fresh])
  /\ retired' = retired \cup SecretsOf({k})

\* Only by its owner; the old hash is overwritten.
RotateToken(k) ==
  /\ AtOnce("key")
  /\ k \in DOMAIN tokens /\ SignedIn(tokens[k].owner)
  /\ NewSecret
  /\ tokens' = [tokens EXCEPT ![k].secret = fresh]
  /\ retired' = retired \cup SecretsOf({k})

DeleteToken(k) ==
  /\ AtOnce("key")
  /\ k \in DOMAIN tokens /\ SignedIn(tokens[k].owner)
  /\ tokens' = Without(tokens, {k})
  /\ retired' = retired \cup SecretsOf({k})
  /\ UNCHANGED fresh

-----------------------------------------------------------------------------
(* A request with a key: APIKeyAuth.                                       *)

\* The client sends a secret it was given once, live or not.  `dead` is
\* history: what had been retired by then.
KeyRequest(h, s) ==
  /\ s < fresh
  /\ Begin("request", h, [op |-> "lookup", secret |-> s, dead |-> retired])
  /\ UNCHANGED tokenVars

\* GetByPrefix.  A token whose owner was deleted has none and is not asked
\* for one; nothing sets expires_at.
GetByPrefix(h) ==
  /\ At(h, "lookup")
  /\ LET x == call[h]
         found == {k \in DOMAIN tokens : tokens[k].secret = x.secret}
     IN  \/ found = {} /\ Return(h)
         \/ \E k \in found :
              Proceed(h, [op |-> IF tokens[k].owner = NoOwner THEN "limit" ELSE "owner",
                          secret |-> x.secret, dead |-> x.dead,
                          owner |-> tokens[k].owner, project |-> tokens[k].project])
  /\ UNCHANGED tokenVars

CheckOwner(h) ==
  /\ At(h, "owner")
  /\ LET x == call[h] IN
       IF Has(x.owner) /\ users[x.owner].active
         THEN Proceed(h, [x EXCEPT !.op = "limit"])
         ELSE Return(h)
  /\ UNCHANGED tokenVars

\* The bucket of the key; an error of Redis denies.
PassBucket(h, skew) ==
  /\ At(h, "limit")
  /\ \/ Allow(call[h].secret, skew) /\ Proceed(h, [call[h] EXCEPT !.op = "request"])
     \/ Deny(call[h].secret, skew) /\ Return(h)
  /\ UNCHANGED tokenVars

-----------------------------------------------------------------------------
(* CreateExternalScan.                                                     *)

\* A scan of a project by id: the token's project, when it has one.
ScanById(h, p) ==
  /\ At(h, "request")
  /\ call[h].project \in {AnyProject, p}
  /\ Return(h)
  /\ UNCHANGED <<tokenVars, tenancyVars, unmetered>>

\* By name: the standalone project of that name, or a new one; the project of
\* the token is not asked for.
ScanByName(h, n) ==
  /\ At(h, "request")
  /\ IF NameTaken(n, NoApp)
       THEN Return(h)
       ELSE Proceed(h, [op |-> "standalone", name |-> n])
  /\ UNCHANGED <<tokenVars, tenancyVars, unmetered>>

\* The insert fails, and the request with it, if the name has been taken.
CreateStandaloneProject(h) ==
  /\ At(h, "standalone")
  /\ LET n == call[h].name IN
       IF NameTaken(n, NoApp)
         THEN UNCHANGED <<projects, usedProjects, unmetered>>
         ELSE /\ \E p \in Projects \ usedProjects : InsertProject(p, n, NoApp)
              /\ unmetered' = unmetered + 1
  /\ Return(h)
  /\ UNCHANGED <<tokenVars, teams, members, apps>>

-----------------------------------------------------------------------------
(* HandleMCP: a message with a key, to the methods and the tools.          *)

\* create_project inserts a standalone project, without a look for the name or
\* the limit, and fails when the name is taken.
McpCreateProject(h, m, n) ==
  /\ At(h, "request")
  /\ Dispatched(m) /\ m.method = "tools/call" /\ m.tool = "create_project"
  /\ Proceed(h, [op |-> "standalone", name |-> n])

\* trigger_scan of a project by id: the scans are those of ScanLifecycle, and
\* the project of the token is not asked for.
McpTriggerScan(h, m, p) ==
  /\ At(h, "request")
  /\ Dispatched(m) /\ m.method = "tools/call" /\ m.tool = "trigger_scan"
  /\ p \in DOMAIN projects
  /\ Return(h)

\* list_projects, get_scan_status, query_findings, get_vulnerabilities and
\* get_dashboard_summary change nothing, nor do the other methods and what is
\* refused.
McpAnswer(h, m) ==
  /\ At(h, "request")
  /\ ~(Dispatched(m) /\ m.method = "tools/call" /\ m.tool \in {"create_project", "trigger_scan"})
  /\ Return(h)

McpNext(h, m) ==
  /\ \/ \E n \in Names : McpCreateProject(h, m, n)
     \/ \E p \in Projects : McpTriggerScan(h, m, p)
     \/ McpAnswer(h, m)
  /\ UNCHANGED <<tokenVars, tenancyVars, unmetered>>

TokensNext ==
  \/ \E k \in TokenIds :
       \/ \E u \in Users, p \in Projects \cup {AnyProject} : CreateToken(k, u, p)
       \/ RotateToken(k) \/ DeleteToken(k)
  \/ \E h \in Handlers : \/ \E s \in Secrets : KeyRequest(h, s)
                         \/ GetByPrefix(h) \/ CheckOwner(h)

\* A request that passed was made with a secret that was not yet replaced or
\* revoked when the request began: RotateToken, DeleteToken and the deletion
\* of the token's project cut the old secret off as soon as they return,
\* whatever requests are between their reads (APIKeyAuth).
RetiredKeysAreRefused ==
  \A h \in Handlers : At(h, "request") => call[h].secret \notin call[h].dead
=============================================================================
