------------------------------- MODULE Access -------------------------------
(***************************************************************************)
(* Accounts, tenancy and API tokens on one database: what a change in one  *)
(* table does to the others (the ON DELETE clauses of the foreign keys),   *)
(* and the calls of all three at the same time; and the starts of the      *)
(* processes that migrate the database.                                    *)
(***************************************************************************)
EXTENDS ApiTokens, Migrations

vars == <<requestVars, accountVars, tenancyVars, tokenVars, bucketVars, migrationVars>>

TypeOK ==
  /\ AccountsTypeOK /\ TenancyTypeOK /\ BucketTypeOK /\ TokensTypeOK
  /\ left \in [Kinds -> Nat]

Init == RequestsInit /\ AccountsInit /\ TenancyInit /\ TokensInit /\ BucketInit /\ MigrationsInit

\* users: team_members cascades, api_tokens.created_by is set to NULL.
DeleteUserAndTies(u) ==
  /\ DeleteUser(u)
  /\ members' = {m \in members : m[2] # u}
  /\ tokens' = [k \in DOMAIN tokens |->
                  IF tokens[k].owner = u THEN [tokens[k] EXCEPT !.owner = NoOwner] ELSE tokens[k]]
  /\ UNCHANGED <<teams, apps, projects, usedProjects, fresh, retired, bucketVars>>

\* projects: api_tokens cascades.
DropTokensOf(gone) ==
  /\ LET dropped == {k \in DOMAIN tokens : tokens[k].project \in gone} IN
       tokens' = Without(tokens, dropped) /\ retired' = retired \cup SecretsOf(dropped)
  /\ UNCHANGED <<accountVars, fresh, bucketVars>>

DeleteProjectAndTies(p) == DeleteProject(p) /\ DropTokensOf({p})

DeleteAppAndTies(a) ==
  DeleteApp(a) /\ DropTokensOf({p \in DOMAIN projects : projects[p].app = a})

Serving ==
  \/ AccountsNext /\ UNCHANGED <<tenancyVars, tokenVars, bucketVars>>
  \/ TenancyNext /\ UNCHANGED <<accountRows, tokenVars, bucketVars>>
  \/ TokensNext /\ UNCHANGED <<accountVars, tenancyVars, bucketVars>>
  \/ \E h \in Handlers, s \in Skews :
       PassBucket(h, s) /\ UNCHANGED <<accountVars, tenancyVars>>
  \/ \E h \in Handlers :
       /\ \/ \E p \in Projects : ScanById(h, p)
          \/ \E n \in Names : ScanByName(h, n)
          \/ CreateStandaloneProject(h)
          \/ \E m \in Messages : McpNext(h, m)
       /\ UNCHANGED <<accountRows, bucketVars>>
  \/ \E u \in Users : DeleteUserAndTies(u)
  \/ \E p \in Projects : DeleteProjectAndTies(p)
  \/ \E a \in Apps : DeleteAppAndTies(a)
  \/ Tick /\ AtOnce("clock") /\ UNCHANGED <<accountVars, tenancyVars, tokenVars>>

Next ==
  \/ Serving /\ UNCHANGED migrationVars
  \/ MigrationsNext /\ UNCHANGED <<accountVars, tenancyVars, tokenVars, bucketVars>>
  \/ \E h \in Handlers :
       CutOff(h) /\ MigrationsCutOff(h) /\ UNCHANGED <<accountVars, tenancyVars, tokenVars, bucketVars>>

Spec == Init /\ [][Next]_vars
=============================================================================
