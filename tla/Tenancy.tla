------------------------------- MODULE Tenancy -------------------------------
(***************************************************************************)
(* Teams, applications and projects.  A user belongs to teams, a team has  *)
(* applications, an application has projects; an administrator sees        *)
(* everything, a viewer what this path reaches.  The path is written out   *)
(* in the queries that list and, once more, in the guards of the routes.   *)
(*                                                                         *)
(* Abstracted: descriptions, repositories, branches, tags, GitHub tokens   *)
(* and audit rows.                                                         *)
(***************************************************************************)
EXTENDS Accounts, Functions

NoTeam == "no team"
NoApp  == "standalone"

CONSTANTS Teams, Apps, Projects, \* ids
          Names,       \* of projects
          MaxProjects  \* the deployment's limit

ASSUME TenancyAssumption == MaxProjects \in Nat /\ IsFiniteSet(Names) /\ NoApp \notin Apps

VARIABLES
  teams,      \* teams that have a row
  members,    \* team_members
  apps,       \* applications that have a row, with team_id
  projects,   \* projects that have a row, with name and app_id
  usedProjects \* ids ever given

tenancyVars == <<teams, members, apps, projects, usedProjects>>

TenancyTypeOK ==
  /\ teams \subseteq Teams
  /\ members \subseteq teams \X (DOMAIN users)
  /\ DOMAIN apps \subseteq Apps
  /\ \A a \in DOMAIN apps : apps[a] \in teams \cup {NoTeam}
  /\ DOMAIN projects \subseteq usedProjects /\ usedProjects \subseteq Projects
  /\ \A p \in DOMAIN projects :
       projects[p] \in [name : Names, app : DOMAIN apps \cup {NoApp}]

TenancyInit ==
  /\ teams = Teams /\ members = {}
  /\ apps = [a \in Apps |-> NoTeam]
  /\ projects = <<>> /\ usedProjects = {}

Without(f, gone) == [x \in DOMAIN f \ gone |-> f[x]]

-----------------------------------------------------------------------------
(* What a viewer lists and opens.                                          *)

Teammates(u) == {t \in Teams : <<t, u>> \in members}

\* Faulty: the join that finds the team of the application is left out.
ListAnyTeams(u) ==
  {p \in DOMAIN projects : projects[p].app # NoApp /\ Teammates(u) # {}}

\* ListAllProjects with datascope.ForUser(u): no standalone project, and of
\* the others those EXISTS (team_members JOIN apps) admits.
ListedProjects(u) ==
  {p \in DOMAIN projects :
     /\ projects[p].app # NoApp
     /\ \E t \in Teammates(u), a \in DOMAIN apps : apps[a] = t /\ a = projects[p].app}

ListedApps(u) == {a \in DOMAIN apps : \E t \in Teammates(u) : t = apps[a]}

\* RequireOwnership for a role without the write capability: the number of
\* rows of projects JOIN apps JOIN team_members is positive.
CheckProjectOwnership(u, p) ==
  \E a \in DOMAIN apps, m \in members :
    /\ p \in DOMAIN projects /\ projects[p].app = a
    /\ apps[a] = m[1] /\ m[2] = u

CheckAppOwnership(u, a) ==
  \E m \in members : a \in DOMAIN apps /\ apps[a] = m[1] /\ m[2] = u

\* RequireOwnership: the write capability, or the path from the user.
MayChange(owners) ==
  \E s \in sessions : Accepted(s) /\ (s.role = "admin" \/ s.user \in owners)

ProjectOwners(p) == {u \in DOMAIN users : CheckProjectOwnership(u, p)}
AppOwners(a)     == {u \in DOMAIN users : CheckAppOwnership(u, a)}

-----------------------------------------------------------------------------
(* Teams and applications.                                                 *)

\* ON CONFLICT DO NOTHING.
AddTeamMember(t, u) ==
  /\ AtOnce("team") /\ Admitted("admin")
  /\ t \in teams /\ Has(u)
  /\ members' = members \cup {<<t, u>>}
  /\ UNCHANGED <<teams, apps, projects, usedProjects>>

RemoveTeamMember(t, u) ==
  /\ AtOnce("team") /\ Admitted("admin")
  /\ members' = members \ {<<t, u>>}
  /\ UNCHANGED <<teams, apps, projects, usedProjects>>

\* Faulty: the applications keep the team.
DeleteTeamOnly(t) ==
  /\ AtOnce("team") /\ Admitted("admin")
  /\ t \in teams
  /\ teams' = teams \ {t}
  /\ members' = {m \in members : m[1] # t}
  /\ UNCHANGED <<apps, projects, usedProjects>>

\* team_members cascades, apps.team_id is set to NULL.
DeleteTeam(t) ==
  /\ AtOnce("team") /\ Admitted("admin")
  /\ t \in teams
  /\ teams' = teams \ {t}
  /\ members' = {m \in members : m[1] # t}
  /\ apps' = [a \in DOMAIN apps |-> IF apps[a] = t THEN NoTeam ELSE apps[a]]
  /\ UNCHANGED <<projects, usedProjects>>

\* A request can name a team; it cannot take the team away.  (Teams and
\* applications are created before; nothing refers to one that is not.)
UpdateApp(a, t) ==
  /\ AtOnce("team") /\ MayChange(AppOwners(a))
  /\ a \in DOMAIN apps /\ t \in teams
  /\ apps' = [apps EXCEPT ![a] = t]
  /\ UNCHANGED <<teams, members, projects, usedProjects>>

\* With its projects, and what hangs on them (see Access).
DeleteApp(a) ==
  /\ AtOnce("team") /\ MayChange(AppOwners(a))
  /\ a \in DOMAIN apps
  /\ apps' = Without(apps, {a})
  /\ projects' = Without(projects, {p \in DOMAIN projects : projects[p].app = a})
  /\ UNCHANGED <<teams, members, usedProjects>>

-----------------------------------------------------------------------------
(* Projects.                                                               *)

\* A name is unique within its application, or among the standalone ones.
NameTaken(n, a) == \E p \in DOMAIN projects : projects[p].name = n /\ projects[p].app = a

InsertProject(p, n, a) ==
  /\ projects' = AddRow(projects, p, [name |-> n, app |-> a])
  /\ usedProjects' = usedProjects \cup {p}

\* An administrator, or on its route who owns an application: which one the
\* project goes to, if any, is said in the query and not looked at.
MayCreateProject == MayChange(UNION {AppOwners(b) : b \in Apps})

\* Faulty: the limit is not asked.
CreateAnyProject(h, n, a) ==
  /\ MayCreateProject
  /\ a \in DOMAIN apps \cup {NoApp}
  /\ Begin("project", h, [op |-> "project", name |-> n, app |-> a])
  /\ UNCHANGED tenancyVars

\* checkProjectLimit, then the insert as a step of its own.
CreateProject(h, n, a) ==
  /\ MayCreateProject
  /\ a \in DOMAIN apps \cup {NoApp}
  /\ Cardinality(DOMAIN projects) < MaxProjects
  /\ Begin("project", h, [op |-> "project", name |-> n, app |-> a])
  /\ UNCHANGED tenancyVars

FinishCreateProject(h) ==
  /\ At(h, "project")
  /\ LET x == call[h] IN
       IF NameTaken(x.name, x.app) \/ x.app \notin DOMAIN apps \cup {NoApp}
         THEN UNCHANGED <<projects, usedProjects>>
         ELSE \E p \in Projects \ usedProjects : InsertProject(p, x.name, x.app)
  /\ Return(h)
  /\ UNCHANGED <<teams, members, apps>>

\* One INSERT of a row for each repository found, ON CONFLICT DO NOTHING; the
\* limit is not asked.
BulkCreateProjects(a, found) ==
  /\ AtOnce("project") /\ Admitted("admin")
  /\ a \in DOMAIN apps \cup {NoApp}
  /\ LET new == {n \in found : ~NameTaken(n, a)} IN
       \E id \in Injection(new, Projects \ usedProjects) :
         /\ new # {}
         /\ projects' = [p \in DOMAIN projects \cup Range(id) |->
                           IF p \in DOMAIN projects THEN projects[p]
                           ELSE [name |-> CHOOSE n \in new : id[n] = p, app |-> a]]
         /\ usedProjects' = usedProjects \cup Range(id)
         /\ unmetered' = unmetered + Cardinality(new)
  /\ UNCHANGED <<teams, members, apps>>

\* PATCH moves a project to an application; it cannot make it standalone.
UpdateProject(p, n, a) ==
  /\ AtOnce("project") /\ MayChange(ProjectOwners(p))
  /\ p \in DOMAIN projects /\ a \in DOMAIN apps \cup {projects[p].app}
  /\ projects[p] # [name |-> n, app |-> a] /\ ~NameTaken(n, a)
  /\ projects' = [projects EXCEPT ![p] = [name |-> n, app |-> a]]
  /\ UNCHANGED <<teams, members, apps, usedProjects>>

\* Standalone projects only, all of them or none (the names are unique).
BulkAssignProjects(a, ps) ==
  /\ AtOnce("project") /\ Admitted("admin")
  /\ a \in DOMAIN apps
  /\ LET moved == {p \in ps \cap DOMAIN projects : projects[p].app = NoApp} IN
       /\ moved # {}
       /\ \A p \in moved : ~NameTaken(projects[p].name, a)
       /\ projects' = [p \in DOMAIN projects |->
                         IF p \in moved THEN [projects[p] EXCEPT !.app = a] ELSE projects[p]]
  /\ UNCHANGED <<teams, members, apps, usedProjects>>

DeleteProject(p) ==
  /\ AtOnce("project") /\ MayChange(ProjectOwners(p))
  /\ p \in DOMAIN projects
  /\ projects' = Without(projects, {p})
  /\ UNCHANGED <<teams, members, apps, usedProjects>>

-----------------------------------------------------------------------------
\* DeleteApp and DeleteProject have effects on other tables too (see Access).
TenancyNext ==
  \/ /\ \/ \E t \in Teams : \/ \E u \in Users : AddTeamMember(t, u) \/ RemoveTeamMember(t, u)
                           \/ \E a \in Apps : UpdateApp(a, t)
                           \/ DeleteTeam(t)
        \/ \E n \in Names, a \in Apps \cup {NoApp} :
             \/ \E h \in Handlers : CreateProject(h, n, a)
             \/ \E p \in Projects : UpdateProject(p, n, a)
        \/ \E h \in Handlers : FinishCreateProject(h)
        \/ \E a \in Apps, ps \in SUBSET Projects : BulkAssignProjects(a, ps)
     /\ UNCHANGED unmetered
  \/ \E a \in Apps \cup {NoApp}, found \in SUBSET Names : BulkCreateProjects(a, found)

\* Every project and application a viewer's list shows can be opened from it,
\* and nothing else can: the scope of the lists (ListAllProjects, apps List)
\* and the guards of the routes (RequireOwnership) agree after any changes of
\* teams, applications and projects.
ListedIsOwned ==
  \A u \in DOMAIN users :
    /\ ListedProjects(u) = {p \in Projects : CheckProjectOwnership(u, p)}
    /\ ListedApps(u) = {a \in Apps : CheckAppOwnership(u, a)}
    /\ \A p \in ListedProjects(u) : projects[p].app \in ListedApps(u)

\* The checks of the limits and the inserts are separate: calls running at
\* the same time may pass a limit together, at most one too many for each
\* goroutine but one, counting the rows and the calls that are about to insert
\* theirs; beyond that only what is inserted without asking (checkUserLimit,
\* checkProjectLimit; the bulk and external creations).
LimitsHold ==
  LET slack == unmetered + Cardinality(Handlers) - 1
      Greatest(m, n) == IF m > n THEN m ELSE n
      Reached(rows, op) == Cardinality(rows) + Cardinality({h \in Handlers : At(h, op)})
  IN  /\ Reached(DOMAIN users, "create") <= Greatest(MaxUsers, 1) + slack
      /\ Reached(DOMAIN projects, "project") <= MaxProjects + slack
=============================================================================
