------------------------------ MODULE AccessProofs ------------------------------
(***************************************************************************)
(* Theorems about Access, for any users, teams, projects and tokens, any   *)
(* limits and any number of goroutines.                                    *)
(***************************************************************************)
EXTENDS Access, TokenBucketProofs, FiniteSetTheorems

-----------------------------------------------------------------------------
(* The inductive invariant.                                                *)

AccountOps == {"idle", "bump", "find", "match", "insert", "link", "sync", "issue"}
PastLookup == {"owner", "limit", "request"}
KeyOps     == {"idle", "lookup", "standalone"} \cup PastLookup
StartOps   == {"idle", "lock", "awaited", "list", "pending", "statement", "build", "await"}

\* What a call holds between its statements.
CallOK(c) ==
  /\ "op" \in DOMAIN c
  /\ c.op = "create" => c \in [op : {"create"}, user : Users, email : Emails, role : Roles]
  /\ c.op = "bump" => c \in [op : {"bump"}, user : Users]
  /\ c.op \in {"find", "match", "insert"} =>
       c \in [op : {"find", "match", "insert"}, subject : Subjects, claims : Claims]
  /\ c.op \in {"link", "sync", "issue"} =>
       c \in [op : {"link", "sync", "issue"}, subject : Subjects, claims : Claims,
              user : Users, role : Roles, active : BOOLEAN]
  /\ c.op = "project" => c \in [op : {"project"}, name : Names, app : Apps \cup {NoApp}]
  /\ c.op = "standalone" => c \in [op : {"standalone"}, name : Names]
  /\ c.op = "lookup" => c \in [op : {"lookup"}, secret : Secrets, dead : SUBSET Nat]
  /\ c.op \in PastLookup =>
       c \in [op : PastLookup, secret : Secrets, dead : SUBSET Nat,
              owner : Users \cup {NoOwner}, project : Projects \cup {AnyProject}]

RequestsOK ==
  /\ DOMAIN call = Handlers
  /\ \A h \in Handlers : CallOK(call[h])
  /\ left \in [Kinds -> Nat]

\* An id is never given twice, so a session is of the row it was issued for or
\* of none; its version is at most the row's, and the row has not changed for
\* one that still has the row's version, the exceptions apart.
SessionOK(s) ==
  /\ s.user \in used
  /\ Has(s.user) =>
       /\ s.ver <= users[s.user].ver
       /\ s.ver = users[s.user].ver /\ ~ s.sso /\ s.user \notin unbumped =>
            /\ s.pass = users[s.user].pass /\ s.role = users[s.user].role
            /\ users[s.user].active

SessionsOK == \A s \in sessions : SessionOK(s)

\* Calls that have looked at a limit and not inserted yet.
Calling(op) == {h \in Handlers : At(h, op)}

\* They and the rows are together within the limit, what was inserted without
\* a look at it apart.
Within(rows, op, limit) ==
  /\ IsFiniteSet(rows)
  /\ Cardinality(rows) + Cardinality(Calling(op)) < limit + unmetered + Cardinality(Handlers)

UserLimit == IF MaxUsers > 1 THEN MaxUsers ELSE 1

LimitsOK ==
  Within(DOMAIN users, "create", UserLimit) /\ Within(DOMAIN projects, "project", MaxProjects)

Token == [secret : Secrets, owner : Users \cup {NoOwner}, project : Projects \cup {AnyProject}]

\* Secrets are generated once: no two rows share one, and none that was
\* retired is in a row.
TokensOK ==
  /\ fresh \in Nat \ {0}
  /\ \A k \in DOMAIN tokens :
       /\ tokens[k] \in Token /\ tokens[k].secret \in 1..fresh - 1
       /\ tokens[k].secret \notin retired
  /\ \A j, k \in DOMAIN tokens : tokens[j].secret = tokens[k].secret => j = k

\* A call knows what had been retired when it began, and has found its secret
\* in a row since.
KeyCallOK(c) ==
  /\ c.op \in {"lookup"} \cup PastLookup => c.dead \subseteq retired
  /\ c.op \in PastLookup => c.secret \notin c.dead

KeyCallsOK == \A h \in Handlers : KeyCallOK(call[h])

IInv ==
  /\ RequestsOK /\ AccountsTypeOK /\ TenancyTypeOK /\ TokensTypeOK /\ BucketInv
  /\ SessionsOK /\ LimitsOK /\ TokensOK /\ KeyCallsOK

-----------------------------------------------------------------------------
(* The calls.                                                              *)

LEMMA Constants ==
  /\ Handlers # {} /\ IsFiniteSet(Handlers) /\ "fault" \in Kinds /\ Budgets \subseteq [Kinds -> Nat]
  /\ Root \in Users /\ RootEmail \in Emails /\ MaxUsers \in Nat
  /\ MaxProjects \in Nat /\ IsFiniteSet(Names) /\ NoApp \notin Apps
  /\ Skews \subseteq Nat /\ 0 \in Skews
  /\ Capacity \in Nat \ {0} /\ Rate \in Nat \ {0} /\ MaxTime \in Nat
BY RequestsAssumption, AccountsAssumption, TenancyAssumption, BucketAssumption

\* The calls are typed after a step too, and one that has moved is at one of ops.
Stays(ops) ==
  /\ RequestsOK'
  /\ \A h \in Handlers : call'[h] = call[h] \/ call'[h].op \in ops

LEMMA IdleIsOK == CallOK(Idle) /\ Idle.op = "idle"
BY DEF CallOK, Idle, PastLookup

LEMMA CountKeeps ==
  ASSUME left \in [Kinds -> Nat], NEW kind, Count(kind)
  PROVE  left' \in [Kinds -> Nat]
<1>1. CASE kind \in Kinds
  BY <1>1 DEF Count
<1>2. CASE kind \notin Kinds
  BY <1>2 DEF Count
<1> QED BY <1>1, <1>2

LEMMA MoveStays ==
  ASSUME RequestsOK, NEW h \in Handlers, NEW c, NEW ops, CallOK(c), c.op \in ops,
         call' = [call EXCEPT ![h] = c], left' \in [Kinds -> Nat]
  PROVE  /\ Stays(ops) /\ call'[h] = c
         /\ \A g \in Handlers \ {h} : call'[g] = call[g]
<1>1. /\ DOMAIN call' = Handlers /\ call'[h] = c
      /\ \A g \in Handlers \ {h} : call'[g] = call[g]
  BY DEF RequestsOK
<1>2. \A g \in Handlers : CallOK(call'[g])
  <2> TAKE g \in Handlers
  <2>1. CASE g = h
    BY <1>1, <2>1
  <2>2. CASE g # h
    BY <1>1, <2>2 DEF RequestsOK
  <2> QED BY <2>1, <2>2
<1>3. RequestsOK'
  BY <1>1, <1>2 DEF RequestsOK, CallOK
<1> QED BY <1>1, <1>3 DEF Stays

LEMMA BeginStays ==
  ASSUME RequestsOK, NEW h \in Handlers, NEW c, NEW ops, CallOK(c), c.op \in ops,
         NEW kind, Begin(kind, h, c)
  PROVE  /\ Stays(ops) /\ call'[h] = c /\ call[h] = Idle
         /\ \A g \in Handlers \ {h} : call'[g] = call[g]
<1>1. left' \in [Kinds -> Nat]
  BY CountKeeps DEF Begin, RequestsOK
<1>2. call' = [call EXCEPT ![h] = c] /\ call[h] = Idle
  BY DEF Begin
<1> QED BY <1>1, <1>2, MoveStays

LEMMA ProceedStays ==
  ASSUME RequestsOK, NEW h \in Handlers, NEW c, NEW ops, CallOK(c), c.op \in ops,
         Proceed(h, c)
  PROVE  /\ Stays(ops) /\ call'[h] = c
         /\ \A g \in Handlers \ {h} : call'[g] = call[g]
<1>1. left' \in [Kinds -> Nat]
  BY DEF Proceed, RequestsOK
<1>2. call' = [call EXCEPT ![h] = c]
  BY DEF Proceed
<1> QED BY <1>1, <1>2, MoveStays

LEMMA ReturnStays ==
  ASSUME RequestsOK, NEW h \in Handlers, NEW ops, "idle" \in ops, Return(h)
  PROVE  /\ Stays(ops) /\ call'[h] = Idle
         /\ \A g \in Handlers \ {h} : call'[g] = call[g]
<1>1. Proceed(h, Idle)
  BY DEF Return
<1> QED BY <1>1, IdleIsOK, ProceedStays

LEMMA SameStays ==
  ASSUME RequestsOK, NEW ops, UNCHANGED call, left' \in [Kinds -> Nat]
  PROVE  Stays(ops)
<1>1. RequestsOK'
  BY DEF RequestsOK, CallOK
<1> QED BY <1>1 DEF Stays

LEMMA AtOnceStays ==
  ASSUME RequestsOK, NEW ops, NEW kind, AtOnce(kind)
  PROVE  Stays(ops)
<1>1. UNCHANGED call /\ left' \in [Kinds -> Nat]
  BY CountKeeps DEF AtOnce, RequestsOK
<1> QED BY <1>1, SameStays

\* The rows a call goes on with.
LEMMA FoundIsOK ==
  ASSUME NEW h \in Handlers, NEW u \in Users, NEW row, row.role \in Roles, row.active \in BOOLEAN,
         call[h].subject \in Subjects, call[h].claims \in Claims
  PROVE  /\ \A op \in {"link", "sync", "issue"} : CallOK(With(h, op, u, row)) /\ With(h, op, u, row).op = op
         /\ CallOK(AfterFound(h, u, row)) /\ AfterFound(h, u, row).op \in {"sync", "issue"}
<1>1. \A op \in {"link", "sync", "issue"} : CallOK(With(h, op, u, row)) /\ With(h, op, u, row).op = op
  BY DEF With, CallOK, PastLookup
<1>2. \/ AfterFound(h, u, row) = With(h, "issue", u, row)
      \/ AfterFound(h, u, row) = With(h, "sync", u, row)
  BY DEF AfterFound
<1> QED BY <1>1, <1>2

LEMMA SignOnIsTyped ==
  ASSUME RequestsOK, NEW h \in Handlers, call[h].op \in {"find", "match", "insert", "link", "sync", "issue"}
  PROVE  call[h].subject \in Subjects /\ call[h].claims \in Claims
BY DEF RequestsOK, CallOK

LEMMA LinkedIsTyped ==
  ASSUME RequestsOK, NEW h \in Handlers, call[h].op \in {"link", "sync", "issue"}
  PROVE  call[h].user \in Users /\ call[h].role \in Roles /\ call[h].active \in BOOLEAN
BY DEF RequestsOK, CallOK

LEMMA AccountCalls ==
  ASSUME RequestsOK, AccountsTypeOK, AccountsNext
  PROVE  \/ Stays(AccountOps)
         \/ /\ Stays({"create"})
            /\ \E h \in Handlers, u \in Users, e \in Emails, r \in Roles : CreateUser(h, u, e, r)
<1>1. ASSUME NEW u \in Users, Login(u) PROVE Stays(AccountOps)
  BY <1>1, AtOnceStays DEF Login
<1>2. ASSUME NEW s \in sessions, Expire(s) PROVE Stays(AccountOps)
  BY <1>2, AtOnceStays DEF Expire
<1>3. ASSUME NEW h \in Handlers, NEW u \in Users, UpdateUser(h, u) \/ ResetPassword(h, u)
      PROVE  Stays(AccountOps)
  <2>1. Begin("admin", h, [op |-> "bump", user |-> u])
    BY <1>3 DEF UpdateUser, ResetPassword
  <2>2. CallOK([op |-> "bump", user |-> u])
    BY DEF CallOK, PastLookup
  <2>3. [op |-> "bump", user |-> u].op \in AccountOps
    BY DEF AccountOps
  <2> QED BY <2>1, <2>2, <2>3, BeginStays
<1>4. ASSUME NEW h \in Handlers, NEW u \in Users, NEW e \in Emails, NEW r \in Roles, CreateUser(h, u, e, r)
      PROVE  Stays({"create"})
  <2>1. Begin("create", h, [op |-> "create", user |-> u, email |-> e, role |-> r])
    BY <1>4 DEF CreateUser
  <2>2. CallOK([op |-> "create", user |-> u, email |-> e, role |-> r])
    BY DEF CallOK, PastLookup
  <2>3. [op |-> "create", user |-> u, email |-> e, role |-> r].op \in {"create"}
    OBVIOUS
  <2> QED BY <2>1, <2>2, <2>3, BeginStays
<1>5. ASSUME NEW h \in Handlers, InsertUser(h) \/ BumpTokenVersion(h) \/ IssueSSOToken(h)
      PROVE  Stays(AccountOps)
  <2>1. Return(h)
    BY <1>5 DEF InsertUser, BumpTokenVersion, IssueSSOToken
  <2> QED BY <2>1, ReturnStays DEF AccountOps
<1>6. CASE StartApi
  BY <1>6, AtOnceStays DEF StartApi
<1>7. ASSUME NEW s \in Subjects, NEW h \in Handlers, SSOCallback(h, s) PROVE Stays(AccountOps)
  <2>1. Begin("sso", h, [op |-> "find", subject |-> s, claims |-> idp[s]])
    BY <1>7 DEF SSOCallback
  <2>2. CallOK([op |-> "find", subject |-> s, claims |-> idp[s]])
    BY DEF CallOK, PastLookup, AccountsTypeOK
  <2>3. [op |-> "find", subject |-> s, claims |-> idp[s]].op \in AccountOps
    BY DEF AccountOps
  <2> QED BY <2>1, <2>2, <2>3, BeginStays
<1>8. ASSUME NEW s \in Subjects, NEW c \in Claims, IdpChanges(s, c) PROVE Stays(AccountOps)
  BY <1>8, AtOnceStays DEF IdpChanges
<1>9. \A u \in DOMAIN users : u \in Users /\ users[u].role \in Roles /\ users[u].active \in BOOLEAN
  BY DEF AccountsTypeOK, Row
<1>10. \A op \in {"sync", "issue", "link"} : op \in AccountOps
  BY DEF AccountOps
<1>11. ASSUME NEW h \in Handlers, FindLinked(h) PROVE Stays(AccountOps)
  <2>1. At(h, "find")
    BY <1>11 DEF FindLinked
  <2>2. call[h].subject \in Subjects /\ call[h].claims \in Claims
    BY <2>1, SignOnIsTyped DEF At
  <2>3. CASE \E u \in DOMAIN users : Proceed(h, AfterFound(h, u, users[u]))
    <3>1. PICK u \in DOMAIN users : Proceed(h, AfterFound(h, u, users[u]))
      BY <2>3
    <3>2. CallOK(AfterFound(h, u, users[u])) /\ AfterFound(h, u, users[u]).op \in AccountOps
      BY <1>9, <1>10, <2>2, FoundIsOK
    <3> QED BY <3>1, <3>2, ProceedStays
  <2>4. CASE Proceed(h, [call[h] EXCEPT !.op = "match"])
    <3>1. CallOK([call[h] EXCEPT !.op = "match"]) /\ [call[h] EXCEPT !.op = "match"].op \in AccountOps
      BY <2>1 DEF RequestsOK, CallOK, At, PastLookup, AccountOps
    <3> QED BY <2>4, <3>1, ProceedStays
  <2> QED BY <1>11, <2>3, <2>4 DEF FindLinked
<1>12. ASSUME NEW h \in Handlers, MatchEmail(h) PROVE Stays(AccountOps)
  <2>1. At(h, "match")
    BY <1>12 DEF MatchEmail
  <2>2. call[h].subject \in Subjects /\ call[h].claims \in Claims
    BY <2>1, SignOnIsTyped DEF At
  <2>3. CASE \E u \in DOMAIN users : Proceed(h, With(h, "link", u, users[u]))
    <3>1. PICK u \in DOMAIN users : Proceed(h, With(h, "link", u, users[u]))
      BY <2>3
    <3>2. CallOK(With(h, "link", u, users[u])) /\ With(h, "link", u, users[u]).op \in AccountOps
      BY <1>9, <1>10, <2>2, FoundIsOK
    <3> QED BY <3>1, <3>2, ProceedStays
  <2>4. CASE Proceed(h, [call[h] EXCEPT !.op = "insert"])
    <3>1. CallOK([call[h] EXCEPT !.op = "insert"]) /\ [call[h] EXCEPT !.op = "insert"].op \in AccountOps
      BY <2>1 DEF RequestsOK, CallOK, At, PastLookup, AccountOps
    <3> QED BY <2>4, <3>1, ProceedStays
  <2> QED BY <1>12, <2>3, <2>4 DEF MatchEmail
<1>13. ASSUME NEW h \in Handlers, CreateSSOUser(h) PROVE Stays(AccountOps)
  <2>1. At(h, "insert")
    BY <1>13 DEF CreateSSOUser
  <2>2. call[h].subject \in Subjects /\ call[h].claims \in Claims
    BY <2>1, SignOnIsTyped DEF At
  <2>3. CASE Return(h)
    BY <2>3, ReturnStays DEF AccountOps
  <2>4. CASE \E u \in Users : Proceed(h, With(h, "link", u, NewRow(call[h].claims.email, NoPassword, call[h].claims.role)))
    <3>1. PICK u \in Users :
            Proceed(h, With(h, "link", u, NewRow(call[h].claims.email, NoPassword, call[h].claims.role)))
      BY <2>4
    <3>2. PICK row : row = NewRow(call[h].claims.email, NoPassword, call[h].claims.role)
      OBVIOUS
    <3>3. row.role \in Roles /\ row.active \in BOOLEAN
      BY <2>2, <3>2 DEF NewRow, Claims
    <3>4. CallOK(With(h, "link", u, row)) /\ With(h, "link", u, row).op \in AccountOps
      BY <1>10, <2>2, <3>3, FoundIsOK
    <3>5. Proceed(h, With(h, "link", u, row))
      BY <3>1, <3>2
    <3> QED BY <3>4, <3>5, ProceedStays
  <2> QED BY <1>13, <2>3, <2>4 DEF CreateSSOUser
<1>14. ASSUME NEW h \in Handlers, LinkSSOIdentity(h) PROVE Stays(AccountOps)
  <2>1. At(h, "link")
    BY <1>14 DEF LinkSSOIdentity
  <2>2. /\ call[h].subject \in Subjects /\ call[h].claims \in Claims
        /\ call[h].user \in Users /\ call[h].role \in Roles /\ call[h].active \in BOOLEAN
    BY <2>1, SignOnIsTyped, LinkedIsTyped DEF At
  <2>3. CASE Return(h)
    BY <2>3, ReturnStays DEF AccountOps
  <2>4. CASE Proceed(h, AfterFound(h, call[h].user, [role |-> call[h].role, active |-> call[h].active]))
    <3>1. PICK row : row = [role |-> call[h].role, active |-> call[h].active]
      OBVIOUS
    <3>2. row.role \in Roles /\ row.active \in BOOLEAN
      BY <2>2, <3>1
    <3>3. CallOK(AfterFound(h, call[h].user, row)) /\ AfterFound(h, call[h].user, row).op \in AccountOps
      BY <1>10, <2>2, <3>2, FoundIsOK
    <3> QED BY <2>4, <3>1, <3>3, ProceedStays
  <2> QED BY <1>14, <2>3, <2>4 DEF LinkSSOIdentity
<1>15. ASSUME NEW h \in Handlers, SyncSSORole(h) PROVE Stays(AccountOps)
  <2>1. At(h, "sync")
    BY <1>15 DEF SyncSSORole
  <2>2. /\ call[h].subject \in Subjects /\ call[h].claims \in Claims /\ call[h].user \in Users
    BY <2>1, SignOnIsTyped, LinkedIsTyped DEF At
  <2>3. CASE Return(h)
    BY <2>3, ReturnStays DEF AccountOps
  <2>4. CASE /\ Has(call[h].user)
             /\ users' = [users EXCEPT ![call[h].user].role = call[h].claims.role]
             /\ Proceed(h, With(h, "issue", call[h].user, users'[call[h].user]))
    <3>1. PICK row : row = users'[call[h].user]
      OBVIOUS
    <3>2. users[call[h].user] \in Row
      BY <2>4 DEF Has, AccountsTypeOK
    <3>3. row = [users[call[h].user] EXCEPT !.role = call[h].claims.role]
      BY <2>4, <3>1 DEF Has
    <3>4. row.role \in Roles /\ row.active \in BOOLEAN
      BY <2>2, <3>2, <3>3 DEF Claims, Row
    <3>5. CallOK(With(h, "issue", call[h].user, row)) /\ With(h, "issue", call[h].user, row).op \in AccountOps
      BY <1>10, <2>2, <3>4, FoundIsOK
    <3> QED BY <2>4, <3>1, <3>5, ProceedStays
  <2> QED BY <1>15, <2>3, <2>4 DEF SyncSSORole
<1> QED
  BY <1>1, <1>2, <1>3, <1>4, <1>5, <1>6, <1>7, <1>8, <1>11, <1>12, <1>13, <1>14, <1>15 DEF AccountsNext

LEMMA TenancyCalls ==
  ASSUME RequestsOK, TenancyTypeOK, TenancyNext
  PROVE  \/ Stays({"idle"})
         \/ /\ Stays({"project"})
            /\ \E n \in Names, a \in Apps \cup {NoApp}, h \in Handlers : CreateProject(h, n, a)
<1>1. ASSUME NEW kind, AtOnce(kind) PROVE Stays({"idle"})
  BY <1>1, AtOnceStays
<1>2. ASSUME NEW t \in Teams, NEW u \in Users, AddTeamMember(t, u) \/ RemoveTeamMember(t, u)
      PROVE  Stays({"idle"})
  BY <1>1, <1>2 DEF AddTeamMember, RemoveTeamMember
<1>3. ASSUME NEW t \in Teams, (\E a \in Apps : UpdateApp(a, t)) \/ DeleteTeam(t) PROVE Stays({"idle"})
  BY <1>1, <1>3 DEF UpdateApp, DeleteTeam
<1>4. ASSUME NEW n \in Names, NEW a \in Apps \cup {NoApp}, NEW h \in Handlers, CreateProject(h, n, a)
      PROVE  Stays({"project"})
  <2>1. Begin("project", h, [op |-> "project", name |-> n, app |-> a])
    BY <1>4 DEF CreateProject
  <2>2. CallOK([op |-> "project", name |-> n, app |-> a])
    BY DEF CallOK, PastLookup
  <2>3. [op |-> "project", name |-> n, app |-> a].op \in {"project"}
    OBVIOUS
  <2> QED BY <2>1, <2>2, <2>3, BeginStays
<1>5. ASSUME NEW n \in Names, NEW a \in Apps \cup {NoApp}, NEW p \in Projects, UpdateProject(p, n, a)
      PROVE  Stays({"idle"})
  BY <1>1, <1>5 DEF UpdateProject
<1>6. ASSUME NEW h \in Handlers, FinishCreateProject(h) PROVE Stays({"idle"})
  BY <1>6, ReturnStays DEF FinishCreateProject
<1>7. ASSUME NEW a \in Apps, NEW ps \in SUBSET Projects, BulkAssignProjects(a, ps) PROVE Stays({"idle"})
  BY <1>1, <1>7 DEF BulkAssignProjects
<1>8. ASSUME NEW a \in Apps \cup {NoApp}, NEW found \in SUBSET Names, BulkCreateProjects(a, found)
      PROVE  Stays({"idle"})
  BY <1>1, <1>8 DEF BulkCreateProjects
<1> QED
  BY <1>2, <1>3, <1>4, <1>5, <1>6, <1>7, <1>8 DEF TenancyNext

\* A call with a key that goes on keeps its secret and what was retired.
LEMMA KeyCallGoesOn ==
  ASSUME RequestsOK, NEW h \in Handlers, call[h].op \in PastLookup, NEW op \in PastLookup
  PROVE  LET c == [call[h] EXCEPT !.op = op]
         IN  CallOK(c) /\ c.op = op /\ c.secret = call[h].secret /\ c.dead = call[h].dead
<1>1. call[h] \in [op : PastLookup, secret : Secrets, dead : SUBSET Nat,
                   owner : Users \cup {NoOwner}, project : Projects \cup {AnyProject}]
  BY DEF RequestsOK, CallOK
<1> QED BY <1>1 DEF CallOK, PastLookup

LEMMA TokenCalls ==
  ASSUME RequestsOK, TokensTypeOK, TokensOK, TokensNext
  PROVE  Stays(KeyOps)
<1>1. ASSUME NEW k \in TokenIds,
             \/ \E u \in Users, p \in Projects \cup {AnyProject} : CreateToken(k, u, p)
             \/ RotateToken(k) \/ DeleteToken(k)
      PROVE  Stays(KeyOps)
  BY <1>1, AtOnceStays DEF CreateToken, RotateToken, DeleteToken
<1>2. ASSUME NEW h \in Handlers, NEW s \in Secrets, KeyRequest(h, s) PROVE Stays(KeyOps)
  <2>1. Begin("request", h, [op |-> "lookup", secret |-> s, dead |-> retired])
    BY <1>2 DEF KeyRequest
  <2>2. CallOK([op |-> "lookup", secret |-> s, dead |-> retired])
    BY DEF CallOK, PastLookup, TokensTypeOK, TokensOK
  <2>3. [op |-> "lookup", secret |-> s, dead |-> retired].op \in KeyOps
    BY DEF KeyOps
  <2> QED BY <2>1, <2>2, <2>3, BeginStays
<1>3. ASSUME NEW h \in Handlers, GetByPrefix(h) PROVE Stays(KeyOps)
  <2>1. At(h, "lookup")
    BY <1>3 DEF GetByPrefix
  <2>2. call[h].secret \in Secrets /\ call[h].dead \in SUBSET Nat
    BY <2>1 DEF RequestsOK, CallOK, At
  <2>3. CASE Return(h)
    BY <2>3, ReturnStays DEF KeyOps
  <2>4. ASSUME NEW k \in DOMAIN tokens,
               Proceed(h, [op |-> IF tokens[k].owner = NoOwner THEN "limit" ELSE "owner",
                           secret |-> call[h].secret, dead |-> call[h].dead,
                           owner |-> tokens[k].owner, project |-> tokens[k].project])
        PROVE  Stays(KeyOps)
    <3>1. PICK c : c = [op |-> IF tokens[k].owner = NoOwner THEN "limit" ELSE "owner",
                        secret |-> call[h].secret, dead |-> call[h].dead,
                        owner |-> tokens[k].owner, project |-> tokens[k].project]
      OBVIOUS
    <3>2. tokens[k].owner \in Users \cup {NoOwner} /\ tokens[k].project \in Projects \cup {AnyProject}
      BY DEF TokensOK, Token
    <3>3. CallOK(c) /\ c.op \in KeyOps
      BY <2>2, <3>1, <3>2 DEF CallOK, PastLookup, KeyOps
    <3>4. Proceed(h, c)
      BY <2>4, <3>1
    <3> QED BY <3>3, <3>4, ProceedStays
  <2> QED BY <1>3, <2>3, <2>4 DEF GetByPrefix
<1>4. ASSUME NEW h \in Handlers, CheckOwner(h) PROVE Stays(KeyOps)
  <2>1. At(h, "owner")
    BY <1>4 DEF CheckOwner
  <2>2. CASE Return(h)
    BY <2>2, ReturnStays DEF KeyOps
  <2>3. CASE Proceed(h, [call[h] EXCEPT !.op = "limit"])
    <3>1. CallOK([call[h] EXCEPT !.op = "limit"]) /\ [call[h] EXCEPT !.op = "limit"].op \in KeyOps
      BY <2>1, KeyCallGoesOn DEF At, PastLookup, KeyOps
    <3> QED BY <2>3, <3>1, ProceedStays
  <2> QED BY <1>4, <2>2, <2>3 DEF CheckOwner
<1> QED BY <1>1, <1>2, <1>3, <1>4 DEF TokensNext

LEMMA BucketCalls ==
  ASSUME RequestsOK, NEW h \in Handlers, NEW s \in Skews, PassBucket(h, s)
  PROVE  Stays(KeyOps)
<1>1. At(h, "limit")
  BY DEF PassBucket
<1>2. CASE Return(h)
  BY <1>2, ReturnStays DEF KeyOps
<1>3. CASE Proceed(h, [call[h] EXCEPT !.op = "request"])
  <2>1. CallOK([call[h] EXCEPT !.op = "request"]) /\ [call[h] EXCEPT !.op = "request"].op \in KeyOps
    BY <1>1, KeyCallGoesOn DEF At, PastLookup, KeyOps
  <2> QED BY <1>3, <2>1, ProceedStays
<1> QED BY <1>2, <1>3 DEF PassBucket

LEMMA StandaloneIsOK ==
  ASSUME NEW n \in Names
  PROVE  CallOK([op |-> "standalone", name |-> n]) /\ [op |-> "standalone", name |-> n].op \in KeyOps
BY DEF CallOK, PastLookup, KeyOps

LEMMA ScanCalls ==
  ASSUME RequestsOK, NEW h \in Handlers,
         \/ \E p \in Projects : ScanById(h, p)
         \/ \E n \in Names : ScanByName(h, n)
         \/ CreateStandaloneProject(h)
         \/ \E m \in Messages : McpNext(h, m)
  PROVE  Stays({"idle", "standalone"})
<1>1. CASE Return(h)
  BY <1>1, ReturnStays
<1>2. ASSUME NEW n \in Names, Proceed(h, [op |-> "standalone", name |-> n]) PROVE Stays({"idle", "standalone"})
  <2>1. [op |-> "standalone", name |-> n].op \in {"idle", "standalone"}
    OBVIOUS
  <2> QED BY <1>2, <2>1, StandaloneIsOK, ProceedStays
<1> QED
  BY <1>1, <1>2 DEF ScanById, ScanByName, CreateStandaloneProject, McpNext, McpCreateProject,
                    McpTriggerScan, McpAnswer

\* Only where a start stands matters to the rest.
LEMMA StartIsOK ==
  ASSUME NEW c, "op" \in DOMAIN c, c.op \in StartOps
  PROVE  CallOK(c)
BY DEF CallOK, StartOps, PastLookup

LEMMA StartCalls ==
  ASSUME RequestsOK, MigrationsNext
  PROVE  Stays(StartOps)
<1> PICK h \in Handlers :
      \/ \E r \in Releases : RunMigrations(h, r)
      \/ AcquireLock(h) \/ GetApplied(h) \/ ApplyTransactional(h) \/ ApplyNonTransactional(h)
      \/ ExecStatement(h) \/ AwaitSnapshots(h) \/ IndexIsBuilt(h) \/ Deadlocked(h)
      \/ RecordMigration(h) \/ Serve(h)
  BY DEF MigrationsNext
<1>1. CASE Return(h)
  BY <1>1, ReturnStays DEF StartOps
<1>2. ASSUME NEW c, Proceed(h, c), "op" \in DOMAIN c, c.op \in StartOps PROVE Stays(StartOps)
  BY <1>2, StartIsOK, ProceedStays
<1>3. "op" \in DOMAIN call[h]
  BY DEF RequestsOK, CallOK
<1>4. \A r : Proceed(h, InScript(call[h], r)) => Stays(StartOps)
  <2> TAKE r
  <2> HAVE Proceed(h, InScript(call[h], r))
  <2>1. "op" \in DOMAIN InScript(call[h], r) /\ InScript(call[h], r).op \in StartOps
    BY DEF InScript, StartOps
  <2> QED BY <1>2, <2>1
<1>5. ASSUME NEW r \in Releases, RunMigrations(h, r) PROVE Stays(StartOps)
  <2>1. Begin("start", h, [op |-> "lock", release |-> r])
    BY <1>5 DEF RunMigrations
  <2>2. "op" \in DOMAIN [op |-> "lock", release |-> r] /\ [op |-> "lock", release |-> r].op \in StartOps
    BY DEF StartOps
  <2> QED BY <2>1, <2>2, StartIsOK, BeginStays
<1>6. CASE AcquireLock(h)
  <2>1. Proceed(h, [call[h] EXCEPT !.op = "list"])
    BY <1>6 DEF AcquireLock
  <2>2. "op" \in DOMAIN [call[h] EXCEPT !.op = "list"] /\ [call[h] EXCEPT !.op = "list"].op \in StartOps
    BY <1>3 DEF StartOps
  <2> QED BY <1>2, <2>1, <2>2
<1>7. CASE GetApplied(h)
  <2>1. PICK r, t : Proceed(h, [op |-> "pending", release |-> r, todo |-> t])
    BY <1>7 DEF GetApplied
  <2>2. "op" \in DOMAIN [op |-> "pending", release |-> r, todo |-> t]
        /\ [op |-> "pending", release |-> r, todo |-> t].op \in StartOps
    BY DEF StartOps
  <2> QED BY <1>2, <2>1, <2>2
<1>8. CASE ApplyTransactional(h)
  <2>1. CASE Refuse(h)
    BY <1>1, <2>1 DEF Refuse
  <2>2. CASE \E v : Proceed(h, [call[h] EXCEPT !.todo = @ \ {v}])
    <3>1. PICK v : Proceed(h, [call[h] EXCEPT !.todo = @ \ {v}])
      BY <2>2
    <3>2. PICK c : c = [call[h] EXCEPT !.todo = @ \ {v}]
      OBVIOUS
    <3>3. "op" \in DOMAIN c /\ c.op = "pending"
      BY <1>3, <1>8, <3>2 DEF ApplyTransactional, At
    <3>4. c.op \in StartOps
      BY <3>3 DEF StartOps
    <3> QED BY <1>2, <3>1, <3>2, <3>3, <3>4
  <2> QED BY <1>8, <2>1, <2>2 DEF ApplyTransactional
<1>9. CASE ApplyNonTransactional(h)
  BY <1>4, <1>9 DEF ApplyNonTransactional
<1>10. CASE ExecStatement(h)
  <2>1. CASE Refuse(h)
    BY <1>1, <2>1 DEF Refuse
  <2>2. CASE \E r : Proceed(h, InScript(call[h], r))
    BY <1>4, <2>2
  <2>3. CASE \E r, n : Proceed(h, Building(r, n))
    <3>1. PICK r, n : Proceed(h, Building(r, n))
      BY <2>3
    <3>2. "op" \in DOMAIN Building(r, n) /\ Building(r, n).op \in StartOps
      BY DEF Building, StartOps
    <3> QED BY <1>2, <3>1, <3>2
  <2> QED BY <1>10, <2>1, <2>2, <2>3 DEF ExecStatement
<1>11. CASE IndexIsBuilt(h)
  BY <1>4, <1>11 DEF IndexIsBuilt
<1>12. CASE RecordMigration(h)
  <2>1. CASE Refuse(h)
    BY <1>1, <2>1 DEF Refuse
  <2>2. CASE \E r, t : Proceed(h, [op |-> "pending", release |-> r, todo |-> t])
    <3>1. PICK r, t : Proceed(h, [op |-> "pending", release |-> r, todo |-> t])
      BY <2>2
    <3>2. "op" \in DOMAIN [op |-> "pending", release |-> r, todo |-> t]
          /\ [op |-> "pending", release |-> r, todo |-> t].op \in StartOps
      BY DEF StartOps
    <3> QED BY <1>2, <3>1, <3>2
  <2> QED BY <1>12, <2>1, <2>2 DEF RecordMigration
<1>13. CASE Serve(h)
  BY <1>1, <1>13 DEF Serve
<1>14. CASE AwaitSnapshots(h)
  <2>1. /\ call' = [g \in Handlers |-> IF g = h THEN [call[g] EXCEPT !.op = "await"]
                                      ELSE IF At(g, "lock") THEN [call[g] EXCEPT !.op = "awaited"]
                                      ELSE call[g]]
        /\ UNCHANGED left
    BY <1>14 DEF AwaitSnapshots
  <2>2. \A g \in Handlers :
          /\ CallOK(call'[g])
          /\ call'[g] = call[g] \/ call'[g].op \in StartOps
    <3> TAKE g \in Handlers
    <3>1. "op" \in DOMAIN call[g] /\ CallOK(call[g])
      BY DEF RequestsOK, CallOK
    <3>2. CASE call'[g] = call[g]
      BY <3>1, <3>2
    <3>3. ASSUME NEW op \in {"await", "awaited"}, call'[g] = [call[g] EXCEPT !.op = op]
          PROVE  CallOK(call'[g]) /\ call'[g].op \in StartOps
      <4>1. "op" \in DOMAIN call'[g] /\ call'[g].op \in StartOps
        BY <3>1, <3>3 DEF StartOps
      <4> QED BY <4>1, StartIsOK
    <3> QED BY <2>1, <3>2, <3>3
  <2> QED BY <2>1, <2>2 DEF Stays, RequestsOK
<1>15. CASE Deadlocked(h)
  <2>1. \E g \in Handlers : Return(g)
    BY <1>15 DEF Deadlocked
  <2> QED BY <2>1, ReturnStays DEF StartOps
<1> QED BY <1>5, <1>6, <1>7, <1>8, <1>9, <1>10, <1>11, <1>12, <1>13, <1>14, <1>15

LEMMA CutOffCalls ==
  ASSUME RequestsOK, NEW h \in Handlers, CutOff(h)
  PROVE  Stays({"idle"})
<1>1. left' \in [Kinds -> Nat] /\ call' = [call EXCEPT ![h] = Idle]
  BY CountKeeps DEF CutOff, RequestsOK
<1> QED BY <1>1, IdleIsOK, MoveStays

-----------------------------------------------------------------------------
(* Accounts.                                                               *)

LEMMA CreateIsTyped ==
  ASSUME RequestsOK, NEW h \in Handlers, At(h, "create")
  PROVE  call[h].user \in Users /\ call[h].email \in Emails /\ call[h].role \in Roles
BY DEF RequestsOK, CallOK, At

\* What one statement may do to a row: nothing; insert it, for an id never
\* given; raise its version; link it; change what a session depends on, when it
\* leaves the version and marks the user; or remove it.
RowStep(u) ==
  \/ /\ Has(u)' <=> Has(u)
     /\ (Has(u) => users'[u] = users[u])
     /\ u \in unbumped' <=> u \in unbumped
  \/ u \in Users /\ u \notin used /\ Has(u)' /\ users'[u] \in Row
  \/ /\ Has(u) /\ Has(u)' /\ users'[u] = [users[u] EXCEPT !.ver = @ + 1]
  \/ /\ Has(u) /\ Has(u)'
     /\ u \in unbumped' <=> u \in unbumped
     /\ \E x \in Subjects : users'[u] = [users[u] EXCEPT !.sso = x]
  \/ /\ Has(u) /\ Has(u)' /\ u \in unbumped'
     /\ users'[u] \in Row /\ users'[u].ver = users[u].ver
  \/ ~ Has(u)'

\* And to the sessions: none is added but a copy of a row.
SessionStep(s) ==
  \/ s \in sessions
  \/ \E u \in DOMAIN users, r \in Roles, sso \in BOOLEAN :
       /\ s = SessionOf(u, r, sso)
       /\ sso \/ (r = users[u].role /\ users[u].active)
       /\ UNCHANGED <<users, unbumped>>

AccountStep ==
  /\ \A u : RowStep(u)
  /\ \A s \in sessions' : SessionStep(s)
  /\ used \subseteq used' /\ used' \subseteq Users /\ DOMAIN users' \subseteq used'
  /\ idp' \in [Subjects -> Claims]
  /\ unbumped' \subseteq Users /\ unmetered' \in Nat

LEMMA AccountStepKeeps ==
  ASSUME AccountsTypeOK, SessionsOK, AccountStep
  PROVE  AccountsTypeOK' /\ SessionsOK'
<1>1. ASSUME NEW u, Has(u)' PROVE users'[u] \in Row
  <2>1. RowStep(u)
    BY DEF AccountStep
  <2>2. CASE Has(u) /\ users[u] \in Row
    <3>1. CASE users'[u] = [users[u] EXCEPT !.ver = @ + 1]
      BY <2>2, <3>1 DEF Row
    <3>2. CASE \E x \in Subjects : users'[u] = [users[u] EXCEPT !.sso = x]
      BY <2>2, <3>2 DEF Row
    <3> QED BY <1>1, <2>1, <2>2, <3>1, <3>2 DEF RowStep
  <2>3. CASE ~ Has(u)
    BY <1>1, <2>1, <2>3 DEF RowStep
  <2> QED BY <2>2, <2>3 DEF AccountsTypeOK, Has
<1>2. ASSUME NEW s \in sessions' PROVE s \in Session
  <2>1. CASE s \in sessions
    BY <2>1 DEF AccountsTypeOK
  <2>2. ASSUME NEW u \in DOMAIN users, NEW r \in Roles, NEW sso \in BOOLEAN, s = SessionOf(u, r, sso)
        PROVE  s \in Session
    <3>1. u \in Users /\ users[u] \in Row
      BY DEF AccountsTypeOK
    <3> QED BY <2>2, <3>1 DEF SessionOf, Session, Row
  <2> QED BY <2>1, <2>2 DEF AccountStep, SessionStep
<1>3. AccountsTypeOK'
  BY <1>1, <1>2 DEF AccountsTypeOK, AccountStep, Has
<1>4. ASSUME NEW s \in sessions' PROVE SessionOK(s)'
  <2>1. CASE s \in sessions
    <3>1. PICK u : u = s.user
      OBVIOUS
    <3>2. SessionOK(s) /\ RowStep(u) /\ u \in used /\ u \in used'
      BY <2>1, <3>1 DEF SessionsOK, AccountStep, SessionOK
    <3>3. s.ver \in Nat
      BY <2>1 DEF AccountsTypeOK, Session
    <3>4. Has(u) => users[u] \in Row
      BY DEF AccountsTypeOK, Has
    <3>5. CASE /\ Has(u)' <=> Has(u)
               /\ (Has(u) => users'[u] = users[u])
               /\ u \in unbumped' <=> u \in unbumped
      BY <3>1, <3>2, <3>5 DEF SessionOK, Has
    <3>6. CASE Has(u) /\ Has(u)' /\ users'[u] = [users[u] EXCEPT !.ver = @ + 1]
      <4>1. users'[u].ver = users[u].ver + 1 /\ users[u].ver \in Nat
        BY <3>4, <3>6 DEF Row
      <4> QED BY <3>1, <3>2, <3>3, <3>6, <4>1 DEF SessionOK, Has
    <3>7. CASE /\ Has(u) /\ Has(u)'
               /\ u \in unbumped' <=> u \in unbumped
               /\ \E x \in Subjects : users'[u] = [users[u] EXCEPT !.sso = x]
      <4>1. /\ users'[u].ver = users[u].ver /\ users'[u].pass = users[u].pass
            /\ users'[u].role = users[u].role /\ users'[u].active = users[u].active
        BY <3>4, <3>7 DEF Row
      <4> QED BY <3>1, <3>2, <3>7, <4>1 DEF SessionOK, Has
    <3>8. CASE /\ Has(u) /\ Has(u)' /\ u \in unbumped'
               /\ users'[u] \in Row /\ users'[u].ver = users[u].ver
      BY <3>1, <3>2, <3>8 DEF SessionOK, Has
    <3>9. CASE ~ Has(u)'
      BY <3>1, <3>2, <3>9 DEF SessionOK, Has
    <3> QED BY <3>2, <3>5, <3>6, <3>7, <3>8, <3>9 DEF RowStep
  <2>2. ASSUME NEW u \in DOMAIN users, NEW r \in Roles, NEW sso \in BOOLEAN, s = SessionOf(u, r, sso),
               sso \/ (r = users[u].role /\ users[u].active), UNCHANGED <<users, unbumped>>
        PROVE  SessionOK(s)'
    <3>1. u \in used' /\ users[u] \in Row
      BY DEF AccountStep, AccountsTypeOK
    <3>2. s.user = u /\ s.ver = users[u].ver /\ s.pass = users[u].pass /\ s.role = r /\ s.sso = sso
      BY <2>2 DEF SessionOf
    <3>3. users'[u] = users[u]
      BY <2>2
    <3> QED BY <2>2, <3>1, <3>2, <3>3 DEF SessionOK, Has, Row
  <2> QED BY <2>1, <2>2 DEF AccountStep, SessionStep
<1> QED BY <1>3, <1>4 DEF SessionsOK

LEMMA NewRowIsRow ==
  ASSUME NEW e \in Emails, NEW p \in Nat, NEW r \in Roles
  PROVE  NewRow(e, p, r) \in Row
BY DEF NewRow, Row

LEMMA SameRows ==
  ASSUME UNCHANGED <<users, unbumped>>
  PROVE  \A u : RowStep(u)
BY DEF RowStep, Has

LEMMA InsertIsStep ==
  ASSUME NEW u \in Users \ used, NEW row \in Row, Insert(u, row), UNCHANGED unbumped, AccountsTypeOK
  PROVE  (\A v : RowStep(v)) /\ DOMAIN users' = DOMAIN users \cup {u} /\ used' = used \cup {u}
<1>1. /\ DOMAIN users' = DOMAIN users \cup {u} /\ used' = used \cup {u}
      /\ \A v \in DOMAIN users' : users'[v] = IF v \in DOMAIN users THEN users[v] ELSE row
  BY DEF Insert, AddRow
<1>2. u \notin DOMAIN users
  BY DEF AccountsTypeOK
<1>3. RowStep(u)
  BY <1>1, <1>2 DEF RowStep, Has
<1>4. ASSUME NEW v, v # u PROVE RowStep(v)
  BY <1>1, <1>4 DEF RowStep, Has
<1> QED BY <1>1, <1>3, <1>4

\* One row is replaced and its user marked.
LEMMA ChangeIsStep ==
  ASSUME NEW u \in DOMAIN users, NEW row \in Row, users' = [users EXCEPT ![u] = row],
         row.ver = users[u].ver, unbumped' = unbumped \cup {u}
  PROVE  \A v : RowStep(v)
<1>1. DOMAIN users' = DOMAIN users /\ users'[u] = row
  OBVIOUS
<1>2. ASSUME NEW v, v # u PROVE RowStep(v)
  <2>1. CASE v \in DOMAIN users
    <3>1. users'[v] = users[v]
      BY <1>2, <2>1
    <3> QED BY <1>1, <1>2, <3>1 DEF RowStep, Has
  <2>2. CASE v \notin DOMAIN users
    BY <1>1, <2>2 DEF RowStep, Has
  <2> QED BY <2>1, <2>2
<1> QED BY <1>1, <1>2 DEF RowStep, Has

LEMMA UserChangeIsStep ==
  ASSUME AccountsTypeOK, NEW u \in DOMAIN users, NEW row \in Changed(users[u])
  PROVE  row \in Row /\ row.ver = users[u].ver
<1>1. users[u] \in Row
  BY DEF AccountsTypeOK
<1>2. CASE row = [users[u] EXCEPT !.pass = @ + 1]
  BY <1>1, <1>2 DEF Row
<1>3. CASE \E r \in Roles : row = [users[u] EXCEPT !.role = r]
  BY <1>1, <1>3 DEF Row
<1>4. CASE \E a \in BOOLEAN : row = [users[u] EXCEPT !.active = a]
  BY <1>1, <1>4 DEF Row
<1>5. CASE \E e \in Emails : row = [users[u] EXCEPT !.email = e]
  BY <1>1, <1>5 DEF Row
<1> QED BY <1>2, <1>3, <1>4, <1>5 DEF Changed

\* What AccountStep asks of the rest when only rows change.
LEMMA RowsStep ==
  ASSUME AccountsTypeOK, \A u : RowStep(u), UNCHANGED <<sessions, idp>>,
         used \subseteq used', used' \subseteq Users, DOMAIN users' \subseteq used',
         unbumped' \subseteq Users, unmetered' \in Nat
  PROVE  AccountStep
BY DEF AccountStep, SessionStep, AccountsTypeOK

LEMMA AccountsNextIsStep ==
  ASSUME RequestsOK, AccountsTypeOK, AccountsNext
  PROVE  AccountStep /\ DOMAIN users \subseteq DOMAIN users'
<1> DEFINE P == AccountStep /\ DOMAIN users \subseteq DOMAIN users'
<1> SUFFICES P
  OBVIOUS
<1>0. \A u \in DOMAIN users : u \in Users /\ u \in used /\ users[u] \in Row
  BY DEF AccountsTypeOK
<1>1. ASSUME UNCHANGED accountVars PROVE P
  <2>1. UNCHANGED <<users, used, sessions, idp, unbumped, unmetered>>
    BY <1>1 DEF accountVars, accountRows
  <2> QED BY <2>1, SameRows, RowsStep DEF AccountsTypeOK
<1>2. ASSUME NEW u \in Users, Login(u) PROVE P
  <2>1. /\ Has(u) /\ users[u].active /\ sessions' = sessions \cup {SessionOf(u, users[u].role, FALSE)}
        /\ UNCHANGED <<users, used, idp, unbumped, unmetered>>
    BY <1>2 DEF Login
  <2>2. SessionStep(SessionOf(u, users[u].role, FALSE))
    BY <1>0, <2>1 DEF SessionStep, Has, Row
  <2>3. \A s \in sessions' : SessionStep(s)
    BY <2>1, <2>2 DEF SessionStep
  <2> QED BY <2>1, <2>3, SameRows DEF AccountStep, AccountsTypeOK
<1>3. ASSUME NEW s \in sessions, Expire(s) PROVE P
  <2>1. sessions' = sessions \ {s} /\ UNCHANGED <<users, used, idp, unbumped, unmetered>>
    BY <1>3 DEF Expire
  <2>2. \A x \in sessions' : SessionStep(x)
    BY <2>1 DEF SessionStep
  <2> QED BY <2>1, <2>2, SameRows DEF AccountStep, AccountsTypeOK
<1>4. ASSUME NEW u \in DOMAIN users, NEW row \in Row, users' = [users EXCEPT ![u] = row],
             row.ver = users[u].ver, unbumped' = unbumped \cup {u},
             UNCHANGED <<used, sessions, idp, unmetered>>
      PROVE  P
  <2>1. \A v : RowStep(v)
    BY <1>4, ChangeIsStep
  <2>2. DOMAIN users' = DOMAIN users
    BY <1>4
  <2> QED BY <1>0, <1>4, <2>1, <2>2, RowsStep DEF AccountsTypeOK
<1>5. ASSUME NEW h \in Handlers, NEW u \in Users, UpdateUser(h, u) PROVE P
  <2>1. PICK row \in Changed(users[u]) : users' = [users EXCEPT ![u] = row]
    BY <1>5 DEF UpdateUser
  <2>2. u \in DOMAIN users /\ unbumped' = unbumped \cup {u} /\ UNCHANGED <<used, sessions, idp, unmetered>>
    BY <1>5 DEF UpdateUser, Has
  <2>3. row \in Row /\ row.ver = users[u].ver
    BY <2>2, UserChangeIsStep
  <2> QED BY <1>4, <2>1, <2>2, <2>3
<1>6. ASSUME NEW h \in Handlers, NEW u \in Users, ResetPassword(h, u) PROVE P
  <2>1. /\ u \in DOMAIN users /\ users' = [users EXCEPT ![u].pass = @ + 1]
        /\ unbumped' = unbumped \cup {u} /\ UNCHANGED <<used, sessions, idp, unmetered>>
    BY <1>6 DEF ResetPassword, Has
  <2>2. PICK row : row = [users[u] EXCEPT !.pass = @ + 1]
    OBVIOUS
  <2>3. row \in Row /\ row.ver = users[u].ver /\ users' = [users EXCEPT ![u] = row]
    BY <1>0, <2>1, <2>2 DEF Row
  <2> QED BY <1>4, <2>1, <2>3
<1>7. ASSUME NEW h \in Handlers, NEW u \in Users, NEW e \in Emails, NEW r \in Roles, CreateUser(h, u, e, r)
      PROVE  P
  BY <1>1, <1>7 DEF CreateUser
<1>8. ASSUME NEW h \in Handlers, InsertUser(h) PROVE P
  <2>1. UNCHANGED <<sessions, idp, unbumped, unmetered>> /\ At(h, "create")
    BY <1>8 DEF InsertUser
  <2>2. CASE UNCHANGED <<users, used>>
    BY <2>1, <2>2, <1>1 DEF accountVars, accountRows
  <2>3. CASE call[h].user \notin used /\ Insert(call[h].user, NewRow(call[h].email, AdminPass, call[h].role))
    <3>1. call[h].user \in Users /\ call[h].email \in Emails /\ call[h].role \in Roles
      BY <2>1, CreateIsTyped
    <3>2. NewRow(call[h].email, AdminPass, call[h].role) \in Row
      BY <3>1, NewRowIsRow DEF AdminPass
    <3>3. /\ \A v : RowStep(v)
          /\ DOMAIN users' = DOMAIN users \cup {call[h].user} /\ used' = used \cup {call[h].user}
      BY <2>1, <2>3, <3>1, <3>2, InsertIsStep
    <3> QED BY <1>0, <2>1, <3>1, <3>3, RowsStep DEF AccountsTypeOK
  <2> QED BY <1>8, <2>2, <2>3 DEF InsertUser
<1>9. ASSUME NEW h \in Handlers, BumpTokenVersion(h) PROVE P
  <2>1. PICK u : /\ users' = IF Has(u) THEN [users EXCEPT ![u].ver = @ + 1] ELSE users
                 /\ unbumped' = unbumped \ {u}
    BY <1>9 DEF BumpTokenVersion
  <2>2. UNCHANGED <<used, sessions, idp, unmetered>>
    BY <1>9 DEF BumpTokenVersion
  <2>3. DOMAIN users' = DOMAIN users
    BY <2>1
  <2>4. RowStep(u)
    <3>1. CASE Has(u)
      BY <2>1, <3>1 DEF RowStep, Has
    <3>2. CASE ~ Has(u)
      BY <2>1, <3>2 DEF RowStep, Has
    <3> QED BY <3>1, <3>2
  <2>5. ASSUME NEW v, v # u PROVE RowStep(v)
    <3>1. v \in DOMAIN users => users'[v] = users[v]
      BY <2>1, <2>5
    <3> QED BY <2>1, <2>3, <2>5, <3>1 DEF RowStep, Has
  <2> QED BY <1>0, <2>1, <2>2, <2>3, <2>4, <2>5, RowsStep DEF AccountsTypeOK
<1>10. CASE StartApi
  <2>1. /\ Root \in DOMAIN users
        /\ users' = [users EXCEPT ![Root].pass = AdminPass, ![Root].email = RootEmail]
        /\ unbumped' = unbumped \cup {Root} /\ UNCHANGED <<used, sessions, idp, unmetered>>
    BY <1>10 DEF StartApi, Has
  <2>2. PICK row : row = [users[Root] EXCEPT !.pass = AdminPass, !.email = RootEmail]
    OBVIOUS
  <2>3. row \in Row /\ row.ver = users[Root].ver
    BY <1>0, <2>1, <2>2, Constants DEF Row, AdminPass
  <2>4. users' = [users EXCEPT ![Root] = row]
    BY <2>1, <2>2
  <2> QED BY <1>4, <2>1, <2>3, <2>4
<1>11. ASSUME NEW s \in Subjects, NEW h \in Handlers, SSOCallback(h, s) PROVE P
  BY <1>1, <1>11 DEF SSOCallback
<1>12. ASSUME NEW s \in Subjects, NEW c \in Claims, IdpChanges(s, c) PROVE P
  <2>1. idp' = [idp EXCEPT ![s] = c] /\ UNCHANGED <<users, used, sessions, unbumped, unmetered>>
    BY <1>12 DEF IdpChanges
  <2>2. idp' \in [Subjects -> Claims]
    BY <2>1 DEF AccountsTypeOK
  <2> QED BY <2>1, <2>2, SameRows DEF AccountStep, SessionStep, AccountsTypeOK
<1>13. ASSUME NEW h \in Handlers, FindLinked(h) \/ MatchEmail(h) PROVE P
  BY <1>1, <1>13 DEF FindLinked, MatchEmail
<1>14. ASSUME NEW h \in Handlers, CreateSSOUser(h) PROVE P
  <2>1. UNCHANGED <<sessions, idp, unbumped>> /\ At(h, "insert")
    BY <1>14 DEF CreateSSOUser
  <2>2. CASE UNCHANGED <<users, used, unmetered>>
    BY <2>1, <2>2, <1>1 DEF accountVars, accountRows
  <2>3. CASE /\ \E u \in Users \ used : Insert(u, NewRow(call[h].claims.email, NoPassword, call[h].claims.role))
             /\ unmetered' = unmetered + 1
    <3>1. call[h].claims \in Claims
      BY <2>1, SignOnIsTyped DEF At
    <3>2. NewRow(call[h].claims.email, NoPassword, call[h].claims.role) \in Row
      BY <3>1, NewRowIsRow DEF Claims, NoPassword
    <3>3. PICK u \in Users \ used : Insert(u, NewRow(call[h].claims.email, NoPassword, call[h].claims.role))
      BY <2>3
    <3>4. /\ \A v : RowStep(v)
          /\ DOMAIN users' = DOMAIN users \cup {u} /\ used' = used \cup {u}
      BY <2>1, <3>2, <3>3, InsertIsStep
    <3> QED BY <1>0, <2>1, <2>3, <3>4, RowsStep DEF AccountsTypeOK
  <2> QED BY <1>14, <2>2, <2>3 DEF CreateSSOUser
<1>15. ASSUME NEW h \in Handlers, LinkSSOIdentity(h) PROVE P
  <2>1. UNCHANGED <<used, sessions, idp, unbumped, unmetered>> /\ At(h, "link")
    BY <1>15 DEF LinkSSOIdentity
  <2>2. CASE UNCHANGED users
    BY <2>1, <2>2, <1>1 DEF accountVars, accountRows
  <2>3. CASE Has(call[h].user) /\ users' = [users EXCEPT ![call[h].user].sso = call[h].subject]
    <3>1. PICK u, x : u = call[h].user /\ x = call[h].subject
      OBVIOUS
    <3>2. x \in Subjects
      BY <2>1, <3>1, SignOnIsTyped DEF At
    <3>3. u \in DOMAIN users /\ users' = [users EXCEPT ![u] = [users[u] EXCEPT !.sso = x]]
      BY <2>3, <3>1 DEF Has
    <3>4. RowStep(u)
      BY <2>1, <3>2, <3>3 DEF RowStep, Has
    <3>5. ASSUME NEW v, v # u PROVE RowStep(v)
      <4>1. v \in DOMAIN users => users'[v] = users[v]
        BY <3>3, <3>5
      <4> QED BY <2>1, <3>3, <4>1 DEF RowStep, Has
    <3>6. DOMAIN users' = DOMAIN users
      BY <3>3
    <3> QED BY <1>0, <2>1, <3>4, <3>5, <3>6, RowsStep DEF AccountsTypeOK
  <2> QED BY <1>15, <2>2, <2>3 DEF LinkSSOIdentity
<1>16. ASSUME NEW h \in Handlers, SyncSSORole(h) PROVE P
  <2>1. UNCHANGED <<used, sessions, idp, unmetered>> /\ At(h, "sync")
    BY <1>16 DEF SyncSSORole
  <2>2. CASE UNCHANGED <<users, unbumped>>
    BY <2>1, <2>2, <1>1 DEF accountVars, accountRows
  <2>3. CASE /\ Has(call[h].user)
             /\ users' = [users EXCEPT ![call[h].user].role = call[h].claims.role]
             /\ unbumped' = unbumped \cup {call[h].user}
    <3>1. PICK u : u = call[h].user
      OBVIOUS
    <3>2. PICK row : row = [users[u] EXCEPT !.role = call[h].claims.role]
      OBVIOUS
    <3>3. call[h].claims \in Claims
      BY <2>1, SignOnIsTyped DEF At
    <3>4. u \in DOMAIN users /\ row \in Row /\ row.ver = users[u].ver
      BY <1>0, <2>3, <3>1, <3>2, <3>3 DEF Has, Row, Claims
    <3>5. users' = [users EXCEPT ![u] = row]
      BY <2>3, <3>1, <3>2
    <3> QED BY <1>4, <2>1, <2>3, <3>1, <3>4, <3>5
  <2> QED BY <1>16, <2>2, <2>3 DEF SyncSSORole
<1>17. ASSUME NEW h \in Handlers, IssueSSOToken(h) PROVE P
  <2>1. UNCHANGED <<users, used, idp, unbumped, unmetered>> /\ At(h, "issue")
    BY <1>17 DEF IssueSSOToken
  <2>2. CASE UNCHANGED sessions
    BY <2>1, <2>2, <1>1 DEF accountVars, accountRows
  <2>3. CASE Has(call[h].user) /\ sessions' = sessions \cup {SessionOf(call[h].user, call[h].role, TRUE)}
    <3>1. SessionStep(SessionOf(call[h].user, call[h].role, TRUE))
      BY <2>1, <2>3, LinkedIsTyped DEF At, SessionStep, Has
    <3>2. \A s \in sessions' : SessionStep(s)
      BY <2>3, <3>1 DEF SessionStep
    <3> QED BY <2>1, <3>2, SameRows DEF AccountStep, AccountsTypeOK
  <2> QED BY <1>17, <2>2, <2>3 DEF IssueSSOToken
<1> HIDE DEF P
<1> QED
  BY <1>2, <1>3, <1>5, <1>6, <1>7, <1>8, <1>9, <1>10, <1>11, <1>12, <1>13, <1>14, <1>15, <1>16, <1>17
  DEF AccountsNext

LEMMA DeletionIsStep ==
  ASSUME AccountsTypeOK, NEW u \in Users, DeleteUser(u)
  PROVE  AccountStep /\ DOMAIN users' = DOMAIN users \ {u}
<1>1. users' = [x \in DOMAIN users \ {u} |-> users[x]] /\ UNCHANGED <<used, sessions, idp, unbumped, unmetered>>
  BY DEF DeleteUser
<1>2. \A v : RowStep(v)
  BY <1>1 DEF RowStep, Has
<1> QED BY <1>1, <1>2, RowsStep DEF AccountsTypeOK

-----------------------------------------------------------------------------
(* Teams, applications and projects.                                       *)

LEMMA ProjectCallIsTyped ==
  ASSUME RequestsOK, NEW h \in Handlers, At(h, "project")
  PROVE  call[h].name \in Names
BY DEF RequestsOK, CallOK, At

ProjectsTyped ==
  /\ DOMAIN projects \subseteq usedProjects /\ usedProjects \subseteq Projects
  /\ \A p \in DOMAIN projects :
       projects[p] \in [name : Names, app : DOMAIN apps \cup {NoApp}]

TeamsTyped ==
  /\ teams \subseteq Teams
  /\ DOMAIN apps \subseteq Apps
  /\ \A a \in DOMAIN apps : apps[a] \in teams \cup {NoTeam}

LEMMA TenancyIsTyped ==
  TenancyTypeOK <=> TeamsTyped /\ ProjectsTyped /\ members \subseteq teams \X (DOMAIN users)
BY DEF TenancyTypeOK, TeamsTyped, ProjectsTyped

LEMMA ProjectInserted ==
  ASSUME ProjectsTyped, NEW p \in Projects, NEW n \in Names, NEW a \in DOMAIN apps \cup {NoApp},
         InsertProject(p, n, a), UNCHANGED apps
  PROVE  ProjectsTyped' /\ DOMAIN projects' = DOMAIN projects \cup {p}
<1>1. /\ DOMAIN projects' = DOMAIN projects \cup {p} /\ usedProjects' = usedProjects \cup {p}
      /\ \A q \in DOMAIN projects' :
           projects'[q] = IF q \in DOMAIN projects THEN projects[q] ELSE [name |-> n, app |-> a]
  BY DEF InsertProject, AddRow
<1> QED BY <1>1 DEF ProjectsTyped

\* The new projects of a bulk creation.
BulkInserted(a, new, id) ==
  /\ projects' = [p \in DOMAIN projects \cup Range(id) |->
                    IF p \in DOMAIN projects THEN projects[p]
                    ELSE [name |-> CHOOSE n \in new : id[n] = p, app |-> a]]
  /\ usedProjects' = usedProjects \cup Range(id)
  /\ unmetered' = unmetered + Cardinality(new)

LEMMA BulkInserts ==
  ASSUME NEW a, NEW found, BulkCreateProjects(a, found)
  PROVE  \E new \in SUBSET found :
           \E id \in Injection(new, Projects \ usedProjects) : BulkInserted(a, new, id)
<1> DEFINE new == {n \in found : ~ NameTaken(n, a)}
<1>1. new \in SUBSET found
  OBVIOUS
<1>2. \E id \in Injection(new, Projects \ usedProjects) : BulkInserted(a, new, id)
  BY DEF BulkCreateProjects, BulkInserted
<1> QED BY <1>1, <1>2

LEMMA TenancyNextTyped ==
  ASSUME RequestsOK, TenancyTypeOK, TenancyNext, UNCHANGED accountRows, unmetered \in Nat
  PROVE  TenancyTypeOK' /\ DOMAIN projects \subseteq DOMAIN projects' /\ unmetered' \in Nat
<1> DEFINE P == TenancyTypeOK' /\ DOMAIN projects \subseteq DOMAIN projects' /\ unmetered' \in Nat
<1> SUFFICES P
  OBVIOUS
<1>1. TeamsTyped /\ ProjectsTyped /\ members \subseteq teams \X (DOMAIN users)
  BY TenancyIsTyped
<1>2. UNCHANGED users
  BY DEF accountRows
<1>3. ASSUME TeamsTyped', members' \subseteq teams' \X (DOMAIN users), UNCHANGED <<projects, usedProjects>>,
             DOMAIN apps' = DOMAIN apps, UNCHANGED unmetered
      PROVE  P
  <2>1. ProjectsTyped'
    BY <1>1, <1>3 DEF ProjectsTyped
  <2> QED BY <1>2, <1>3, <2>1 DEF TenancyTypeOK, TeamsTyped, ProjectsTyped
<1>4. ASSUME ProjectsTyped', DOMAIN projects \subseteq DOMAIN projects', UNCHANGED <<teams, members, apps>>,
             unmetered' \in Nat
      PROVE  P
  BY <1>1, <1>2, <1>4 DEF TenancyTypeOK, TeamsTyped, ProjectsTyped
<1>5. ASSUME NEW t \in Teams, NEW u \in Users, AddTeamMember(t, u) \/ RemoveTeamMember(t, u), UNCHANGED unmetered
      PROVE  P
  <2>1. /\ UNCHANGED <<teams, apps, projects, usedProjects>>
        /\ members' \subseteq teams \X (DOMAIN users)
    BY <1>1, <1>5 DEF AddTeamMember, RemoveTeamMember, Has
  <2> QED BY <1>1, <1>3, <1>5, <2>1 DEF TeamsTyped
<1>6. ASSUME NEW t \in Teams, NEW a \in Apps, UpdateApp(a, t), UNCHANGED unmetered PROVE P
  <2>1. /\ t \in teams /\ apps' = [apps EXCEPT ![a] = t] /\ UNCHANGED <<teams, members, projects, usedProjects>>
    BY <1>6 DEF UpdateApp
  <2>2. DOMAIN apps' = DOMAIN apps /\ TeamsTyped'
    BY <1>1, <2>1 DEF TeamsTyped
  <2> QED BY <1>1, <1>3, <1>6, <2>1, <2>2
<1>7. ASSUME NEW t \in Teams, DeleteTeam(t), UNCHANGED unmetered PROVE P
  <2>1. /\ teams' = teams \ {t} /\ members' = {m \in members : m[1] # t}
        /\ apps' = [a \in DOMAIN apps |-> IF apps[a] = t THEN NoTeam ELSE apps[a]]
        /\ UNCHANGED <<projects, usedProjects>>
    BY <1>7 DEF DeleteTeam
  <2>2. DOMAIN apps' = DOMAIN apps /\ TeamsTyped'
    BY <1>1, <2>1 DEF TeamsTyped
  <2>3. members' \subseteq teams' \X (DOMAIN users)
    BY <1>1, <2>1
  <2> QED BY <1>3, <1>7, <2>1, <2>2, <2>3
<1>8. ASSUME UNCHANGED tenancyVars, UNCHANGED unmetered PROVE P
  BY <1>1, <1>4, <1>8 DEF tenancyVars, ProjectsTyped
<1>9. ASSUME NEW n \in Names, NEW a \in Apps \cup {NoApp}, NEW h \in Handlers, CreateProject(h, n, a), UNCHANGED unmetered
      PROVE  P
  BY <1>8, <1>9 DEF CreateProject
<1>10. ASSUME NEW n \in Names, NEW a \in Apps \cup {NoApp}, NEW p \in Projects, UpdateProject(p, n, a), UNCHANGED unmetered
       PROVE  P
  <2>1. /\ p \in DOMAIN projects /\ a \in DOMAIN apps \cup {projects[p].app}
        /\ projects' = [projects EXCEPT ![p] = [name |-> n, app |-> a]]
        /\ UNCHANGED <<teams, members, apps, usedProjects>>
    BY <1>10 DEF UpdateProject
  <2>2. a \in DOMAIN apps \cup {NoApp}
    BY <1>1, <2>1 DEF ProjectsTyped
  <2>3. DOMAIN projects' = DOMAIN projects /\ ProjectsTyped'
    BY <1>1, <2>1, <2>2 DEF ProjectsTyped
  <2> QED BY <1>4, <1>10, <2>1, <2>3
<1>11. ASSUME NEW h \in Handlers, FinishCreateProject(h), UNCHANGED unmetered PROVE P
  <2>1. UNCHANGED <<teams, members, apps>> /\ At(h, "project")
    BY <1>11 DEF FinishCreateProject
  <2>2. CASE UNCHANGED <<projects, usedProjects>>
    BY <1>1, <1>4, <1>11, <2>1, <2>2 DEF ProjectsTyped
  <2>3. CASE /\ call[h].app \in DOMAIN apps \cup {NoApp}
             /\ \E p \in Projects \ usedProjects : InsertProject(p, call[h].name, call[h].app)
    <3>1. PICK n \in Names : n = call[h].name
      BY <2>1, ProjectCallIsTyped
    <3>2. PICK a \in DOMAIN apps \cup {NoApp} : a = call[h].app
      BY <2>3
    <3>3. PICK p \in Projects : InsertProject(p, n, a)
      BY <2>3, <3>1, <3>2
    <3>4. ProjectsTyped' /\ DOMAIN projects' = DOMAIN projects \cup {p}
      BY <1>1, <2>1, <3>3, ProjectInserted
    <3> QED BY <1>4, <1>11, <2>1, <3>4
  <2> QED BY <1>11, <2>2, <2>3 DEF FinishCreateProject
<1>12. ASSUME NEW a \in Apps, NEW ps \in SUBSET Projects, BulkAssignProjects(a, ps), UNCHANGED unmetered
       PROVE  P
  <2>1. a \in DOMAIN apps /\ UNCHANGED <<teams, members, apps, usedProjects>>
    BY <1>12 DEF BulkAssignProjects
  <2>2. /\ DOMAIN projects' = DOMAIN projects
        /\ \A p \in DOMAIN projects : \/ projects'[p] = projects[p]
                                      \/ projects'[p] = [projects[p] EXCEPT !.app = a]
    BY <1>12 DEF BulkAssignProjects
  <2>3. \A p \in DOMAIN projects : projects'[p] \in [name : Names, app : DOMAIN apps \cup {NoApp}]
    BY <1>1, <2>1, <2>2 DEF ProjectsTyped
  <2>4. ProjectsTyped'
    BY <1>1, <2>1, <2>2, <2>3 DEF ProjectsTyped
  <2> QED BY <1>4, <1>12, <2>1, <2>2, <2>4
<1>13. ASSUME NEW a \in Apps \cup {NoApp}, NEW found \in SUBSET Names, BulkCreateProjects(a, found) PROVE P
  <2>1. a \in DOMAIN apps \cup {NoApp} /\ UNCHANGED <<teams, members, apps>>
    BY <1>13 DEF BulkCreateProjects
  <2> PICK new \in SUBSET found : \E id \in Injection(new, Projects \ usedProjects) : BulkInserted(a, new, id)
    BY <1>13, BulkInserts
  <2> PICK id \in Injection(new, Projects \ usedProjects) : BulkInserted(a, new, id)
    OBVIOUS
  <2>2. /\ projects' = [p \in DOMAIN projects \cup Range(id) |->
                          IF p \in DOMAIN projects THEN projects[p]
                          ELSE [name |-> CHOOSE n \in new : id[n] = p, app |-> a]]
        /\ usedProjects' = usedProjects \cup Range(id)
        /\ unmetered' = unmetered + Cardinality(new)
    BY DEF BulkInserted
  <2>3. unmetered' \in Nat
    <3>1. Cardinality(new) \in Nat
      BY Constants, FS_Subset, FS_CardinalityType
    <3> QED BY <2>2, <3>1
  <2>4. \A p \in Range(id) : p \in Projects /\ (CHOOSE n \in new : id[n] = p) \in Names
    BY DEF Range, Injection
  <2>5. ProjectsTyped' /\ DOMAIN projects \subseteq DOMAIN projects'
    BY <1>1, <2>1, <2>2, <2>4 DEF ProjectsTyped
  <2> QED BY <1>4, <2>1, <2>3, <2>5
<1> HIDE DEF P
<1> QED BY <1>5, <1>6, <1>7, <1>9, <1>10, <1>11, <1>12, <1>13 DEF TenancyNext

LEMMA DeleteAppTyped ==
  ASSUME TenancyTypeOK, NEW a \in Apps, DeleteApp(a), UNCHANGED users
  PROVE  /\ TenancyTypeOK'
         /\ DOMAIN projects' = DOMAIN projects \ {p \in DOMAIN projects : projects[p].app = a}
<1>1. /\ apps' = [x \in DOMAIN apps \ {a} |-> apps[x]]
      /\ projects' = [p \in DOMAIN projects \ {p \in DOMAIN projects : projects[p].app = a} |-> projects[p]]
      /\ UNCHANGED <<teams, members, usedProjects>>
  BY DEF DeleteApp, Without
<1>2. TeamsTyped'
  BY <1>1, TenancyIsTyped DEF TeamsTyped
<1>3. \A p \in DOMAIN projects' : p \in DOMAIN projects /\ projects'[p] = projects[p] /\ projects[p].app # a
  BY <1>1
<1>4. \A p \in DOMAIN projects' : projects'[p] \in [name : Names, app : DOMAIN apps' \cup {NoApp}]
  <2> TAKE p \in DOMAIN projects'
  <2>1. projects[p] \in [name : Names, app : DOMAIN apps \cup {NoApp}]
    BY <1>3 DEF TenancyTypeOK
  <2>2. DOMAIN apps' = DOMAIN apps \ {a}
    BY <1>1
  <2>3. projects[p] \in [name : Names, app : DOMAIN apps' \cup {NoApp}]
    BY <1>3, <2>1, <2>2
  <2> QED BY <1>3, <2>3
<1>5. TenancyTypeOK'
  BY <1>1, <1>2, <1>3, <1>4 DEF TenancyTypeOK, TeamsTyped
<1> QED BY <1>1, <1>5

LEMMA DeleteProjectTyped ==
  ASSUME TenancyTypeOK, NEW p \in Projects, DeleteProject(p), UNCHANGED users
  PROVE  TenancyTypeOK' /\ DOMAIN projects' = DOMAIN projects \ {p}
<1>1. /\ projects' = [q \in DOMAIN projects \ {p} |-> projects[q]]
      /\ UNCHANGED <<teams, members, apps, usedProjects>>
  BY DEF DeleteProject, Without
<1> QED BY <1>1 DEF TenancyTypeOK

LEMMA DeleteUserTyped ==
  ASSUME TenancyTypeOK, NEW u \in Users, DeleteUserAndTies(u)
  PROVE  TenancyTypeOK'
<1>1. /\ DOMAIN users' = DOMAIN users \ {u} /\ members' = {m \in members : m[2] # u}
      /\ UNCHANGED <<teams, apps, projects, usedProjects>>
  BY DEF DeleteUserAndTies, DeleteUser
<1> QED BY <1>1 DEF TenancyTypeOK

LEMMA CreateStandaloneTyped ==
  ASSUME RequestsOK, TenancyTypeOK, NEW h \in Handlers, CreateStandaloneProject(h), UNCHANGED users,
         unmetered \in Nat
  PROVE  TenancyTypeOK' /\ DOMAIN projects \subseteq DOMAIN projects' /\ unmetered' \in Nat
<1>1. UNCHANGED <<teams, members, apps>> /\ At(h, "standalone")
  BY DEF CreateStandaloneProject
<1>2. CASE UNCHANGED <<projects, usedProjects, unmetered>>
  BY <1>1, <1>2 DEF TenancyTypeOK
<1>3. CASE /\ \E p \in Projects : InsertProject(p, call[h].name, NoApp)
           /\ unmetered' = unmetered + 1
  <2>1. PICK n \in Names : n = call[h].name
    BY <1>1 DEF RequestsOK, CallOK, At
  <2>2. PICK p \in Projects : InsertProject(p, n, NoApp)
    BY <1>3, <2>1
  <2>3. ProjectsTyped
    BY TenancyIsTyped
  <2>4. ProjectsTyped' /\ DOMAIN projects' = DOMAIN projects \cup {p}
    BY <1>1, <2>2, <2>3, ProjectInserted
  <2> QED BY <1>1, <1>3, <2>4 DEF TenancyTypeOK, ProjectsTyped
<1> QED BY <1>2, <1>3 DEF CreateStandaloneProject

-----------------------------------------------------------------------------
(* The lists and the guards.                                               *)

\* A viewer's lists show what the guards of the routes let the viewer open,
\* whatever the teams, applications and projects are: the path from the user
\* is the same, and an application has an id that is not "no application".
LEMMA ListsAgree ==
  ASSUME TenancyTypeOK
  PROVE  ListedIsOwned
<1> SUFFICES ASSUME NEW u \in DOMAIN users
             PROVE  /\ ListedProjects(u) = {p \in Projects : CheckProjectOwnership(u, p)}
                    /\ ListedApps(u) = {a \in Apps : CheckAppOwnership(u, a)}
                    /\ \A p \in ListedProjects(u) : projects[p].app \in ListedApps(u)
  BY DEF ListedIsOwned
<1>1. \A m \in members : m = <<m[1], m[2]>> /\ m[1] \in Teams
  BY DEF TenancyTypeOK
<1>2. \A t : t \in Teammates(u) <=> \E m \in members : m[1] = t /\ m[2] = u
  BY <1>1 DEF Teammates
<1>3. DOMAIN apps \subseteq Apps /\ NoApp \notin DOMAIN apps /\ DOMAIN projects \subseteq Projects
  BY Constants DEF TenancyTypeOK
<1>4. ListedProjects(u) = {p \in Projects : CheckProjectOwnership(u, p)}
  <2>1. ASSUME NEW p \in ListedProjects(u) PROVE p \in Projects /\ CheckProjectOwnership(u, p)
    BY <1>2, <1>3, <2>1 DEF ListedProjects, CheckProjectOwnership
  <2>2. ASSUME NEW p \in Projects, CheckProjectOwnership(u, p) PROVE p \in ListedProjects(u)
    <3>1. PICK a \in DOMAIN apps, m \in members :
             p \in DOMAIN projects /\ projects[p].app = a /\ apps[a] = m[1] /\ m[2] = u
      BY <2>2 DEF CheckProjectOwnership
    <3>2. m[1] \in Teammates(u)
      BY <1>2, <3>1
    <3> QED BY <1>3, <3>1, <3>2 DEF ListedProjects
  <2> QED BY <2>1, <2>2
<1>5. ListedApps(u) = {a \in Apps : CheckAppOwnership(u, a)}
  BY <1>2, <1>3 DEF ListedApps, CheckAppOwnership
<1>6. ASSUME NEW p \in ListedProjects(u) PROVE projects[p].app \in ListedApps(u)
  BY <1>6 DEF ListedProjects, ListedApps
<1> QED BY <1>4, <1>5, <1>6

-----------------------------------------------------------------------------
(* Keys.                                                                   *)

TokensInv == TokensTypeOK /\ TokensOK

LEMMA OtherTokens ==
  ASSUME TokensInv, UNCHANGED tokenVars,
         DOMAIN users \subseteq DOMAIN users', DOMAIN projects \subseteq DOMAIN projects'
  PROVE  TokensInv'
BY DEF TokensInv, TokensTypeOK, TokensOK, tokenVars

LEMMA OtherKeyCalls ==
  ASSUME KeyCallsOK, RequestsOK, NEW ops, Stays(ops), ops \cap ({"lookup"} \cup PastLookup) = {},
         retired \subseteq retired'
  PROVE  KeyCallsOK'
<1>1. ASSUME NEW h \in Handlers PROVE KeyCallOK(call[h])'
  <2>1. KeyCallOK(call[h]) /\ (call'[h] = call[h] \/ call'[h].op \in ops)
    BY DEF Stays, KeyCallsOK
  <2>2. CASE call'[h] = call[h]
    BY <2>1, <2>2 DEF KeyCallOK
  <2>3. CASE call'[h].op \in ops
    <3>1. call'[h].op \notin {"lookup"} \cup PastLookup
      BY <2>3
    <3> QED BY <3>1 DEF KeyCallOK
  <2> QED BY <2>1, <2>2, <2>3
<1> QED BY <1>1 DEF KeyCallsOK

\* Rows that keep their secret, and lose at most the owner, while all rows
\* that go have their secret retired.
LEMMA TokensLeft ==
  ASSUME TokensInv, DOMAIN tokens' \subseteq DOMAIN tokens, fresh' = fresh,
         \A k \in DOMAIN tokens' :
           /\ \/ tokens'[k] = tokens[k]
              \/ tokens'[k] = [tokens[k] EXCEPT !.owner = NoOwner]
           /\ tokens'[k].owner \in DOMAIN users' \cup {NoOwner}
           /\ tokens'[k].project \in DOMAIN projects' \cup {AnyProject},
         NEW gone \in SUBSET DOMAIN tokens, gone \cap DOMAIN tokens' = {},
         retired' = retired \cup SecretsOf(gone)
  PROVE  TokensInv'
<1>1. \A k \in DOMAIN tokens : tokens[k] \in Token /\ tokens[k].secret \in 1..fresh - 1
  BY DEF TokensInv, TokensOK
<1>2. \A k \in DOMAIN tokens' : tokens'[k] \in Token /\ tokens'[k].secret = tokens[k].secret
  <2> TAKE k \in DOMAIN tokens'
  <2>1. tokens[k] \in Token
    BY <1>1
  <2>2. CASE tokens'[k] = tokens[k]
    BY <2>1, <2>2
  <2>3. CASE tokens'[k] = [tokens[k] EXCEPT !.owner = NoOwner]
    BY <2>1, <2>3 DEF Token
  <2> QED BY <2>2, <2>3
<1>3. \A k \in DOMAIN tokens' : tokens'[k].secret \notin retired'
  <2> SUFFICES ASSUME NEW k \in DOMAIN tokens', tokens[k].secret \in retired' PROVE FALSE
    BY <1>2
  <2>1. tokens[k].secret \notin retired
    BY DEF TokensInv, TokensOK
  <2>2. PICK j \in gone : tokens[j].secret = tokens[k].secret
    BY <2>1 DEF SecretsOf
  <2>3. j = k
    BY <2>2 DEF TokensInv, TokensOK
  <2> QED BY <2>3
<1>4. retired' \subseteq 1..fresh - 1
  BY <1>1 DEF TokensInv, TokensTypeOK, SecretsOf
<1>5. TokensOK'
  <2>1. \A j, k \in DOMAIN tokens' : tokens'[j].secret = tokens'[k].secret => j = k
    BY <1>2 DEF TokensInv, TokensOK
  <2>2. \A k \in DOMAIN tokens' : tokens'[k].secret \in 1..fresh - 1
    BY <1>1, <1>2
  <2> QED BY <1>2, <1>3, <2>1, <2>2 DEF TokensInv, TokensOK
<1>6. TokensTypeOK'
  <2>1. \A k \in DOMAIN tokens' : tokens'[k].secret \in Secrets /\ tokens'[k].secret < fresh
    BY <1>1, <1>2 DEF Token, TokensInv, TokensOK
  <2> QED BY <1>4, <2>1 DEF TokensInv, TokensTypeOK
<1> QED BY <1>5, <1>6 DEF TokensInv

\* A row with the next secret, new or in the place of one whose secret is retired.
LEMMA TokenIssued ==
  ASSUME TokensInv, AccountsTypeOK, TenancyTypeOK, UNCHANGED <<users, projects>>, NewSecret,
         NEW k \in TokenIds, DOMAIN tokens' = DOMAIN tokens \cup {k},
         \A j \in DOMAIN tokens \ {k} : tokens'[j] = tokens[j],
         tokens'[k] \in Token, tokens'[k].secret = fresh,
         tokens'[k].owner \in DOMAIN users \cup {NoOwner},
         tokens'[k].project \in DOMAIN projects \cup {AnyProject},
         retired' = retired \cup SecretsOf(DOMAIN tokens \cap {k})
  PROVE  TokensInv'
<1>1. \A j \in DOMAIN tokens : tokens[j] \in Token /\ tokens[j].secret \in 1..fresh - 1
  BY DEF TokensInv, TokensOK
<1>2. fresh \in Nat \ {0} /\ fresh' = fresh + 1 /\ fresh \in Secrets
  BY DEF TokensInv, TokensOK, NewSecret
<1>3. retired' \subseteq 1..fresh - 1
  BY <1>1 DEF TokensInv, TokensTypeOK, SecretsOf
<1>4. \A j \in DOMAIN tokens' : tokens'[j] \in Token /\ tokens'[j].secret \in 1..fresh
  BY <1>1, <1>2
<1>5. \A j \in DOMAIN tokens' : tokens'[j].secret \notin retired'
  <2> TAKE j \in DOMAIN tokens'
  <2>1. CASE j = k
    <3>1. fresh \notin 1..fresh - 1
      BY <1>2
    <3> QED BY <1>3, <2>1, <3>1
  <2>2. CASE j # k
    <3>1. tokens'[j].secret = tokens[j].secret /\ tokens[j].secret \notin retired
      BY <2>2 DEF TokensInv, TokensOK
    <3>2. tokens[j].secret \notin SecretsOf(DOMAIN tokens \cap {k})
      BY <2>2 DEF TokensInv, TokensOK, SecretsOf
    <3> QED BY <3>1, <3>2
  <2> QED BY <2>1, <2>2
<1>6. \A i, j \in DOMAIN tokens' : tokens'[i].secret = tokens'[j].secret => i = j
  <2> SUFFICES ASSUME NEW i \in DOMAIN tokens', NEW j \in DOMAIN tokens', tokens'[i].secret = tokens'[j].secret
               PROVE  i = j
    OBVIOUS
  <2>1. CASE i # k /\ j # k
    BY <2>1 DEF TokensInv, TokensOK
  <2>2. CASE i = k
    BY <1>1, <1>2, <2>2
  <2>3. CASE j = k
    BY <1>1, <1>2, <2>3
  <2> QED BY <2>1, <2>2, <2>3
<1>7. TokensOK'
  <2>1. fresh' \in Nat \ {0} /\ fresh' - 1 = fresh
    BY <1>2
  <2> QED BY <1>4, <1>5, <1>6, <2>1 DEF TokensOK
<1>8. TokensTypeOK'
  <2>1. \A j \in DOMAIN tokens' : /\ tokens'[j].owner \in DOMAIN users \cup {NoOwner}
                                  /\ tokens'[j].project \in DOMAIN projects \cup {AnyProject}
    BY DEF TokensInv, TokensTypeOK
  <2>2. DOMAIN tokens' \subseteq TokenIds
    BY DEF TokensInv, TokensTypeOK
  <2>3. \A j \in DOMAIN tokens' : tokens'[j].secret \in Secrets /\ tokens'[j].secret < fresh'
    BY <1>2, <1>4 DEF Token
  <2>4. retired' \subseteq 1..fresh' - 1
    <3>1. fresh' - 1 = fresh /\ fresh \in Nat
      BY <1>2
    <3>2. 1..fresh - 1 \subseteq 1..fresh
      BY <3>1
    <3> QED BY <1>3, <3>1, <3>2
  <2> QED BY <2>1, <2>2, <2>3, <2>4 DEF TokensTypeOK
<1> QED BY <1>7, <1>8 DEF TokensInv

LEMMA TokensNextKeeps ==
  ASSUME TokensInv, KeyCallsOK, RequestsOK, AccountsTypeOK, TenancyTypeOK, TokensNext,
         UNCHANGED <<users, projects>>
  PROVE  TokensInv' /\ KeyCallsOK'
<1> DEFINE P == TokensInv' /\ KeyCallsOK'
<1> SUFFICES P
  OBVIOUS
<1>1. \A k \in DOMAIN tokens : tokens[k] \in Token
  BY DEF TokensInv, TokensOK
<1>2. ASSUME NEW kind, AtOnce(kind), retired \subseteq retired' PROVE KeyCallsOK'
  <2>1. Stays({"idle"})
    BY <1>2, AtOnceStays
  <2> QED BY <1>2, <2>1, OtherKeyCalls DEF PastLookup
<1>3. ASSUME NEW k \in TokenIds, NEW u \in Users, NEW p \in Projects \cup {AnyProject}, CreateToken(k, u, p)
      PROVE  P
  <2>1. /\ AtOnce("key") /\ SignedIn(u) /\ k \notin DOMAIN tokens /\ p \in DOMAIN projects \cup {AnyProject}
        /\ NewSecret /\ UNCHANGED retired
        /\ tokens' = AddRow(tokens, k, [secret |-> fresh, owner |-> u, project |-> p])
    BY <1>3 DEF CreateToken
  <2>2. u \in DOMAIN users
    BY <2>1 DEF SignedIn, Accepted, Has
  <2>3. DOMAIN tokens' = DOMAIN tokens \cup {k} /\ \A j \in DOMAIN tokens \ {k} : tokens'[j] = tokens[j]
    BY <2>1 DEF AddRow
  <2>4. tokens'[k] = [secret |-> fresh, owner |-> u, project |-> p]
    BY <2>1 DEF AddRow
  <2>5. tokens'[k] \in Token
    BY <2>1, <2>4 DEF Token, NewSecret
  <2>6. retired' = retired \cup SecretsOf(DOMAIN tokens \cap {k})
    BY <2>1 DEF SecretsOf
  <2>7. TokensInv'
    BY <2>1, <2>2, <2>3, <2>4, <2>5, <2>6, TokenIssued
  <2> QED BY <1>2, <2>1, <2>7
<1>4. ASSUME NEW k \in TokenIds, RotateToken(k) PROVE P
  <2>1. /\ AtOnce("key") /\ k \in DOMAIN tokens /\ NewSecret
        /\ tokens' = [tokens EXCEPT ![k].secret = fresh] /\ retired' = retired \cup SecretsOf({k})
    BY <1>4 DEF RotateToken
  <2>2. DOMAIN tokens' = DOMAIN tokens \cup {k} /\ \A j \in DOMAIN tokens \ {k} : tokens'[j] = tokens[j]
    BY <2>1
  <2>3. tokens'[k] = [tokens[k] EXCEPT !.secret = fresh] /\ tokens[k] \in Token
    BY <1>1, <2>1
  <2>4. /\ tokens'[k] \in Token /\ tokens'[k].secret = fresh
        /\ tokens'[k].owner = tokens[k].owner /\ tokens'[k].project = tokens[k].project
    BY <2>1, <2>3 DEF Token, NewSecret
  <2>5. /\ tokens[k].owner \in DOMAIN users \cup {NoOwner}
        /\ tokens[k].project \in DOMAIN projects \cup {AnyProject}
    BY <2>1 DEF TokensInv, TokensTypeOK
  <2>6. retired' = retired \cup SecretsOf(DOMAIN tokens \cap {k})
    <3>1. DOMAIN tokens \cap {k} = {k}
      BY <2>1
    <3> QED BY <2>1, <3>1
  <2>7. TokensInv'
    BY <2>1, <2>2, <2>4, <2>5, <2>6, TokenIssued
  <2> QED BY <1>2, <2>1, <2>7
<1>5. ASSUME NEW k \in TokenIds, DeleteToken(k) PROVE P
  <2>1. /\ AtOnce("key") /\ k \in DOMAIN tokens /\ tokens' = Without(tokens, {k})
        /\ retired' = retired \cup SecretsOf({k}) /\ fresh' = fresh
    BY <1>5 DEF DeleteToken
  <2>2. DOMAIN tokens' = DOMAIN tokens \ {k} /\ \A j \in DOMAIN tokens' : tokens'[j] = tokens[j]
    BY <2>1 DEF Without
  <2>3. \A j \in DOMAIN tokens' : /\ tokens'[j].owner \in DOMAIN users' \cup {NoOwner}
                                  /\ tokens'[j].project \in DOMAIN projects' \cup {AnyProject}
    BY <2>2 DEF TokensInv, TokensTypeOK
  <2>4. {k} \in SUBSET DOMAIN tokens /\ {k} \cap DOMAIN tokens' = {}
    BY <2>1, <2>2
  <2>5. TokensInv'
    BY <2>1, <2>2, <2>3, <2>4, TokensLeft
  <2> QED BY <1>2, <2>1, <2>5
<1>6. ASSUME NEW h \in Handlers, UNCHANGED tokenVars, KeyCallOK(call'[h]),
             \A g \in Handlers \ {h} : call'[g] = call[g]
      PROVE  P
  <2>1. \A g \in Handlers : KeyCallOK(call'[g])
    BY <1>6 DEF KeyCallsOK
  <2>2. KeyCallsOK'
    BY <1>6, <2>1 DEF KeyCallsOK, KeyCallOK, tokenVars
  <2> QED BY <1>6, <2>2, OtherTokens
<1>7. KeyCallOK(Idle)
  BY DEF KeyCallOK, Idle, PastLookup
<1>8. ASSUME NEW h \in Handlers, NEW s \in Secrets, KeyRequest(h, s) PROVE P
  <2>1. Begin("request", h, [op |-> "lookup", secret |-> s, dead |-> retired]) /\ UNCHANGED tokenVars
    BY <1>8 DEF KeyRequest
  <2>2. /\ call'[h] = [op |-> "lookup", secret |-> s, dead |-> retired]
        /\ \A g \in Handlers \ {h} : call'[g] = call[g]
    BY <2>1 DEF Begin, RequestsOK
  <2>3. KeyCallOK([op |-> "lookup", secret |-> s, dead |-> retired])
    BY DEF KeyCallOK, PastLookup
  <2> QED BY <1>6, <2>1, <2>2, <2>3
<1>9. ASSUME NEW h \in Handlers, Return(h), UNCHANGED tokenVars PROVE P
  <2>1. call'[h] = Idle /\ \A g \in Handlers \ {h} : call'[g] = call[g]
    BY <1>9, ReturnStays
  <2> QED BY <1>6, <1>7, <1>9, <2>1
<1>10. ASSUME NEW h \in Handlers, GetByPrefix(h) PROVE P
  <2>1. At(h, "lookup") /\ UNCHANGED tokenVars
    BY <1>10 DEF GetByPrefix
  <2>2. ASSUME NEW k \in DOMAIN tokens, tokens[k].secret = call[h].secret,
               Proceed(h, [op |-> IF tokens[k].owner = NoOwner THEN "limit" ELSE "owner",
                           secret |-> call[h].secret, dead |-> call[h].dead,
                           owner |-> tokens[k].owner, project |-> tokens[k].project])
        PROVE  P
    <3>1. call'[h].secret = call[h].secret /\ call'[h].dead = call[h].dead
      BY <2>2 DEF Proceed, RequestsOK
    <3>2. \A g \in Handlers \ {h} : call'[g] = call[g]
      BY <2>2 DEF Proceed, RequestsOK
    <3>3. call[h].dead \subseteq retired
      BY <2>1 DEF KeyCallsOK, KeyCallOK, At
    <3>4. call[h].secret \notin retired
      BY <2>2 DEF TokensInv, TokensOK
    <3>5. KeyCallOK(call'[h])
      BY <3>1, <3>3, <3>4 DEF KeyCallOK
    <3> QED BY <1>6, <2>1, <3>2, <3>5
  <2> QED BY <1>9, <1>10, <2>1, <2>2 DEF GetByPrefix
<1>11. ASSUME NEW h \in Handlers, CheckOwner(h) PROVE P
  <2>1. At(h, "owner") /\ UNCHANGED tokenVars
    BY <1>11 DEF CheckOwner
  <2>2. CASE Proceed(h, [call[h] EXCEPT !.op = "limit"])
    <3>1. call'[h] = [call[h] EXCEPT !.op = "limit"] /\ \A g \in Handlers \ {h} : call'[g] = call[g]
      BY <2>2 DEF Proceed, RequestsOK
    <3>2. call[h].op \in PastLookup /\ "limit" \in PastLookup
      BY <2>1 DEF At, PastLookup
    <3>3. call'[h].op = "limit" /\ call'[h].secret = call[h].secret /\ call'[h].dead = call[h].dead
      BY <3>1, <3>2, KeyCallGoesOn
    <3>4. KeyCallOK(call'[h])
      BY <3>2, <3>3 DEF KeyCallsOK, KeyCallOK
    <3> QED BY <1>6, <2>1, <3>1, <3>4
  <2> QED BY <1>9, <1>11, <2>1, <2>2 DEF CheckOwner
<1> HIDE DEF P
<1> QED BY <1>3, <1>4, <1>5, <1>8, <1>10, <1>11 DEF TokensNext

LEMMA BucketStepKeys ==
  ASSUME TokensInv, KeyCallsOK, RequestsOK, UNCHANGED <<users, projects>>,
         NEW h \in Handlers, NEW s \in Skews, PassBucket(h, s)
  PROVE  TokensInv' /\ KeyCallsOK'
<1>1. At(h, "limit") /\ UNCHANGED tokenVars
  BY DEF PassBucket
<1>2. TokensInv'
  BY <1>1, OtherTokens
<1>3. CASE Return(h)
  <2>1. Stays({"idle"})
    BY <1>3, ReturnStays
  <2> QED BY <1>1, <1>2, <2>1, OtherKeyCalls DEF PastLookup, tokenVars
<1>4. CASE Proceed(h, [call[h] EXCEPT !.op = "request"])
  <2>1. call'[h] = [call[h] EXCEPT !.op = "request"] /\ \A g \in Handlers \ {h} : call'[g] = call[g]
    BY <1>4 DEF Proceed, RequestsOK
  <2>2. call[h].op \in PastLookup /\ "request" \in PastLookup
    BY <1>1 DEF At, PastLookup
  <2>3. call'[h].op = "request" /\ call'[h].secret = call[h].secret /\ call'[h].dead = call[h].dead
    BY <2>1, <2>2, KeyCallGoesOn
  <2>4. \A g \in Handlers : KeyCallOK(call'[g])
    BY <2>1, <2>2, <2>3 DEF KeyCallsOK, KeyCallOK
  <2>5. KeyCallsOK'
    BY <1>1, <2>4 DEF KeyCallsOK, KeyCallOK, tokenVars
  <2> QED BY <1>2, <2>5
<1> QED BY <1>3, <1>4 DEF PassBucket

\* The deletion of a user leaves keys without an owner.
LEMMA DeleteUserKeys ==
  ASSUME TokensInv, NEW u \in Users, DeleteUserAndTies(u)
  PROVE  TokensInv'
<1>1. /\ DOMAIN users' = DOMAIN users \ {u} /\ UNCHANGED <<projects, fresh, retired>>
      /\ tokens' = [k \in DOMAIN tokens |->
                      IF tokens[k].owner = u THEN [tokens[k] EXCEPT !.owner = NoOwner] ELSE tokens[k]]
  BY DEF DeleteUserAndTies, DeleteUser
<1>2. ASSUME NEW k \in DOMAIN tokens'
      PROVE  /\ \/ tokens'[k] = tokens[k]
                \/ tokens'[k] = [tokens[k] EXCEPT !.owner = NoOwner]
             /\ tokens'[k].owner \in DOMAIN users' \cup {NoOwner}
             /\ tokens'[k].project \in DOMAIN projects' \cup {AnyProject}
  <2>1. /\ k \in DOMAIN tokens /\ tokens[k] \in Token /\ tokens[k].owner \in DOMAIN users \cup {NoOwner}
        /\ tokens[k].project \in DOMAIN projects \cup {AnyProject}
    BY <1>1 DEF TokensInv, TokensTypeOK, TokensOK
  <2>2. CASE tokens[k].owner = u
    BY <1>1, <2>1, <2>2 DEF Token
  <2>3. CASE tokens[k].owner # u
    BY <1>1, <2>1, <2>3
  <2> QED BY <2>2, <2>3
<1>3. DOMAIN tokens' \subseteq DOMAIN tokens /\ fresh' = fresh /\ retired' = retired \cup SecretsOf({})
  BY <1>1 DEF SecretsOf
<1>4. {} \in SUBSET DOMAIN tokens /\ {} \cap DOMAIN tokens' = {}
  OBVIOUS
<1> QED BY <1>2, <1>3, <1>4, TokensLeft

\* The deletion of projects revokes the keys that are for one of them.
LEMMA DropKeys ==
  ASSUME TokensInv, NEW gone, DropTokensOf(gone), DOMAIN projects' = DOMAIN projects \ gone
  PROVE  TokensInv' /\ retired \subseteq retired'
<1>1. PICK dropped \in SUBSET DOMAIN tokens :
        /\ dropped = {k \in DOMAIN tokens : tokens[k].project \in gone}
        /\ tokens' = Without(tokens, dropped) /\ retired' = retired \cup SecretsOf(dropped)
  BY DEF DropTokensOf
<1>2. UNCHANGED <<users, fresh>>
  BY DEF DropTokensOf, accountVars, accountRows
<1>3. DOMAIN tokens' = DOMAIN tokens \ dropped /\ \A k \in DOMAIN tokens' : tokens'[k] = tokens[k]
  BY <1>1 DEF Without
<1>4. ASSUME NEW k \in DOMAIN tokens'
      PROVE  /\ tokens'[k].owner \in DOMAIN users' \cup {NoOwner}
             /\ tokens'[k].project \in DOMAIN projects' \cup {AnyProject}
  <2>1. /\ k \in DOMAIN tokens /\ tokens[k].project \notin gone
    BY <1>1, <1>3
  <2>2. /\ tokens[k].owner \in DOMAIN users \cup {NoOwner}
        /\ tokens[k].project \in DOMAIN projects \cup {AnyProject}
    BY <2>1 DEF TokensInv, TokensTypeOK
  <2> QED BY <1>2, <1>3, <2>1, <2>2
<1>5. dropped \cap DOMAIN tokens' = {} /\ DOMAIN tokens' \subseteq DOMAIN tokens
  BY <1>3
<1> QED BY <1>1, <1>2, <1>3, <1>4, <1>5, TokensLeft

-----------------------------------------------------------------------------
(* The limits.                                                             *)

LEMMA CallingIsFinite ==
  ASSUME NEW op
  PROVE  /\ IsFiniteSet(Calling(op)) /\ Cardinality(Calling(op)) \in Nat
         /\ Cardinality(Calling(op)) <= Cardinality(Handlers)
         /\ Cardinality(Handlers) \in Nat \ {0}
<1>1. Calling(op) \subseteq Handlers
  BY DEF Calling
<1>2. Cardinality(Handlers) # 0
  BY Constants, FS_EmptySet
<1> QED BY <1>1, <1>2, Constants, FS_Subset, FS_CardinalityType

LEMMA CallingNext ==
  ASSUME NEW op
  PROVE  /\ IsFiniteSet(Calling(op)') /\ Cardinality(Calling(op)') \in Nat
         /\ Cardinality(Calling(op)') <= Cardinality(Handlers)
<1>1. Calling(op)' \subseteq Handlers
  BY DEF Calling
<1> QED BY <1>1, Constants, FS_Subset, FS_CardinalityType

\* No other call comes to the insert.
LEMMA CallingShrinks ==
  ASSUME NEW op, NEW ops, Stays(ops), op \notin ops
  PROVE  Cardinality(Calling(op)') <= Cardinality(Calling(op))
<1>1. Calling(op)' \subseteq Calling(op)
  BY DEF Calling, Stays, At
<1> QED BY <1>1, CallingIsFinite, FS_Subset

LEMMA CallingLeaves ==
  ASSUME NEW op, NEW h \in Calling(op), call'[h].op # op,
         \A g \in Handlers \ {h} : call'[g] = call[g]
  PROVE  Cardinality(Calling(op)') <= Cardinality(Calling(op)) - 1
<1>1. Calling(op)' \subseteq Calling(op) \ {h}
  BY DEF Calling, At
<1>2. /\ IsFiniteSet(Calling(op) \ {h})
      /\ Cardinality(Calling(op) \ {h}) = Cardinality(Calling(op)) - 1
  BY CallingIsFinite, FS_RemoveElement
<1> QED BY <1>1, <1>2, FS_Subset

\* Within in the next state.
WithinNext(rows, op, limit) ==
  /\ IsFiniteSet(rows)
  /\ Cardinality(rows) + Cardinality(Calling(op)') < limit + unmetered' + Cardinality(Handlers)

LEMMA WithinStep ==
  ASSUME NEW rows, NEW next, NEW op, NEW limit \in Nat, Within(rows, op, limit),
         unmetered \in Nat, unmetered' \in Nat, IsFiniteSet(next),
         Cardinality(next) + Cardinality(Calling(op)') + unmetered
           <= Cardinality(rows) + Cardinality(Calling(op)) + unmetered'
  PROVE  WithinNext(next, op, limit)
<1>1. Cardinality(rows) \in Nat /\ Cardinality(next) \in Nat
  BY FS_CardinalityType DEF Within
<1>2. /\ Cardinality(Calling(op)) \in Nat /\ Cardinality(Calling(op)') \in Nat
      /\ Cardinality(Handlers) \in Nat
  BY CallingIsFinite, CallingNext
<1>3. PICK r, n, c, d, u, v, k \in Nat :
        /\ r = Cardinality(rows) /\ n = Cardinality(next) /\ u = unmetered /\ v = unmetered'
        /\ c = Cardinality(Calling(op)) /\ d = Cardinality(Calling(op)') /\ k = Cardinality(Handlers)
  BY <1>1, <1>2, Zenon
<1>4. r + c < limit + u + k
  BY <1>3, Zenon DEF Within
<1>5. n + d + u <= r + c + v
  BY <1>3, Zenon
<1>6. n + d < limit + v + k
  BY <1>4, <1>5
<1> QED BY <1>3, <1>6, Zenon DEF WithinNext

\* Rows go, or none comes.
LEMMA WithinFewer ==
  ASSUME NEW rows, NEW next \in SUBSET rows, NEW op, NEW limit \in Nat, Within(rows, op, limit),
         NEW ops, Stays(ops), op \notin ops, unmetered \in Nat, unmetered' \in Nat, unmetered <= unmetered'
  PROVE  WithinNext(next, op, limit)
<1>1. IsFiniteSet(next) /\ Cardinality(next) <= Cardinality(rows)
  BY FS_Subset DEF Within
<1>2. Cardinality(Calling(op)') <= Cardinality(Calling(op))
  BY CallingShrinks
<1>3. Cardinality(rows) \in Nat /\ Cardinality(next) \in Nat
  BY <1>1, FS_CardinalityType DEF Within
<1>4. Cardinality(Calling(op)) \in Nat /\ Cardinality(Calling(op)') \in Nat
  BY CallingIsFinite, CallingNext
<1>5. Cardinality(next) + Cardinality(Calling(op)') + unmetered
        <= Cardinality(rows) + Cardinality(Calling(op)) + unmetered'
  <2>1. PICK r, n, c, d, u, v \in Nat :
          /\ r = Cardinality(rows) /\ n = Cardinality(next) /\ u = unmetered /\ v = unmetered'
          /\ c = Cardinality(Calling(op)) /\ d = Cardinality(Calling(op)')
    BY <1>3, <1>4, Zenon
  <2>2. n <= r /\ d <= c /\ u <= v
    BY <1>1, <1>2, <2>1, Zenon
  <2>3. n + d + u <= r + c + v
    BY <2>2
  <2> QED BY <2>1, <2>3, Zenon
<1> QED BY <1>1, <1>5, WithinStep

\* A call inserts a row.
LEMMA WithinInsert ==
  ASSUME NEW rows, NEW x, NEW next \in SUBSET (rows \cup {x}), NEW op, NEW limit \in Nat,
         Within(rows, op, limit),
         NEW h \in Calling(op), call'[h].op # op, \A g \in Handlers \ {h} : call'[g] = call[g],
         unmetered \in Nat, UNCHANGED unmetered
  PROVE  WithinNext(next, op, limit)
<1>1. IsFiniteSet(rows \cup {x}) /\ Cardinality(rows \cup {x}) <= Cardinality(rows) + 1
  <2>1. Cardinality(rows) \in Nat /\ IsFiniteSet(rows)
    BY FS_CardinalityType DEF Within
  <2>2. /\ IsFiniteSet(rows \cup {x})
        /\ Cardinality(rows \cup {x}) = IF x \in rows THEN Cardinality(rows) ELSE Cardinality(rows) + 1
    BY <2>1, FS_AddElement
  <2> QED BY <2>1, <2>2
<1>2. IsFiniteSet(next) /\ Cardinality(next) <= Cardinality(rows \cup {x})
  BY <1>1, FS_Subset
<1>3. Cardinality(Calling(op)') <= Cardinality(Calling(op)) - 1
  BY CallingLeaves
<1>4. Cardinality(rows) \in Nat /\ Cardinality(next) \in Nat /\ Cardinality(rows \cup {x}) \in Nat
  BY <1>1, <1>2, FS_CardinalityType DEF Within
<1>5. Cardinality(Calling(op)) \in Nat /\ Cardinality(Calling(op)') \in Nat
  BY CallingIsFinite, CallingNext
<1>6. Cardinality(next) + Cardinality(Calling(op)') + unmetered
        <= Cardinality(rows) + Cardinality(Calling(op)) + unmetered'
  BY <1>1, <1>2, <1>3, <1>4, <1>5
<1> QED BY <1>2, <1>6, WithinStep

\* A call has seen room below the limit; all others may have seen the same.
LEMMA WithinBegin ==
  ASSUME NEW rows, NEW op, NEW limit \in Nat, Within(rows, op, limit),
         Cardinality(rows) < limit, unmetered' \in Nat
  PROVE  WithinNext(rows, op, limit)
<1>1. Cardinality(rows) \in Nat
  BY FS_CardinalityType DEF Within
<1>2. Cardinality(Calling(op)') \in Nat /\ Cardinality(Calling(op)') <= Cardinality(Handlers)
  BY CallingNext
<1>3. Cardinality(Handlers) \in Nat
  BY CallingIsFinite
<1>4. PICK r, d, v, k \in Nat :
        /\ r = Cardinality(rows) /\ v = unmetered'
        /\ d = Cardinality(Calling(op)') /\ k = Cardinality(Handlers)
  BY <1>1, <1>2, <1>3, Zenon
<1>5. r < limit /\ d <= k
  BY <1>2, <1>4, Zenon
<1>6. r + d < limit + v + k
  BY <1>5
<1>7. IsFiniteSet(rows)
  BY DEF Within
<1> QED BY <1>4, <1>6, <1>7, Zenon DEF WithinNext

\* Rows that are inserted without a look at the limit are counted.
LEMMA WithinUnmetered ==
  ASSUME NEW rows, NEW new, IsFiniteSet(new), NEW op, NEW limit \in Nat, Within(rows, op, limit),
         NEW ops, Stays(ops), op \notin ops, unmetered \in Nat, unmetered' \in Nat,
         unmetered + Cardinality(new) <= unmetered'
  PROVE  WithinNext(rows \cup new, op, limit)
<1>1. /\ IsFiniteSet(rows \cup new)
      /\ Cardinality(rows \cup new) = Cardinality(rows) + Cardinality(new) - Cardinality(rows \cap new)
      /\ Cardinality(rows \cap new) \in Nat
  BY FS_Union, FS_Intersection, FS_CardinalityType DEF Within
<1>2. Cardinality(Calling(op)') <= Cardinality(Calling(op))
  BY CallingShrinks
<1>3. Cardinality(rows) \in Nat /\ Cardinality(new) \in Nat
  BY FS_CardinalityType DEF Within
<1>4. Cardinality(Calling(op)) \in Nat /\ Cardinality(Calling(op)') \in Nat
  BY CallingIsFinite, CallingNext
<1>5. Cardinality(rows \cup new) + Cardinality(Calling(op)') + unmetered
        <= Cardinality(rows) + Cardinality(Calling(op)) + unmetered'
  <2>1. PICK r, n, i, c, d, u, v \in Nat :
          /\ r = Cardinality(rows) /\ n = Cardinality(new) /\ i = Cardinality(rows \cap new)
          /\ u = unmetered /\ v = unmetered'
          /\ c = Cardinality(Calling(op)) /\ d = Cardinality(Calling(op)')
    BY <1>1, <1>3, <1>4, Zenon
  <2>2. d <= c /\ u + n <= v /\ Cardinality(rows \cup new) = r + n - i
    BY <1>1, <1>2, <2>1, Zenon
  <2>3. (r + n - i) + d + u <= r + c + v
    BY <2>2
  <2> QED BY <2>1, <2>2, <2>3, Zenon
<1> QED BY <1>1, <1>5, WithinStep

LEMMA LimitsNext ==
  ASSUME WithinNext(DOMAIN users', "create", UserLimit), WithinNext(DOMAIN projects', "project", MaxProjects)
  PROVE  LimitsOK'
BY DEF LimitsOK, Within, WithinNext, UserLimit

LEMMA LimitsAreNat == UserLimit \in Nat /\ MaxUsers <= UserLimit /\ MaxProjects \in Nat
BY Constants DEF UserLimit

\* A step of a call that no limit is about, which inserts no row.
LEMMA OtherLimits ==
  ASSUME LimitsOK, NEW ops, Stays(ops), "create" \notin ops, "project" \notin ops,
         unmetered \in Nat, UNCHANGED unmetered,
         DOMAIN users' \subseteq DOMAIN users, DOMAIN projects' \subseteq DOMAIN projects
  PROVE  LimitsOK'
<1>1. WithinNext(DOMAIN users', "create", UserLimit)
  BY WithinFewer, LimitsAreNat DEF LimitsOK
<1>2. WithinNext(DOMAIN projects', "project", MaxProjects)
  BY WithinFewer, LimitsAreNat DEF LimitsOK
<1> QED BY <1>1, <1>2, LimitsNext

LEMMA UserRowsAfter ==
  ASSUME AccountsNext
  PROVE  \/ DOMAIN users' = DOMAIN users /\ UNCHANGED unmetered
         \/ \E h \in Handlers : InsertUser(h) \/ CreateSSOUser(h)
<1> DEFINE P == DOMAIN users' = DOMAIN users /\ UNCHANGED unmetered
<1> SUFFICES ASSUME ~ \E h \in Handlers : InsertUser(h) \/ CreateSSOUser(h) PROVE P
  OBVIOUS
<1>1. ASSUME UNCHANGED accountVars PROVE P
  BY <1>1 DEF accountVars, accountRows
<1>2. ASSUME NEW u \in Users, Login(u) PROVE P
  BY <1>2 DEF Login
<1>3. ASSUME NEW s \in sessions, Expire(s) PROVE P
  BY <1>3 DEF Expire
<1>4. ASSUME NEW h \in Handlers, NEW u \in Users, UpdateUser(h, u) \/ ResetPassword(h, u) PROVE P
  BY <1>4 DEF UpdateUser, ResetPassword
<1>5. ASSUME NEW h \in Handlers, NEW u \in Users, NEW e \in Emails, NEW r \in Roles, CreateUser(h, u, e, r)
      PROVE  P
  BY <1>1, <1>5 DEF CreateUser
<1>6. ASSUME NEW h \in Handlers, BumpTokenVersion(h) PROVE P
  <2>1. PICK u : users' = IF Has(u) THEN [users EXCEPT ![u].ver = @ + 1] ELSE users
    BY <1>6 DEF BumpTokenVersion
  <2> QED BY <1>6, <2>1 DEF BumpTokenVersion
<1>7. CASE StartApi
  BY <1>7 DEF StartApi
<1>8. ASSUME NEW s \in Subjects, NEW h \in Handlers, SSOCallback(h, s) PROVE P
  BY <1>1, <1>8 DEF SSOCallback
<1>9. ASSUME NEW s \in Subjects, NEW c \in Claims, IdpChanges(s, c) PROVE P
  BY <1>9 DEF IdpChanges
<1>10. ASSUME NEW h \in Handlers, FindLinked(h) \/ MatchEmail(h) PROVE P
  BY <1>1, <1>10 DEF FindLinked, MatchEmail
<1>11. ASSUME NEW h \in Handlers, LinkSSOIdentity(h) PROVE P
  <2>1. users' = users \/ users' = [users EXCEPT ![call[h].user].sso = call[h].subject]
    BY <1>11 DEF LinkSSOIdentity
  <2> QED BY <1>11, <2>1 DEF LinkSSOIdentity
<1>12. ASSUME NEW h \in Handlers, SyncSSORole(h) PROVE P
  <2>1. users' = users \/ users' = [users EXCEPT ![call[h].user].role = call[h].claims.role]
    BY <1>12 DEF SyncSSORole
  <2> QED BY <1>12, <2>1 DEF SyncSSORole
<1>13. ASSUME NEW h \in Handlers, IssueSSOToken(h) PROVE P
  BY <1>13 DEF IssueSSOToken
<1> HIDE DEF P
<1> QED
  BY <1>2, <1>3, <1>4, <1>5, <1>6, <1>7, <1>8, <1>9, <1>10, <1>11, <1>12, <1>13 DEF AccountsNext

LEMMA AccountsLimits ==
  ASSUME RequestsOK, AccountsTypeOK, LimitsOK, AccountsNext, UNCHANGED projects
  PROVE  LimitsOK'
<1>1. unmetered \in Nat
  BY DEF AccountsTypeOK
<1>2. ASSUME NEW ops, Stays(ops), "project" \notin ops, unmetered' \in Nat, unmetered <= unmetered'
      PROVE  WithinNext(DOMAIN projects', "project", MaxProjects)
  BY <1>1, <1>2, WithinFewer, LimitsAreNat DEF LimitsOK
<1>3. CASE Stays({"create"}) /\ \E h \in Handlers, u \in Users, e \in Emails, r \in Roles : CreateUser(h, u, e, r)
  <2>1. Cardinality(DOMAIN users) < MaxUsers /\ UNCHANGED <<users, unmetered>>
    BY <1>3 DEF CreateUser, accountVars, accountRows
  <2>2. Cardinality(DOMAIN users) < UserLimit
    <3>1. Cardinality(DOMAIN users) \in Nat
      BY FS_CardinalityType DEF LimitsOK, Within
    <3> QED BY <2>1, <3>1, LimitsAreNat, Constants
  <2>3. WithinNext(DOMAIN users, "create", UserLimit)
    BY <1>1, <2>1, <2>2, WithinBegin, LimitsAreNat DEF LimitsOK
  <2>4. DOMAIN users' = DOMAIN users
    BY <2>1
  <2>5. WithinNext(DOMAIN users', "create", UserLimit)
    BY <2>3, <2>4
  <2> QED BY <1>1, <1>2, <1>3, <2>1, <2>5, LimitsNext
<1>4. ASSUME NEW h \in Handlers, InsertUser(h) PROVE LimitsOK'
  <2>1. At(h, "create") /\ Return(h) /\ UNCHANGED unmetered
    BY <1>4 DEF InsertUser
  <2>2. Stays({"idle"}) /\ call'[h].op # "create" /\ \A g \in Handlers \ {h} : call'[g] = call[g]
    BY <2>1, ReturnStays, IdleIsOK
  <2>3. PICK u : DOMAIN users' \subseteq DOMAIN users \cup {u}
    BY <1>4 DEF InsertUser, Insert, AddRow
  <2>4. h \in Calling("create")
    BY <2>1 DEF Calling
  <2>5. WithinNext(DOMAIN users', "create", UserLimit)
    BY <1>1, <2>1, <2>2, <2>3, <2>4, WithinInsert, LimitsAreNat DEF LimitsOK
  <2> QED BY <1>1, <1>2, <2>1, <2>2, <2>5, LimitsNext
<1>5. ASSUME NEW h \in Handlers, CreateSSOUser(h), Stays(AccountOps) PROVE LimitsOK'
  <2>1. "create" \notin AccountOps /\ "project" \notin AccountOps
    BY DEF AccountOps
  <2>2. CASE UNCHANGED <<users, unmetered>>
    BY <1>1, <1>5, <2>1, <2>2, OtherLimits
  <2>3. CASE \E u \in Users : \E row : Insert(u, row) /\ unmetered' = unmetered + 1
    <3>1. PICK u \in Users : \E row : Insert(u, row) /\ unmetered' = unmetered + 1
      BY <2>3
    <3>2. DOMAIN users' = DOMAIN users \cup {u}
      BY <3>1 DEF Insert, AddRow
    <3>3. IsFiniteSet({u}) /\ Cardinality({u}) = 1
      BY FS_Singleton
    <3>4. unmetered' \in Nat /\ unmetered + Cardinality({u}) <= unmetered' /\ unmetered <= unmetered'
      BY <1>1, <3>1, <3>3
    <3>5. WithinNext(DOMAIN users \cup {u}, "create", UserLimit)
      BY <1>1, <1>5, <2>1, <3>3, <3>4, WithinUnmetered, LimitsAreNat DEF LimitsOK
    <3> QED BY <1>2, <1>5, <2>1, <3>2, <3>4, <3>5, LimitsNext
  <2> QED BY <1>5, <2>2, <2>3 DEF CreateSSOUser
<1>6. CASE Stays(AccountOps)
  <2>1. "create" \notin AccountOps /\ "project" \notin AccountOps
    BY DEF AccountOps
  <2>2. CASE DOMAIN users' = DOMAIN users /\ UNCHANGED unmetered
    BY <1>1, <1>6, <2>1, <2>2, OtherLimits
  <2> QED BY <1>4, <1>5, <1>6, <2>2, UserRowsAfter
<1> QED BY <1>3, <1>6, AccountCalls

LEMMA ProjectRowsAfter ==
  ASSUME TenancyNext
  PROVE  \/ DOMAIN projects' = DOMAIN projects /\ UNCHANGED unmetered
         \/ (\E h \in Handlers : FinishCreateProject(h)) /\ UNCHANGED unmetered
         \/ \E a \in Apps \cup {NoApp}, found \in SUBSET Names : BulkCreateProjects(a, found)
<1> DEFINE P == DOMAIN projects' = DOMAIN projects
<1>1. ASSUME NEW t \in Teams, NEW u \in Users, AddTeamMember(t, u) \/ RemoveTeamMember(t, u) PROVE P
  BY <1>1 DEF AddTeamMember, RemoveTeamMember
<1>2. ASSUME NEW t \in Teams, (\E a \in Apps : UpdateApp(a, t)) \/ DeleteTeam(t) PROVE P
  BY <1>2 DEF UpdateApp, DeleteTeam
<1>3. ASSUME NEW n \in Names, NEW a \in Apps \cup {NoApp}, NEW h \in Handlers, CreateProject(h, n, a) PROVE P
  BY <1>3 DEF CreateProject, tenancyVars
<1>4. ASSUME NEW n \in Names, NEW a \in Apps \cup {NoApp}, NEW p \in Projects, UpdateProject(p, n, a) PROVE P
  BY <1>4 DEF UpdateProject
<1>5. ASSUME NEW a \in Apps, NEW ps \in SUBSET Projects, BulkAssignProjects(a, ps) PROVE P
  BY <1>5 DEF BulkAssignProjects
<1> HIDE DEF P
<1>6. ASSUME P, UNCHANGED unmetered PROVE DOMAIN projects' = DOMAIN projects /\ UNCHANGED unmetered
  BY <1>6 DEF P
<1> QED BY <1>1, <1>2, <1>3, <1>4, <1>5, <1>6 DEF TenancyNext

LEMMA TenancyLimits ==
  ASSUME RequestsOK, AccountsTypeOK, TenancyTypeOK, LimitsOK, TenancyNext, UNCHANGED accountRows
  PROVE  LimitsOK'
<1>1. unmetered \in Nat /\ UNCHANGED users
  BY DEF AccountsTypeOK, accountRows
<1>2. ASSUME NEW ops, Stays(ops), "create" \notin ops, unmetered' \in Nat, unmetered <= unmetered'
      PROVE  WithinNext(DOMAIN users', "create", UserLimit)
  BY <1>1, <1>2, WithinFewer, LimitsAreNat DEF LimitsOK
<1>3. CASE /\ Stays({"project"})
           /\ \E n \in Names, a \in Apps \cup {NoApp}, h \in Handlers : CreateProject(h, n, a)
  <2>1. Cardinality(DOMAIN projects) < MaxProjects /\ UNCHANGED projects
    BY <1>3 DEF CreateProject, tenancyVars
  <2>2. unmetered' \in Nat /\ unmetered <= unmetered'
    <3>1. Cardinality({}) = 0
      BY FS_EmptySet
    <3>2. unmetered' \in Nat
      BY <1>1, TenancyNextTyped
    <3>3. CASE UNCHANGED unmetered
      BY <1>1, <3>3
    <3>4. CASE \E a \in Apps \cup {NoApp}, found \in SUBSET Names : BulkCreateProjects(a, found)
      <4>1. PICK a \in Apps \cup {NoApp}, found \in SUBSET Names : BulkCreateProjects(a, found)
        BY <3>4
      <4>2. PICK new \in SUBSET found : unmetered' = unmetered + Cardinality(new)
        BY <4>1, BulkInserts DEF BulkInserted
      <4>3. Cardinality(new) \in Nat
        BY Constants, FS_Subset, FS_CardinalityType
      <4> QED BY <1>1, <4>2, <4>3
    <3> QED BY <3>3, <3>4, ProjectRowsAfter
  <2>3. WithinNext(DOMAIN projects, "project", MaxProjects)
    BY <2>1, <2>2, WithinBegin, LimitsAreNat DEF LimitsOK
  <2>4. DOMAIN projects' = DOMAIN projects
    BY <2>1
  <2>5. WithinNext(DOMAIN projects', "project", MaxProjects)
    BY <2>3, <2>4
  <2> QED BY <1>2, <1>3, <2>2, <2>5, LimitsNext
<1>4. ASSUME NEW h \in Handlers, FinishCreateProject(h), UNCHANGED unmetered PROVE LimitsOK'
  <2>1. At(h, "project") /\ Return(h)
    BY <1>4 DEF FinishCreateProject
  <2>2. Stays({"idle"}) /\ call'[h].op # "project" /\ \A g \in Handlers \ {h} : call'[g] = call[g]
    BY <2>1, ReturnStays, IdleIsOK
  <2>3. PICK p : DOMAIN projects' \subseteq DOMAIN projects \cup {p}
    BY <1>4 DEF FinishCreateProject, InsertProject, AddRow
  <2>4. h \in Calling("project")
    BY <2>1 DEF Calling
  <2>5. WithinNext(DOMAIN projects', "project", MaxProjects)
    BY <1>1, <1>4, <2>2, <2>3, <2>4, WithinInsert, LimitsAreNat DEF LimitsOK
  <2> QED BY <1>1, <1>2, <1>4, <2>2, <2>5, LimitsNext
<1>5. ASSUME NEW a \in Apps \cup {NoApp}, NEW found \in SUBSET Names, BulkCreateProjects(a, found)
      PROVE  LimitsOK'
  <2>1. Stays({"idle"})
    BY <1>5, AtOnceStays DEF BulkCreateProjects
  <2> PICK new \in SUBSET found : \E id \in Injection(new, Projects \ usedProjects) : BulkInserted(a, new, id)
    BY <1>5, BulkInserts
  <2> PICK id \in Injection(new, Projects \ usedProjects) : BulkInserted(a, new, id)
    OBVIOUS
  <2>2. IsFiniteSet(new) /\ Cardinality(new) \in Nat
    BY Constants, FS_Subset, FS_CardinalityType
  <2>3. id \in Surjection(new, Range(id))
    BY DEF Surjection, Range, Injection
  <2>4. IsFiniteSet(Range(id)) /\ Cardinality(Range(id)) <= Cardinality(new)
    BY <2>2, <2>3, FS_Surjection
  <2>5. Cardinality(Range(id)) \in Nat
    BY <2>4, FS_CardinalityType
  <2>6. DOMAIN projects' = DOMAIN projects \cup Range(id) /\ unmetered' = unmetered + Cardinality(new)
    BY DEF BulkInserted
  <2>7. unmetered' \in Nat /\ unmetered + Cardinality(Range(id)) <= unmetered' /\ unmetered <= unmetered'
    <3>1. PICK n, i, u \in Nat : n = Cardinality(new) /\ i = Cardinality(Range(id)) /\ u = unmetered
      BY <1>1, <2>2, <2>5, Zenon
    <3>2. i <= n /\ unmetered' = u + n
      BY <2>4, <2>6, <3>1, Zenon
    <3>3. unmetered' \in Nat /\ u + i <= unmetered' /\ u <= unmetered'
      BY <3>2
    <3> QED BY <3>1, <3>3, Zenon
  <2>8. WithinNext(DOMAIN projects \cup Range(id), "project", MaxProjects)
    BY <1>1, <2>1, <2>4, <2>7, WithinUnmetered, LimitsAreNat DEF LimitsOK
  <2> QED BY <1>2, <2>1, <2>6, <2>7, <2>8, LimitsNext
<1>6. CASE Stays({"idle"})
  <2>1. CASE DOMAIN projects' = DOMAIN projects /\ UNCHANGED unmetered
    BY <1>1, <1>6, <2>1, OtherLimits
  <2> QED BY <1>4, <1>5, <2>1, ProjectRowsAfter
<1> QED BY <1>3, <1>6, TenancyCalls

LEMMA StandaloneLimits ==
  ASSUME RequestsOK, AccountsTypeOK, LimitsOK, NEW h \in Handlers, CreateStandaloneProject(h), UNCHANGED users
  PROVE  LimitsOK'
<1>1. unmetered \in Nat
  BY DEF AccountsTypeOK
<1>2. Stays({"idle"})
  BY ReturnStays DEF CreateStandaloneProject
<1>3. CASE UNCHANGED <<projects, unmetered>>
  BY <1>1, <1>2, <1>3, OtherLimits
<1>4. CASE \E p \in Projects : \E n : InsertProject(p, n, NoApp) /\ unmetered' = unmetered + 1
  <2>1. PICK p \in Projects : \E n : InsertProject(p, n, NoApp) /\ unmetered' = unmetered + 1
    BY <1>4
  <2>2. DOMAIN projects' = DOMAIN projects \cup {p}
    BY <2>1 DEF InsertProject, AddRow
  <2>3. IsFiniteSet({p}) /\ Cardinality({p}) = 1
    BY FS_Singleton
  <2>4. unmetered' \in Nat /\ unmetered + Cardinality({p}) <= unmetered' /\ unmetered <= unmetered'
    BY <1>1, <2>1, <2>3
  <2>5. WithinNext(DOMAIN projects \cup {p}, "project", MaxProjects)
    BY <1>1, <1>2, <2>3, <2>4, WithinUnmetered, LimitsAreNat DEF LimitsOK
  <2>6. WithinNext(DOMAIN users', "create", UserLimit)
    BY <1>1, <1>2, <2>4, WithinFewer, LimitsAreNat DEF LimitsOK
  <2> QED BY <2>2, <2>5, <2>6, LimitsNext
<1> QED BY <1>3, <1>4 DEF CreateStandaloneProject
-----------------------------------------------------------------------------
(* The composition: what a part does not change it keeps.                  *)

LEMMA OtherAccounts ==
  ASSUME AccountsTypeOK, SessionsOK, UNCHANGED accountRows, unmetered' \in Nat
  PROVE  AccountsTypeOK' /\ SessionsOK'
BY DEF AccountsTypeOK, SessionsOK, SessionOK, Has, accountRows

LEMMA OtherTenancy ==
  ASSUME TenancyTypeOK, UNCHANGED tenancyVars, DOMAIN users \subseteq DOMAIN users'
  PROVE  TenancyTypeOK'
BY DEF TenancyTypeOK, tenancyVars

LEMMA OtherBuckets == ASSUME BucketInv, UNCHANGED bucketVars PROVE BucketInv'
BY DEF BucketInv, BucketTypeOK, bucketVars

LEMMA StaysOK == ASSUME NEW ops, Stays(ops) PROVE RequestsOK'
BY DEF Stays

\* Without a step of the accounts, tenancy, keys or buckets.
LEMMA CallsOnly ==
  ASSUME IInv, NEW ops, Stays(ops), ops \cap ({"lookup"} \cup PastLookup) = {},
         "create" \notin ops, "project" \notin ops,
         UNCHANGED <<accountVars, tenancyVars, tokenVars>>, BucketInv'
  PROVE  IInv'
<1>1. RequestsOK /\ AccountsTypeOK /\ TenancyTypeOK /\ TokensInv /\ SessionsOK /\ LimitsOK /\ KeyCallsOK
  BY DEF IInv, TokensInv
<1>2. /\ UNCHANGED <<users, projects, retired, unmetered>> /\ UNCHANGED accountRows
      /\ UNCHANGED tenancyVars /\ UNCHANGED tokenVars
  BY DEF accountVars, accountRows, tenancyVars, tokenVars
<1>3. unmetered \in Nat
  BY <1>1 DEF AccountsTypeOK
<1>4. RequestsOK'
  BY StaysOK
<1>5. AccountsTypeOK' /\ SessionsOK'
  BY <1>1, <1>2, <1>3, OtherAccounts
<1>6. TenancyTypeOK'
  BY <1>1, <1>2, OtherTenancy
<1>7. TokensInv'
  BY <1>1, <1>2, OtherTokens
<1>8. LimitsOK'
  BY <1>1, <1>2, <1>3, OtherLimits
<1>9. KeyCallsOK'
  BY <1>1, <1>2, OtherKeyCalls
<1> QED BY <1>4, <1>5, <1>6, <1>7, <1>8, <1>9 DEF IInv, TokensInv

LEMMA AccountsKeep ==
  ASSUME IInv, AccountsNext, UNCHANGED <<tenancyVars, tokenVars, bucketVars>>
  PROVE  IInv'
<1>1. /\ RequestsOK /\ AccountsTypeOK /\ TenancyTypeOK /\ TokensInv /\ BucketInv /\ SessionsOK
      /\ LimitsOK /\ KeyCallsOK
  BY DEF IInv, TokensInv
<1>2. UNCHANGED tenancyVars /\ UNCHANGED tokenVars /\ UNCHANGED bucketVars /\ UNCHANGED <<projects, retired>>
  BY DEF tenancyVars, tokenVars
<1>3. AccountStep /\ DOMAIN users \subseteq DOMAIN users'
  BY <1>1, AccountsNextIsStep
<1>4. AccountsTypeOK' /\ SessionsOK'
  BY <1>1, <1>3, AccountStepKeeps
<1>5. PICK ops : Stays(ops) /\ ops \cap ({"lookup"} \cup PastLookup) = {}
  <2>1. Stays(AccountOps) \/ Stays({"create"})
    BY <1>1, AccountCalls
  <2>2. /\ AccountOps \cap ({"lookup"} \cup PastLookup) = {}
        /\ {"create"} \cap ({"lookup"} \cup PastLookup) = {}
    BY DEF AccountOps, PastLookup
  <2> QED BY <2>1, <2>2
<1>6. RequestsOK'
  BY <1>5, StaysOK
<1>7. TenancyTypeOK' /\ TokensInv'
  BY <1>1, <1>2, <1>3, OtherTenancy, OtherTokens
<1>8. KeyCallsOK'
  BY <1>1, <1>2, <1>5, OtherKeyCalls
<1>9. LimitsOK'
  BY <1>1, <1>2, AccountsLimits
<1>10. BucketInv'
  BY <1>1, <1>2, OtherBuckets
<1> QED BY <1>4, <1>6, <1>7, <1>8, <1>9, <1>10 DEF IInv, TokensInv

LEMMA TenancyKeeps ==
  ASSUME IInv, TenancyNext, UNCHANGED <<accountRows, tokenVars, bucketVars>>
  PROVE  IInv'
<1>1. /\ RequestsOK /\ AccountsTypeOK /\ TenancyTypeOK /\ TokensInv /\ BucketInv /\ SessionsOK
      /\ LimitsOK /\ KeyCallsOK
  BY DEF IInv, TokensInv
<1>2. /\ UNCHANGED accountRows /\ UNCHANGED tokenVars /\ UNCHANGED bucketVars
      /\ UNCHANGED <<users, retired>> /\ unmetered \in Nat
  BY <1>1 DEF accountRows, tokenVars, AccountsTypeOK
<1>3. TenancyTypeOK' /\ DOMAIN projects \subseteq DOMAIN projects' /\ unmetered' \in Nat
  BY <1>1, <1>2, TenancyNextTyped
<1>4. AccountsTypeOK' /\ SessionsOK'
  BY <1>1, <1>2, <1>3, OtherAccounts
<1>5. PICK ops : Stays(ops) /\ ops \cap ({"lookup"} \cup PastLookup) = {}
  <2>1. Stays({"idle"}) \/ Stays({"project"})
    BY <1>1, TenancyCalls
  <2>2. /\ {"idle"} \cap ({"lookup"} \cup PastLookup) = {}
        /\ {"project"} \cap ({"lookup"} \cup PastLookup) = {}
    BY DEF PastLookup
  <2> QED BY <2>1, <2>2
<1>6. RequestsOK'
  BY <1>5, StaysOK
<1>7. TokensInv' /\ KeyCallsOK'
  BY <1>1, <1>2, <1>3, <1>5, OtherTokens, OtherKeyCalls
<1>8. LimitsOK'
  BY <1>1, <1>2, TenancyLimits
<1>9. BucketInv'
  BY <1>1, <1>2, OtherBuckets
<1> QED BY <1>3, <1>4, <1>6, <1>7, <1>8, <1>9 DEF IInv, TokensInv

LEMMA KeysKeep ==
  ASSUME IInv, UNCHANGED <<accountVars, tenancyVars>>,
         \/ TokensNext /\ UNCHANGED bucketVars
         \/ \E h \in Handlers, s \in Skews : PassBucket(h, s)
  PROVE  IInv'
<1>1. /\ RequestsOK /\ AccountsTypeOK /\ TenancyTypeOK /\ TokensInv /\ BucketInv /\ SessionsOK
      /\ LimitsOK /\ KeyCallsOK /\ TokensTypeOK /\ TokensOK
  BY DEF IInv, TokensInv
<1>2. /\ UNCHANGED <<users, projects, unmetered>> /\ UNCHANGED accountRows /\ UNCHANGED tenancyVars
      /\ unmetered \in Nat
  BY <1>1 DEF accountVars, accountRows, tenancyVars, AccountsTypeOK
<1>3. AccountsTypeOK' /\ SessionsOK' /\ TenancyTypeOK'
  BY <1>1, <1>2, OtherAccounts, OtherTenancy
<1>4. Stays(KeyOps)
  BY <1>1, TokenCalls, BucketCalls
<1>5. RequestsOK'
  BY <1>4, StaysOK
<1>6. "create" \notin KeyOps /\ "project" \notin KeyOps
  BY DEF KeyOps, PastLookup
<1>7. LimitsOK'
  BY <1>1, <1>2, <1>4, <1>6, OtherLimits
<1>8. TokensInv' /\ KeyCallsOK' /\ BucketInv'
  <2>1. CASE TokensNext /\ UNCHANGED bucketVars
    BY <1>1, <1>2, <2>1, TokensNextKeeps, OtherBuckets
  <2>2. CASE \E h \in Handlers, s \in Skews : PassBucket(h, s)
    <3>1. PICK h \in Handlers, s \in Skews : PassBucket(h, s)
      BY <2>2
    <3>2. TokensInv' /\ KeyCallsOK'
      BY <1>1, <1>2, <3>1, BucketStepKeys
    <3>3. CASE Allow(call[h].secret, s)
      <4>1. call[h].secret \in Keys
        BY <1>1, <3>1 DEF PassBucket, At, RequestsOK, CallOK, PastLookup, Secrets
      <4> QED BY <1>1, <3>2, <3>3, <4>1, AllowKeeps
    <3>4. CASE UNCHANGED bucketVars
      BY <1>1, <3>2, <3>4, OtherBuckets
    <3> QED BY <3>1, <3>3, <3>4 DEF PassBucket, Deny
  <2> QED BY <2>1, <2>2
<1> QED BY <1>3, <1>5, <1>7, <1>8 DEF IInv, TokensInv

LEMMA ScansKeep ==
  ASSUME IInv, UNCHANGED <<accountRows, bucketVars>>, NEW h \in Handlers,
         \/ \E p \in Projects : ScanById(h, p)
         \/ \E n \in Names : ScanByName(h, n)
         \/ CreateStandaloneProject(h)
         \/ \E m \in Messages : McpNext(h, m)
  PROVE  IInv'
<1>1. /\ RequestsOK /\ AccountsTypeOK /\ TenancyTypeOK /\ TokensInv /\ BucketInv /\ SessionsOK
      /\ LimitsOK /\ KeyCallsOK
  BY DEF IInv, TokensInv
<1>2. /\ UNCHANGED accountRows /\ UNCHANGED bucketVars /\ UNCHANGED users /\ unmetered \in Nat
  BY <1>1 DEF accountRows, AccountsTypeOK
<1>3. UNCHANGED tokenVars /\ UNCHANGED retired
  BY DEF tokenVars, ScanById, ScanByName, CreateStandaloneProject, McpNext
<1>4. Stays({"idle", "standalone"})
  BY <1>1, ScanCalls
<1>5. {"idle", "standalone"} \cap ({"lookup"} \cup PastLookup) = {}
  BY DEF PastLookup
<1>6. CASE CreateStandaloneProject(h)
  <2>1. TenancyTypeOK' /\ DOMAIN projects \subseteq DOMAIN projects' /\ unmetered' \in Nat
    BY <1>1, <1>2, <1>6, CreateStandaloneTyped
  <2>2. AccountsTypeOK' /\ SessionsOK' /\ TokensInv' /\ KeyCallsOK' /\ RequestsOK' /\ BucketInv'
    BY <1>1, <1>2, <1>3, <1>4, <1>5, <2>1, OtherAccounts, OtherTokens, OtherKeyCalls, StaysOK, OtherBuckets
  <2>3. LimitsOK'
    BY <1>1, <1>2, <1>6, StandaloneLimits
  <2> QED BY <2>1, <2>2, <2>3 DEF IInv, TokensInv
<1>7. CASE ~ CreateStandaloneProject(h)
  <2>1. UNCHANGED <<accountVars, tenancyVars, tokenVars>>
    BY <1>2, <1>3, <1>7 DEF accountVars, ScanById, ScanByName, McpNext
  <2>2. BucketInv'
    BY <1>1, <1>2, OtherBuckets
  <2> QED BY <1>4, <1>5, <2>1, <2>2, CallsOnly
<1> QED BY <1>6, <1>7

LEMMA DeletionsKeep ==
  ASSUME IInv,
         \/ \E u \in Users : DeleteUserAndTies(u)
         \/ \E p \in Projects : DeleteProjectAndTies(p)
         \/ \E a \in Apps : DeleteAppAndTies(a)
  PROVE  IInv'
<1>1. /\ RequestsOK /\ AccountsTypeOK /\ TenancyTypeOK /\ TokensInv /\ BucketInv /\ SessionsOK
      /\ LimitsOK /\ KeyCallsOK
  BY DEF IInv, TokensInv
<1>2. unmetered \in Nat
  BY <1>1 DEF AccountsTypeOK
<1>3. ASSUME NEW kind, AtOnce(kind), retired \subseteq retired', UNCHANGED unmetered,
             DOMAIN users' \subseteq DOMAIN users, DOMAIN projects' \subseteq DOMAIN projects
      PROVE  RequestsOK' /\ KeyCallsOK' /\ LimitsOK'
  <2>1. Stays({"idle"})
    BY <1>1, <1>3, AtOnceStays
  <2>2. {"idle"} \cap ({"lookup"} \cup PastLookup) = {}
    BY DEF PastLookup
  <2>3. RequestsOK'
    BY <2>1, StaysOK
  <2>4. KeyCallsOK'
    BY <1>1, <1>3, <2>1, <2>2, OtherKeyCalls
  <2>5. LimitsOK'
    BY <1>1, <1>2, <1>3, <2>1, OtherLimits
  <2> QED BY <2>3, <2>4, <2>5
<1>4. ASSUME NEW u \in Users, DeleteUserAndTies(u) PROVE IInv'
  <2>1. DeleteUser(u) /\ UNCHANGED bucketVars /\ UNCHANGED <<projects, retired, unmetered>> /\ AtOnce("admin")
    BY <1>4 DEF DeleteUserAndTies, DeleteUser
  <2>2. AccountStep /\ DOMAIN users' \subseteq DOMAIN users
    BY <1>1, <2>1, DeletionIsStep
  <2>3. AccountsTypeOK' /\ SessionsOK'
    BY <1>1, <2>2, AccountStepKeeps
  <2>4. TenancyTypeOK' /\ TokensInv' /\ BucketInv'
    BY <1>1, <1>4, <2>1, DeleteUserTyped, DeleteUserKeys, OtherBuckets
  <2>5. RequestsOK' /\ KeyCallsOK' /\ LimitsOK'
    BY <1>3, <2>1, <2>2
  <2> QED BY <2>3, <2>4, <2>5 DEF IInv, TokensInv
<1>5. ASSUME NEW gone \in SUBSET DOMAIN projects, DropTokensOf(gone), NEW kind, AtOnce(kind),
             DOMAIN projects' = DOMAIN projects \ gone, TenancyTypeOK'
      PROVE  IInv'
  <2>1. UNCHANGED accountRows /\ UNCHANGED <<users, unmetered>> /\ UNCHANGED bucketVars
    BY <1>5 DEF DropTokensOf, accountVars, accountRows
  <2>2. AccountsTypeOK' /\ SessionsOK' /\ BucketInv'
    BY <1>1, <1>2, <2>1, OtherAccounts, OtherBuckets
  <2>3. TokensInv' /\ retired \subseteq retired'
    BY <1>1, <1>5, DropKeys
  <2>4. RequestsOK' /\ KeyCallsOK' /\ LimitsOK'
    BY <1>3, <1>5, <2>1, <2>3
  <2> QED BY <1>5, <2>2, <2>3, <2>4 DEF IInv, TokensInv
<1>6. ASSUME NEW p \in Projects, DeleteProjectAndTies(p) PROVE IInv'
  <2>1. DeleteProject(p) /\ DropTokensOf({p}) /\ AtOnce("project") /\ {p} \in SUBSET DOMAIN projects
    BY <1>6 DEF DeleteProjectAndTies, DeleteProject
  <2>2. UNCHANGED users
    BY <2>1 DEF DropTokensOf, accountVars, accountRows
  <2>3. TenancyTypeOK' /\ DOMAIN projects' = DOMAIN projects \ {p}
    BY <1>1, <2>1, <2>2, DeleteProjectTyped
  <2> QED BY <1>5, <2>1, <2>3
<1>7. ASSUME NEW a \in Apps, DeleteAppAndTies(a) PROVE IInv'
  <2> DEFINE gone == {p \in DOMAIN projects : projects[p].app = a}
  <2>1. DeleteApp(a) /\ DropTokensOf(gone) /\ AtOnce("team") /\ gone \in SUBSET DOMAIN projects
    BY <1>7 DEF DeleteAppAndTies, DeleteApp
  <2>2. UNCHANGED users
    BY <2>1 DEF DropTokensOf, accountVars, accountRows
  <2>3. TenancyTypeOK' /\ DOMAIN projects' = DOMAIN projects \ gone
    BY <1>1, <2>1, <2>2, DeleteAppTyped
  <2> HIDE DEF gone
  <2> QED BY <1>5, <2>1, <2>3
<1> QED BY <1>4, <1>6, <1>7

LEMMA InitIInv == Init => IInv
<1> SUFFICES ASSUME Init PROVE IInv
  OBVIOUS
<1>1. /\ call = [h \in Handlers |-> Idle] /\ left \in [Kinds -> Nat]
      /\ DOMAIN users = {Root} /\ used = {Root} /\ users[Root] = NewRow(RootEmail, AdminPass, "admin")
      /\ sessions = {SessionOf(Root, "admin", FALSE)} /\ unbumped = {} /\ unmetered = 0
      /\ idp \in [Subjects -> {[email |-> e, role |-> "viewer"] : e \in Emails}]
  BY Constants DEF Init, RequestsInit, AccountsInit
<1>2. RequestsOK
  BY <1>1, IdleIsOK DEF RequestsOK
<1>3. NewRow(RootEmail, AdminPass, "admin") \in Row /\ Root \in Users
  BY Constants, NewRowIsRow DEF AdminPass, Roles
<1>4. AccountsTypeOK
  <2>1. SessionOf(Root, "admin", FALSE) \in Session
    BY <1>1, <1>3 DEF SessionOf, Session, Row, Roles
  <2>2. idp \in [Subjects -> Claims]
    <3>1. \A e \in Emails : [email |-> e, role |-> "viewer"] \in Claims
      BY DEF Claims, Roles
    <3>2. {[email |-> e, role |-> "viewer"] : e \in Emails} \subseteq Claims
      BY <3>1
    <3> QED BY <1>1, <3>2
  <2> QED BY <1>1, <1>3, <2>1, <2>2 DEF AccountsTypeOK
<1>5. SessionsOK
  BY <1>1 DEF SessionsOK, SessionOK, SessionOf, Has, NewRow, AdminPass
<1>6. TenancyTypeOK /\ DOMAIN projects = {}
  BY DEF Init, TenancyInit, TenancyTypeOK
<1>7. TokensTypeOK /\ TokensOK
  <2>1. DOMAIN tokens = {} /\ fresh = 1 /\ retired = {}
    BY DEF Init, TokensInit
  <2> QED BY <2>1 DEF TokensTypeOK, TokensOK
<1>8. BucketInv
  BY InitKeeps DEF Init
<1>9. LimitsOK
  <2>1. Calling("create") = {} /\ Calling("project") = {}
    BY <1>1, IdleIsOK DEF Calling, At
  <2>2. Cardinality({}) = 0 /\ Cardinality({Root}) = 1 /\ IsFiniteSet({}) /\ IsFiniteSet({Root})
    BY FS_EmptySet, FS_Singleton
  <2>3. PICK k \in Nat \ {0} : k = Cardinality(Handlers)
    BY CallingIsFinite
  <2>4. UserLimit \in Nat \ {0} /\ MaxProjects \in Nat
    BY Constants DEF UserLimit
  <2>5. 1 + 0 < UserLimit + 0 + k /\ 0 + 0 < MaxProjects + 0 + k
    BY <2>3, <2>4
  <2> QED BY <1>1, <1>6, <2>1, <2>2, <2>3, <2>5 DEF LimitsOK, Within
<1>10. KeyCallsOK
  <2>1. KeyCallOK(Idle)
    BY IdleIsOK DEF KeyCallOK, PastLookup
  <2> QED BY <1>1, <2>1 DEF KeyCallsOK
<1> QED BY <1>2, <1>4, <1>5, <1>6, <1>7, <1>8, <1>9, <1>10 DEF IInv

LEMMA NextIInv == IInv /\ [Next]_vars => IInv'
<1> SUFFICES ASSUME IInv, [Next]_vars PROVE IInv'
  OBVIOUS
<1>1. RequestsOK /\ BucketInv
  BY DEF IInv
<1>2. {"idle"} \cap ({"lookup"} \cup PastLookup) = {} /\ "create" \notin {"idle"} /\ "project" \notin {"idle"}
  BY DEF PastLookup
<1>3. CASE Serving
  <2>1. CASE AccountsNext /\ UNCHANGED <<tenancyVars, tokenVars, bucketVars>>
    BY <2>1, AccountsKeep
  <2>2. CASE TenancyNext /\ UNCHANGED <<accountRows, tokenVars, bucketVars>>
    BY <2>2, TenancyKeeps
  <2>3. CASE TokensNext /\ UNCHANGED <<accountVars, tenancyVars, bucketVars>>
    BY <2>3, KeysKeep
  <2>4. CASE \E h \in Handlers, s \in Skews : PassBucket(h, s) /\ UNCHANGED <<accountVars, tenancyVars>>
    BY <2>4, KeysKeep
  <2>5. CASE \E h \in Handlers :
               /\ \/ \E p \in Projects : ScanById(h, p)
                  \/ \E n \in Names : ScanByName(h, n)
                  \/ CreateStandaloneProject(h)
                  \/ \E m \in Messages : McpNext(h, m)
               /\ UNCHANGED <<accountRows, bucketVars>>
    BY <2>5, ScansKeep
  <2>6. CASE \/ \E u \in Users : DeleteUserAndTies(u)
             \/ \E p \in Projects : DeleteProjectAndTies(p)
             \/ \E a \in Apps : DeleteAppAndTies(a)
    BY <2>6, DeletionsKeep
  <2>7. CASE Tick /\ AtOnce("clock") /\ UNCHANGED <<accountVars, tenancyVars, tokenVars>>
    <3>1. Stays({"idle"}) /\ BucketInv'
      BY <1>1, <2>7, AtOnceStays, TickKeeps
    <3> QED BY <1>2, <2>7, <3>1, CallsOnly
  <2> QED BY <1>3, <2>1, <2>2, <2>3, <2>4, <2>5, <2>6, <2>7 DEF Serving
<1>4. CASE MigrationsNext /\ UNCHANGED <<accountVars, tenancyVars, tokenVars, bucketVars>>
  <2>1. Stays(StartOps) /\ BucketInv'
    BY <1>1, <1>4, StartCalls, OtherBuckets
  <2>2. /\ StartOps \cap ({"lookup"} \cup PastLookup) = {}
        /\ "create" \notin StartOps /\ "project" \notin StartOps
    BY DEF StartOps, PastLookup
  <2> QED BY <1>4, <2>1, <2>2, CallsOnly
<1>5. CASE \E h \in Handlers : CutOff(h) /\ UNCHANGED <<accountVars, tenancyVars, tokenVars, bucketVars>>
  <2>1. Stays({"idle"}) /\ BucketInv'
    BY <1>1, <1>5, CutOffCalls, OtherBuckets
  <2> QED BY <1>2, <1>5, <2>1, CallsOnly
<1>6. CASE UNCHANGED vars
  <2>1. UNCHANGED call /\ left' \in [Kinds -> Nat] /\ UNCHANGED bucketVars
    BY <1>1, <1>6 DEF vars, requestVars, RequestsOK
  <2>2. Stays({"idle"}) /\ BucketInv'
    BY <1>1, <2>1, SameStays, OtherBuckets
  <2> QED BY <1>2, <1>6, <2>2, CallsOnly DEF vars
<1> QED BY <1>3, <1>4, <1>5, <1>6 DEF Next

THEOREM IInvHolds == Spec => []IInv
BY InitIInv, NextIInv, PTL DEF Spec

-----------------------------------------------------------------------------
(* The theorems.                                                           *)

\* Every row refers to rows that are there, whatever is deleted between the
\* statements of the calls (the foreign keys of the schema).
THEOREM TypeCorrect == Spec => []TypeOK
<1>1. IInv => TypeOK
  BY DEF IInv, TypeOK, RequestsOK, BucketInv
<1> QED BY <1>1, IInvHolds, PTL

\* A password session that is accepted is of the password, the role and the
\* activity its user has now, the exceptions of SessionIsCurrent apart
\* (RequireValidTokenVersion against UpdateUser, ResetPassword and deletions).
THEOREM SessionIsCurrentHolds == Spec => []SessionIsCurrent
<1>1. IInv => SessionIsCurrent
  <2> SUFFICES ASSUME IInv, NEW s \in sessions, Accepted(s), ~ s.sso, s.user \notin unbumped
               PROVE  /\ s.pass = users[s.user].pass /\ s.role = users[s.user].role
                      /\ users[s.user].active
    BY DEF SessionIsCurrent
  <2>1. SessionOK(s) /\ Has(s.user) /\ s.ver >= users[s.user].ver
    BY DEF IInv, SessionsOK, Accepted
  <2>2. s.ver \in Nat /\ users[s.user].ver \in Nat
    BY <2>1 DEF IInv, AccountsTypeOK, Session, Row, Has
  <2>3. s.ver = users[s.user].ver
    BY <2>1, <2>2 DEF SessionOK
  <2> QED BY <2>1, <2>3 DEF SessionOK
<1> QED BY <1>1, IInvHolds, PTL

\* Whatever the number of goroutines, rows and calls about to insert pass the
\* limits on users and projects by at most one less, and by what is inserted
\* without a look at them (checkUserLimit, checkProjectLimit).
THEOREM LimitsHoldAlways == Spec => []LimitsHold
<1>1. IInv => LimitsHold
  <2> SUFFICES ASSUME IInv PROVE LimitsHold
    OBVIOUS
  <2>1. /\ IsFiniteSet(DOMAIN users) /\ IsFiniteSet(DOMAIN projects) /\ unmetered \in Nat
        /\ Cardinality(DOMAIN users) + Cardinality(Calling("create"))
             < UserLimit + unmetered + Cardinality(Handlers)
        /\ Cardinality(DOMAIN projects) + Cardinality(Calling("project"))
             < MaxProjects + unmetered + Cardinality(Handlers)
    BY DEF IInv, LimitsOK, Within, AccountsTypeOK
  <2>2. PICK u, p, c, d, k, n, l, m \in Nat :
          /\ u = Cardinality(DOMAIN users) /\ p = Cardinality(DOMAIN projects)
          /\ c = Cardinality(Calling("create")) /\ d = Cardinality(Calling("project"))
          /\ k = Cardinality(Handlers) /\ n = unmetered /\ l = UserLimit /\ m = MaxProjects
    <3>1. Cardinality(DOMAIN users) \in Nat /\ Cardinality(DOMAIN projects) \in Nat
      BY <2>1, FS_CardinalityType
    <3>2. /\ Cardinality(Calling("create")) \in Nat /\ Cardinality(Calling("project")) \in Nat
          /\ Cardinality(Handlers) \in Nat
      BY CallingIsFinite
    <3> QED BY <2>1, <3>1, <3>2, LimitsAreNat, Zenon
  <2>3. u + c < l + n + k /\ p + d < m + n + k
    BY <2>1, <2>2, Zenon
  <2>4. u + c <= l + (n + k - 1) /\ p + d <= m + (n + k - 1)
    BY <2>3
  <2>5. l = IF MaxUsers > 1 THEN MaxUsers ELSE 1
    BY <2>2 DEF UserLimit
  <2> QED BY <2>2, <2>4, <2>5, Zenon DEF LimitsHold, Calling
<1> QED BY <1>1, IInvHolds, PTL

\* What a viewer's lists show is what the guards of the routes let it open
\* (datascope.ForUser and RequireOwnership).
THEOREM ListedIsOwnedHolds == Spec => []ListedIsOwned
<1>1. IInv => ListedIsOwned
  BY ListsAgree DEF IInv
<1> QED BY <1>1, IInvHolds, PTL

\* A secret that had been replaced or revoked when the request began is
\* refused (APIKeyAuth).
THEOREM RetiredKeysAreRefusedHolds == Spec => []RetiredKeysAreRefused
<1>1. IInv => RetiredKeysAreRefused
  BY DEF IInv, KeyCallsOK, KeyCallOK, RetiredKeysAreRefused, At, PastLookup
<1> QED BY <1>1, IInvHolds, PTL

\* The buckets' part of a step.
LEMMA StepOfBuckets ==
  ASSUME IInv, [Next]_vars
  PROVE  \/ \E k \in Keys, skew \in Skews : Allow(k, skew)
         \/ Tick
         \/ UNCHANGED bucketVars
<1>1. ASSUME NEW h \in Handlers, NEW s \in Skews, PassBucket(h, s)
      PROVE  (\E k \in Keys, skew \in Skews : Allow(k, skew)) \/ UNCHANGED bucketVars
  <2>1. call[h].secret \in Keys
    BY <1>1 DEF IInv, PassBucket, At, RequestsOK, CallOK, PastLookup, Secrets
  <2> QED BY <1>1, <2>1 DEF PassBucket, Deny
<1>2. CASE Serving
  BY <1>1, <1>2 DEF Serving, DeleteUserAndTies, DeleteProjectAndTies, DeleteAppAndTies, DropTokensOf
<1> QED BY <1>2 DEF Next, vars

\* A key is granted its burst and the rate times the time since its first
\* request and no more, whatever the capacity, the rate and the number of
\* processes, as long as their clocks differ by no more than it takes to refill
\* the bucket (bucket.go): beyond it each expiry of the hash would give the
\* difference anew.
THEOREM GrantsAreBoundedHolds ==
  ASSUME Rate * MaxSkew <= Capacity
  PROVE  Spec => []GrantsAreBounded
<1>1. Init => IInv /\ GrantsOK
  BY InitIInv, InitGrants DEF Init
<1>2. IInv /\ GrantsOK /\ [Next]_vars => (IInv /\ GrantsOK)'
  <2> SUFFICES ASSUME IInv, GrantsOK, [Next]_vars PROVE IInv' /\ GrantsOK'
    OBVIOUS
  <2>1. BucketInv
    BY DEF IInv
  <2>2. GrantsOK'
    BY <2>1, StepOfBuckets, GrantsKeep
  <2> QED BY <2>2, NextIInv
<1>3. IInv /\ GrantsOK => GrantsAreBounded
  BY GrantsOKIsEnough DEF IInv
<1> QED BY <1>1, <1>2, <1>3, PTL DEF Spec
=============================================================================
