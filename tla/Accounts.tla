------------------------------ MODULE Accounts ------------------------------
(***************************************************************************)
(* Users, their passwords and roles, and the sessions that speak for them. *)
(* A session is a signed token that carries the user's role and the        *)
(* token_version of the row it was issued from; nothing is stored, a       *)
(* request is accepted while the row's version is not higher.  A change of *)
(* password, role, e-mail or activity is one statement and the increment   *)
(* of the version another.                                                 *)
(*                                                                         *)
(* Abstracted: user names, profile data, last_login, audit rows, and the   *)
(* notices sent to the user; who holds which token; signatures and bcrypt  *)
(* (a login presents the row's password or changes nothing here).          *)
(***************************************************************************)
EXTENDS Requests

CONSTANTS Users,     \* ids
          Root,      \* the user EnsureAdminUser keeps
          Emails, RootEmail,
          Subjects,  \* accounts at the identity provider
          MaxUsers   \* the deployment's limit

ASSUME AccountsAssumption ==
  /\ Root \in Users /\ RootEmail \in Emails /\ MaxUsers \in Nat

VARIABLES
  users,     \* users that have a row, with their row
  used,      \* ids ever given
  sessions,  \* the tokens issued and not expired
  idp,       \* the claims the provider asserts of its subjects
  unbumped,  \* history: users changed since their version was last raised
  unmetered  \* history: users and projects inserted without a look at the limit

accountRows == <<users, used, sessions, idp, unbumped>>
accountVars == <<accountRows, unmetered>>

Roles      == {"admin", "viewer"}
Unlinked   == "unlinked"
NoPassword == 0      \* the hash of a user that only signs in through the provider
AdminPass  == 1      \* ADMIN_PASS, and the first password of everyone

Row     == [role : Roles, pass : Nat, active : BOOLEAN, ver : Nat, email : Emails,
            sso : Subjects \cup {Unlinked}]
Session == [user : Users, role : Roles, ver : Nat, pass : Nat, sso : BOOLEAN]
Claims  == [email : Emails, role : Roles]

AccountsTypeOK ==
  /\ DOMAIN users \subseteq used /\ used \subseteq Users
  /\ \A u \in DOMAIN users : users[u] \in Row
  /\ sessions \subseteq Session
  /\ idp \in [Subjects -> Claims]
  /\ unbumped \subseteq Users /\ unmetered \in Nat

NewRow(e, p, r) == [role |-> r, pass |-> p, active |-> TRUE, ver |-> 0, email |-> e,
                    sso |-> Unlinked]

SessionOf(u, r, sso) ==
  [user |-> u, role |-> r, ver |-> users[u].ver, pass |-> users[u].pass, sso |-> sso]

\* The administrator has signed in once.
AccountsInit ==
  /\ users = [u \in {Root} |-> NewRow(RootEmail, AdminPass, "admin")]
  /\ used = {Root}
  /\ sessions = {SessionOf(Root, "admin", FALSE)}
  /\ idp \in [Subjects -> {[email |-> e, role |-> "viewer"] : e \in Emails}]
  /\ unbumped = {} /\ unmetered = 0

-----------------------------------------------------------------------------
(* Sessions.                                                               *)

Has(u) == u \in DOMAIN users

\* Faulty: one version too far.
AcceptsLastVersion(s) == Has(s.user) /\ s.ver + 1 >= users[s.user].ver

\* RequireValidTokenVersion; an expired token is no longer in `sessions`.
Accepted(s) == Has(s.user) /\ s.ver >= users[s.user].ver

\* RequireRole, with the role of the token.
Admitted(r) == \E s \in sessions : Accepted(s) /\ s.role = r

Login(u) ==
  /\ AtOnce("login")
  /\ Has(u) /\ users[u].active /\ users[u].pass # NoPassword
  /\ sessions' = sessions \cup {SessionOf(u, users[u].role, FALSE)}
  /\ UNCHANGED <<users, used, idp, unbumped, unmetered>>

\* 24 hours later.
Expire(s) ==
  /\ AtOnce("login")
  /\ sessions' = sessions \ {s}
  /\ UNCHANGED <<users, used, idp, unbumped, unmetered>>

-----------------------------------------------------------------------------
(* Administration.                                                         *)

EmailTaken(e, except) == \E u \in DOMAIN users \ except : users[u].email = e

Insert(u, row) == users' = AddRow(users, u, row) /\ used' = used \cup {u}

\* Faulty: the limit is not asked.
CreateAnyUser(h, u, e, r) ==
  /\ Admitted("admin")
  /\ u \notin used
  /\ Begin("create", h, [op |-> "create", user |-> u, email |-> e, role |-> r])
  /\ UNCHANGED accountVars

\* checkUserLimit, then the insert as a step of its own.
CreateUser(h, u, e, r) ==
  /\ Admitted("admin")
  /\ u \notin used /\ Cardinality(DOMAIN users) < MaxUsers
  /\ Begin("create", h, [op |-> "create", user |-> u, email |-> e, role |-> r])
  /\ UNCHANGED accountVars

\* users.username and users.email are unique: 409 otherwise.
InsertUser(h) ==
  /\ At(h, "create")
  /\ LET x == call[h] IN
       IF x.user \in used \/ EmailTaken(x.email, {})
         THEN UNCHANGED <<users, used>>
         ELSE Insert(x.user, NewRow(x.email, AdminPass, x.role))
  /\ Return(h)
  /\ UNCHANGED <<sessions, idp, unbumped, unmetered>>

\* What one request changes; e-mails are unique, a clash is answered 404.
Changed(row) ==
  {[row EXCEPT !.pass = @ + 1]}
    \cup {[row EXCEPT !.role = r] : r \in Roles}
    \cup {[row EXCEPT !.active = a] : a \in BOOLEAN}
    \cup {[row EXCEPT !.email = e] : e \in Emails}

\* The password of the administrator who asks was checked before.
UpdateUser(h, u) ==
  /\ Admitted("admin") /\ Has(u)
  /\ \E row \in Changed(users[u]) :
       /\ ~EmailTaken(row.email, {u})
       /\ users' = [users EXCEPT ![u] = row]
  /\ unbumped' = unbumped \cup {u}
  /\ Begin("admin", h, [op |-> "bump", user |-> u])
  /\ UNCHANGED <<used, sessions, idp, unmetered>>

ResetPassword(h, u) ==
  /\ Admitted("admin") /\ Has(u)
  /\ users' = [users EXCEPT ![u].pass = @ + 1]
  /\ unbumped' = unbumped \cup {u}
  /\ Begin("admin", h, [op |-> "bump", user |-> u])
  /\ UNCHANGED <<used, sessions, idp, unmetered>>

\* When it fails (CutOff) the error is logged and the request succeeds.
BumpTokenVersion(h) ==
  /\ At(h, "bump")
  /\ LET u == call[h].user IN
       /\ users' = IF Has(u) THEN [users EXCEPT ![u].ver = @ + 1] ELSE users
       /\ unbumped' = unbumped \ {u}
  /\ Return(h)
  /\ UNCHANGED <<used, sessions, idp, unmetered>>

DeleteUser(u) ==
  /\ Admitted("admin") /\ Has(u)
  /\ AtOnce("admin")
  /\ users' = [x \in DOMAIN users \ {u} |-> users[x]]
  /\ UNCHANGED <<used, sessions, idp, unbumped, unmetered>>

\* EnsureAdminUser at a start of the API: password and e-mail are those of
\* the environment again, the version is left.  (A root row that was deleted
\* is inserted anew under another id, as by CreateUser.)
StartApi ==
  /\ AtOnce("admin")
  /\ Has(Root) /\ ~EmailTaken(RootEmail, {Root})
  /\ users[Root].pass # AdminPass \/ users[Root].email # RootEmail
  /\ users' = [users EXCEPT ![Root].pass = AdminPass, ![Root].email = RootEmail]
  /\ unbumped' = unbumped \cup {Root}
  /\ UNCHANGED <<used, sessions, idp, unmetered>>

-----------------------------------------------------------------------------
(* Single sign-on.                                                         *)

\* External: the directory behind the provider changes.
IdpChanges(s, c) ==
  /\ AtOnce("sso")
  /\ idp[s] # c
  /\ idp' = [idp EXCEPT ![s] = c]
  /\ UNCHANGED <<users, used, sessions, unbumped, unmetered>>

\* The code is exchanged for the claims, whose e-mail is verified and whose
\* groups give the role; the state of the browser that asked was checked.
SSOCallback(h, s) ==
  /\ Begin("sso", h, [op |-> "find", subject |-> s, claims |-> idp[s]])
  /\ UNCHANGED accountVars

\* The call goes on with the row of u it has just read.
With(h, op, u, row) ==
  [op |-> op, subject |-> call[h].subject, claims |-> call[h].claims,
   user |-> u, role |-> row.role, active |-> row.active]

\* syncSSORole updates the role only if it differs.
AfterFound(h, u, row) ==
  With(h, IF row.role = call[h].claims.role THEN "issue" ELSE "sync", u, row)

FindLinked(h) ==
  /\ At(h, "find")
  /\ LET linked == {u \in DOMAIN users : users[u].sso = call[h].subject} IN
       \/ \E u \in linked : Proceed(h, AfterFound(h, u, users[u]))
       \/ linked = {} /\ Proceed(h, [call[h] EXCEPT !.op = "match"])
  /\ UNCHANGED accountVars

MatchEmail(h) ==
  /\ At(h, "match")
  /\ LET matched == {u \in DOMAIN users : users[u].email = call[h].claims.email} IN
       \/ \E u \in matched : Proceed(h, With(h, "link", u, users[u]))
       \/ matched = {} /\ Proceed(h, [call[h] EXCEPT !.op = "insert"])
  /\ UNCHANGED accountVars

\* A new user has the provider's role; the limit is not asked.
CreateSSOUser(h) ==
  /\ At(h, "insert")
  /\ LET x == call[h] IN
       \/ /\ EmailTaken(x.claims.email, {})
          /\ Return(h)
          /\ UNCHANGED <<users, used, unmetered>>
       \/ \E u \in Users \ used :
            /\ ~EmailTaken(x.claims.email, {})
            /\ LET row == NewRow(x.claims.email, NoPassword, x.claims.role) IN
                 Insert(u, row) /\ Proceed(h, With(h, "link", u, row))
            /\ unmetered' = unmetered + 1
  /\ UNCHANGED <<sessions, idp, unbumped>>

\* (sso_provider, sso_subject) is unique: the call fails if another row has
\* it.  A link the row had is replaced; a row deleted meanwhile is no error.
LinkSSOIdentity(h) ==
  /\ At(h, "link")
  /\ LET x == call[h]
         clash == Has(x.user) /\ \E u \in DOMAIN users \ {x.user} : users[u].sso = x.subject
     IN  IF clash
           THEN Return(h) /\ UNCHANGED users
           ELSE /\ users' = IF Has(x.user) THEN [users EXCEPT ![x.user].sso = x.subject]
                                           ELSE users
                /\ Proceed(h, AfterFound(h, x.user, [role |-> x.role, active |-> x.active]))
  /\ UNCHANGED <<used, sessions, idp, unbumped, unmetered>>

\* Update returns the row as it then is, or fails if it is gone.
SyncSSORole(h) ==
  /\ At(h, "sync")
  /\ LET x == call[h] IN
       IF Has(x.user)
         THEN /\ users' = [users EXCEPT ![x.user].role = x.claims.role]
              /\ unbumped' = unbumped \cup {x.user}
              /\ Proceed(h, With(h, "issue", x.user, users'[x.user]))
         ELSE Return(h) /\ UNCHANGED <<users, unbumped>>
  /\ UNCHANGED <<used, sessions, idp, unmetered>>

\* The role and the activity of the earlier read, the version of this one.
IssueSSOToken(h) ==
  /\ At(h, "issue")
  /\ LET x == call[h] IN
       sessions' = IF x.active /\ Has(x.user)
                     THEN sessions \cup {SessionOf(x.user, x.role, TRUE)} ELSE sessions
  /\ Return(h)
  /\ UNCHANGED <<users, used, idp, unbumped, unmetered>>

-----------------------------------------------------------------------------
\* DeleteUser has effects on other tables too (see Access).
AccountsNext ==
  \/ \E u \in Users : Login(u)
  \/ \E s \in sessions : Expire(s)
  \/ \E h \in Handlers, u \in Users :
       \/ UpdateUser(h, u) \/ ResetPassword(h, u)
       \/ \E e \in Emails, r \in Roles : CreateUser(h, u, e, r)
  \/ \E h \in Handlers : InsertUser(h) \/ BumpTokenVersion(h)
  \/ StartApi
  \/ \E s \in Subjects : \/ \E h \in Handlers : SSOCallback(h, s)
                         \/ \E c \in Claims : IdpChanges(s, c)
  \/ \E h \in Handlers : \/ FindLinked(h) \/ MatchEmail(h) \/ CreateSSOUser(h)
                         \/ LinkSSOIdentity(h) \/ SyncSSORole(h) \/ IssueSSOToken(h)

\* A session obtained with a password and accepted now is one the user could
\* obtain now: same password, same role, account active.  Excepted are users
\* whose version is still to be raised after a change, or was not because the
\* statement failed, the change came from the provider's groups or from the
\* environment at a start (UpdateUser, ResetPassword, syncSSORole, seed.go).
SessionIsCurrent ==
  \A s \in sessions :
    Accepted(s) /\ ~s.sso /\ s.user \notin unbumped =>
      LET row == users[s.user] IN s.pass = row.pass /\ s.role = row.role /\ row.active
=============================================================================
