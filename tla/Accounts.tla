------------------------------ MODULE Accounts ------------------------------
(***************************************************************************)
(* Users and what lets a request act for one: the tokens of the API        *)
(* (api/auth.go, api/request.go, api/token), the sessions of the TT-RSS    *)
(* interface (api/ttrss/session.go), and the requests that create, change  *)
(* and delete users (api/user.go, api/user_settings.go and the command     *)
(* user-admin, a process of its own).  A request is handled in the steps   *)
(* in which it reads and writes what it shares with others, and any of     *)
(* these calls may fail and end it.                                        *)
(***************************************************************************)
EXTENDS Integers, FiniteSets

CONSTANTS None, Logins, Passwords, Tokens, Sids, Clients,
          SubjectOf      \* token |-> the login in its claims

VARIABLES users,     \* login |-> [admin, pass], or None: the table users
          revoked,   \* the tokens in the bucket of the token storage
          sessions,  \* session ID |-> a login, or None: the map of loop
          issued,    \* tokens that clients have been given
          given,     \* session IDs that clients have been given
          req,       \* client |-> its request that is being handled
          uses,      \* operations that the clients request in this behaviour
          left,      \* requests that may still be made
          ended,     \* revoked tokens, and sessions logged out with no request under way in them
          excused    \* admins were removed by the command or by decisions on old rows

rows == <<users, revoked>>
memory == <<sessions, req>>
clients == <<issued, given, uses, left>>
history == <<ended, excused>>
accounts == <<rows, memory, clients, history>>

Row == [admin : BOOLEAN, pass : Passwords]
Form == [current : Passwords \cup {None}, admin : BOOLEAN, pass : Passwords \cup {None}]

ASSUME NoneAssumption == None \notin Logins \cup Passwords \cup Tokens \cup Sids \cup Row
ASSUME CredentialsAssumption == Tokens \cap Sids = {} /\ SubjectOf \in [Tokens -> Logins]
ASSUME AdminAssumption == "admin" \in Logins /\ Passwords # {}

\* userRepo.Get and All, and the two ends of a password.
Get(login) == users[login]
All == {l \in Logins : users[l] # None}
Authenticated(user, password) == user.pass = password
WithPassword(user, password) == [user EXCEPT !.pass = password]

Idle == [op |-> "none", at |-> "done", by |-> None, target |-> None, form |-> None,
         actor |-> None, admin |-> FALSE, login |-> None, row |-> None,
         fresh |-> TRUE, void |-> {}]

AdminOps == {"listUsers", "addUser", "deleteUser", "setUserSetting"}
TokenOps == AdminOps \cup {"getUserData", "createUserToken", "setSetting"}
SessionOps == {"other", "logout"}
Commands == {"add", "remove", "set"}

Profile == [current |-> None, admin |-> FALSE, pass |-> None]  \* a setting that is not the password
Forms(op) ==
  CASE op = "addUser" -> [current : {None}, admin : BOOLEAN, pass : {CHOOSE p \in Passwords : TRUE}]
    [] op = "add" -> [current : {None}, admin : {FALSE}, pass : Passwords]
    [] op \in {"setSetting", "setUserSetting"} ->
         {Profile} \cup {f \in [current : Passwords, admin : {FALSE}, pass : Passwords] : f.current # f.pass}
    [] op = "set" -> [current : {None}, admin : BOOLEAN, pass : Passwords]
    [] OTHER -> {Profile}

\* Requests of the interfaces name a credential, commands none.
Targets(op, by) == IF op \in {"addUser", "deleteUser", "setUserSetting"} \cup Commands THEN Logins
                   ELSE IF op \in TokenOps THEN {SubjectOf[by]} ELSE {None}

Void(by, login) == (IF by \in ended THEN {"revoked"} ELSE {})
                     \cup (IF login # None /\ users[login] = None THEN {"gone"} ELSE {})

\* Clients are interchangeable: the first that is free makes the request.
Begin(c, r) ==
  /\ r.op \in uses /\ left > 0 /\ left' = left - 1
  /\ req[c] = Idle /\ \A d \in Clients : d < c => req[d] # Idle
  /\ req' = [req EXCEPT ![c] = r]
  /\ UNCHANGED <<rows, sessions, issued, given, uses, history>>

Ask(c) ==
  \/ \E op \in TokenOps, t \in issued : \E l \in Targets(op, t), f \in Forms(op) :
       Begin(c, [Idle EXCEPT !.op = op, !.at = "exists", !.by = t, !.target = l, !.form = f,
                             !.actor = SubjectOf[t], !.void = Void(t, SubjectOf[t])])
  \/ \E t \in issued : Begin(c, [Idle EXCEPT !.op = "tokenDelete", !.at = "handle", !.by = t])
  \/ \E op \in {"tokenCreate", "login"}, l \in Logins, p \in Passwords :
       Begin(c, [Idle EXCEPT !.op = op, !.at = "authenticate", !.actor = l,
                             !.form = [Profile EXCEPT !.current = p]])
  \/ \E op \in SessionOps, s \in given :
       Begin(c, [Idle EXCEPT !.op = op, !.at = "session", !.by = s, !.void = Void(s, None)])
  \/ \E op \in Commands, l \in Logins : \E f \in Forms(op) :
       Begin(c, [Idle EXCEPT !.op = op, !.at = "handle", !.target = l, !.form = f])

-----------------------------------------------------------------------------
Go(c, r) == req' = [req EXCEPT ![c] = r]
Finish(c) == Go(c, Idle)
At(c, step) == req[c].at = step
NextStep(c, step) == Go(c, [req[c] EXCEPT !.at = step])
OnlyRequests == UNCHANGED <<rows, sessions, clients, history>>

\* tokenValidator asks the token storage ...
Exists(c) ==
  /\ At(c, "exists") /\ OnlyRequests
  /\ IF req[c].by \in revoked THEN Finish(c) ELSE NextStep(c, "validate")

\* ... and whether the user exists, ...
ValidateUser(c) ==
  /\ At(c, "validate") /\ OnlyRequests
  /\ IF Get(req[c].actor) = None THEN Finish(c) ELSE NextStep(c, "load")

\* ... userContext loads the user that the handlers see, and adminValidator
\* looks at that copy.
UserContext(c) ==
  /\ At(c, "load") /\ OnlyRequests
  /\ LET r == req[c]  user == Get(r.actor) IN
     IF user = None \/ (r.op \in AdminOps /\ ~user.admin) THEN Finish(c)
     ELSE Go(c, [r EXCEPT !.at = "handle", !.admin = user.admin, !.login = r.actor, !.row = user])

\* Handlers that only read.
Read(c) ==
  /\ At(c, "handle") /\ req[c].op \in {"getUserData", "listUsers", "other"}
  /\ Finish(c) /\ OnlyRequests

\* The new token of a user: any that nobody has been given yet.
NewToken(l) == \E t \in Tokens \ issued : SubjectOf[t] = l /\ issued' = issued \cup {t}

CreateUserToken(c) ==
  /\ At(c, "handle") /\ req[c].op = "createUserToken"
  /\ NewToken(req[c].login) /\ Finish(c)
  /\ UNCHANGED <<rows, sessions, given, uses, left, history>>

\* addUser: the login must be free, the row is written later.
AddUser(c) ==
  /\ At(c, "handle") /\ req[c].op = "addUser" /\ OnlyRequests
  /\ LET r == req[c] IN
     IF Get(r.target) # None THEN Finish(c)
     ELSE Go(c, [r EXCEPT !.at = "update", !.login = r.target, !.fresh = TRUE,
                          !.row = [admin |-> r.form.admin, pass |-> r.form.pass]])

(* Wrong: an admin may delete the user of the request. *)
MayDeleteAnyone(r) == TRUE

MayDelete(r) == r.login # r.target
DeleteUser(c) ==
  /\ At(c, "handle") /\ req[c].op = "deleteUser" /\ OnlyRequests
  /\ LET r == req[c] IN
     IF ~MayDelete(r) \/ Get(r.target) = None THEN Finish(c)
     ELSE Go(c, [r EXCEPT !.at = "delete", !.login = r.target, !.fresh = TRUE])

(* Wrong: the setting of a named user is made on the user of the request. *)
SettingOfContext(r) == [login |-> r.login, row |-> r.row, fresh |-> r.fresh]

\* The user that setSettingValue changes: the copy of the context, or the named user.
SettingUser(r) ==
  IF r.op = "setSetting" THEN [login |-> r.login, row |-> r.row, fresh |-> r.fresh]
  ELSE [login |-> r.target, row |-> Get(r.target), fresh |-> TRUE]

SetSetting(c) ==
  /\ At(c, "handle") /\ req[c].op \in {"setSetting", "setUserSetting"} /\ OnlyRequests
  /\ LET r == req[c]  u == SettingUser(r) IN
     IF u.row = None \/ (r.form # Profile /\ ~Authenticated(u.row, r.form.current)) THEN Finish(c)
     ELSE Go(c, [r EXCEPT !.at = "update", !.login = u.login, !.fresh = u.fresh,
                          !.row = IF r.form = Profile THEN u.row
                                  ELSE WithPassword(u.row, r.form.pass)])

\* The command: add has nothing to read, and the new user is no administrator.
UserAdminAdd(c) ==
  /\ At(c, "handle") /\ req[c].op = "add" /\ OnlyRequests
  /\ Go(c, [req[c] EXCEPT !.at = "update", !.login = req[c].target,
                          !.row = [admin |-> FALSE, pass |-> req[c].form.pass]])

UserAdminRemove(c) ==
  /\ At(c, "handle") /\ req[c].op = "remove" /\ OnlyRequests
  /\ IF Get(req[c].target) = None THEN Finish(c)
     ELSE Go(c, [req[c] EXCEPT !.at = "delete", !.login = req[c].target])

UserAdminSet(c) ==
  /\ At(c, "handle") /\ req[c].op = "set" /\ OnlyRequests
  /\ LET r == req[c]  user == Get(r.target) IN
     IF user = None THEN Finish(c)
     ELSE \E row \in {[user EXCEPT !.admin = r.form.admin], WithPassword(user, r.form.pass)} :
            Go(c, [r EXCEPT !.at = "update", !.login = r.target, !.row = row])

-----------------------------------------------------------------------------
\* A row is written while others hold a copy of it.
Write(c, login, row) ==
  /\ users' = [users EXCEPT ![login] = row]
  /\ req' = [d \in Clients |->
       IF d = c THEN Idle
       ELSE [req[d] EXCEPT !.fresh = IF req[d].login = login THEN FALSE ELSE @,
                           !.void = IF row # None /\ req[d].actor = login THEN @ \ {"gone"} ELSE @]]
  /\ UNCHANGED <<revoked, sessions, clients, ended>>

\* userRepo.Update writes the whole row, and creates it when there is none.
Update(c) ==
  /\ At(c, "update")
  /\ Write(c, req[c].login, req[c].row)
  /\ excused' = (excused \/ ~req[c].fresh \/ req[c].op \in Commands)

Delete(c) ==
  /\ At(c, "delete")
  /\ Write(c, req[c].login, None)
  /\ excused' = (excused \/ ~req[c].fresh \/ req[c].op = "remove"
                         \/ req[c].actor \notin All \/ ~Get(req[c].actor).admin)

-----------------------------------------------------------------------------
\* tokenCreate and the login of TT-RSS look the user up and compare the
\* password; whether the user is active is not asked.
Authenticate(c) ==
  /\ At(c, "authenticate")
  /\ LET r == req[c]  user == Get(r.actor) IN
     IF user = None \/ ~Authenticated(user, r.form.current) THEN Finish(c) /\ OnlyRequests
     ELSE \/ /\ r.op = "tokenCreate" /\ NewToken(r.actor) /\ Finish(c)
             /\ UNCHANGED <<rows, sessions, given, uses, left, history>>
          \/ /\ r.op = "login" /\ NextStep(c, "newSession") /\ OnlyRequests

(* Wrong: the storage of the revoked tokens is not on disk. *)
RevokedInMemory(stored) == {}

\* What is left of the bucket when the process ends.
RevokedOnDisk(stored) == stored

TokenDelete(c) ==
  /\ At(c, "handle") /\ req[c].op = "tokenDelete"
  /\ revoked' = revoked \cup {req[c].by} /\ Finish(c)
  /\ ended' = ended \cup {req[c].by}
  /\ UNCHANGED <<users, sessions, clients, excused>>

\* sessionManager.update: a session of the login is shared, whichever it is.
SessionsOf(login) == {s \in Sids : sessions[s] = login}
NewSession(c) ==
  /\ At(c, "newSession")
  /\ LET login == req[c].actor
     IN IF SessionsOf(login) # {} THEN UNCHANGED <<sessions, given>>
        ELSE \E s \in Sids \ given : /\ sessions' = [sessions EXCEPT ![s] = login]
                                     /\ given' = given \cup {s}
  /\ Finish(c) /\ UNCHANGED <<rows, issued, uses, left, history>>

\* Handler of TT-RSS: get, then the user, then set with the new time of the visit.
GetSession(c) ==
  /\ At(c, "session") /\ OnlyRequests
  /\ IF sessions[req[c].by] = None THEN Finish(c)
     ELSE Go(c, [req[c] EXCEPT !.at = "sessionUser", !.actor = sessions[req[c].by]])

SessionUser(c) ==
  /\ At(c, "sessionUser") /\ OnlyRequests
  /\ IF Get(req[c].actor) = None THEN Finish(c) ELSE NextStep(c, "setSession")

SetSession(c) ==
  /\ At(c, "setSession") /\ NextStep(c, "handle")
  /\ sessions' = [sessions EXCEPT ![req[c].by] = req[c].actor]
  /\ UNCHANGED <<rows, clients, history>>

Logout(c) ==
  /\ At(c, "handle") /\ req[c].op = "logout"
  /\ sessions' = [sessions EXCEPT ![req[c].by] = None] /\ Finish(c)
  /\ ended' = ended \cup
       {s \in {req[c].by} : \A d \in Clients \ {c} : req[d].by # s \/ req[d].at = "session"}
  /\ UNCHANGED <<rows, clients, excused>>

\* The ticker of the sessions removes what nobody visited for five days.
Expire(s) ==
  /\ sessions[s] # None /\ sessions' = [sessions EXCEPT ![s] = None]
  /\ UNCHANGED <<rows, req, clients, history>>

\* A call of the request to a repository or a storage fails, and the handler with it.
Fail(c) == req[c] # Idle /\ Finish(c) /\ OnlyRequests

Handle(c) ==
  \/ Exists(c) \/ ValidateUser(c) \/ UserContext(c) \/ Read(c) \/ CreateUserToken(c)
  \/ AddUser(c) \/ DeleteUser(c) \/ SetSetting(c) \/ UserAdminAdd(c)
  \/ UserAdminRemove(c) \/ UserAdminSet(c) \/ Update(c) \/ Delete(c)
  \/ Authenticate(c) \/ TokenDelete(c) \/ NewSession(c) \/ GetSession(c) \/ SessionUser(c)
  \/ SetSession(c) \/ Logout(c) \/ Fail(c)

\* Commands are processes of their own.
IsCommand(c) == req[c].op \in Commands

EndRequests == req' = [c \in Clients |-> IF IsCommand(c) THEN req[c] ELSE Idle]
=============================================================================
