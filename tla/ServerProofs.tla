---------------------------- MODULE ServerProofs ----------------------------
(***************************************************************************)
(* What becomes of users, tokens and sessions while requests, commands,    *)
(* starts and ends of the process interleave, for any logins, credentials  *)
(* and number of clients.                                                  *)
(*                                                                         *)
(* The invariant says of every request under way where it can be and what  *)
(* it holds (Placed, Writing), with the row it has read for as long as     *)
(* nobody has written it, and until which check a credential that is void  *)
(* can come (Voided, Over).                                                *)
(***************************************************************************)
EXTENDS Server, TLAPS

Writes == {"addUser", "setSetting", "setUserSetting", "add", "set"}
Settings == {"setSetting", "setUserSetting"}
Deletes == {"deleteUser", "remove"}
Logons == {"tokenCreate", "login"}
SessionSteps == {"session", "sessionUser", "setSession"}

Requests ==
  [op : TokenOps \cup SessionOps \cup Commands \cup Logons \cup {"none", "tokenDelete"},
   at : {"done", "exists", "validate", "load", "handle", "authenticate", "newSession",
         "update", "delete"} \cup SessionSteps,
   by : Tokens \cup Sids \cup {None}, target : Logins \cup {None},
   form : Form \cup {None}, actor : Logins \cup {None}, admin : BOOLEAN,
   login : Logins \cup {None}, row : Row \cup {None}, fresh : BOOLEAN,
   void : SUBSET {"revoked", "gone"}]

TInv ==
  /\ users \in [Logins -> Row \cup {None}]
  /\ revoked \subseteq Tokens /\ issued \subseteq Tokens /\ given \subseteq Sids
  /\ sessions \in [Sids -> Logins \cup {None}]
  /\ ended \subseteq Tokens \cup Sids
  /\ req \in [Clients -> Requests]
  /\ excused \in BOOLEAN

(* What the client has sent.                                               *)
Sent(r) ==
  /\ r.op \in Writes \cup Deletes => r.target \in Logins
  /\ r.op \in Writes => /\ r.form \in Form
                        /\ r.form.pass \in Passwords \/ (r.op \in Settings /\ r.form = Profile)
  /\ r.op = "setSetting" => r.target = r.actor

(* The steps an operation passes, and what is known at each.               *)
Placed(r) ==
  /\ r.op = "none" => r = Idle
  /\ r.at \in {"exists", "validate", "load"} =>
       /\ r.op \in TokenOps /\ r.actor \in Logins /\ r.login = None
       /\ r.at = "exists" => r.by \in Tokens
  /\ r.at \in SessionSteps =>
       /\ r.op \in SessionOps /\ r.by \in given
       /\ r.at # "session" => r.actor \in Logins
  /\ r.at \in {"authenticate", "newSession"} => r.op \in Logons /\ r.actor \in Logins
  /\ r.at = "handle" =>
       /\ r.op \in TokenOps => /\ r.actor \in Logins /\ r.login = r.actor /\ r.row \in Row
                               /\ r.fresh => users[r.login] = r.row
       /\ r.op \in SessionOps => r.by \in given
       /\ r.op = "tokenDelete" => r.by \in Tokens
       /\ r.op \notin Logons
  /\ r.op \in Commands => r.at \in {"handle", "update", "delete"}

(* What is about to be written is what was asked for, to be made of the    *)
(* row that is there unless it was written since.                          *)
Writing(r) ==
  /\ r.at = "update" =>
       /\ r.op \in Writes /\ r.login = r.target /\ r.row \in Row
       /\ r.fresh => Asked(r, users[r.login], r.row)
  /\ r.at = "delete" =>
       /\ r.op \in Deletes /\ r.login = r.target
       /\ r.op = "deleteUser" => r.actor # r.target

(* A void credential is still to be checked, and the check will see it.    *)
Voided(r) ==
  /\ "revoked" \in r.void => r.by \in ended /\ r.at \in {"exists", "session"}
  /\ "gone" \in r.void => r.at \in {"exists", "validate"} /\ users[r.actor] = None

Sound(r) == Sent(r) /\ Placed(r) /\ Writing(r) /\ Voided(r)

Requested ==
  \A c \in Clients : \A r \in Requests : req[c] = r => Sound(r)

(* Revoked tokens are in the storage, ended sessions are nobody's, and the *)
(* requests that came in them have still to look them up.                  *)
Over ==
  /\ ended \cap Tokens \subseteq revoked
  /\ \A s \in ended \cap Sids :
       /\ s \in given /\ sessions[s] = None
       /\ \A c \in Clients : req[c].by = s => req[c].at = "session"

Quiet == ~Serving => \A c \in Clients : req[c] = Idle \/ req[c].op \in Commands

AnyAdmin == \E l \in Logins : users[l] # None /\ users[l].admin
Manned ==
  ~excused => /\ (\A l \in Logins : users[l] = None) \/ AnyAdmin
              /\ phase \in {"admin", "creating", "indexed", "serving"} => AnyAdmin

(* The configuration that a start goes on with.                            *)
Configured ==
  /\ conf \in [path : {"none", "v2", "legacy"}, orig : {"none", "v2", "legacy"}]
  /\ phase \in {"convert", "replace", "run"} => cfg \in {"home", "defaults", "zero"}

AInv == TInv /\ Requested /\ Over /\ Quiet /\ Manned

-----------------------------------------------------------------------------
LEMMA IdleSound == Idle \in Requests /\ Sound(Idle)
<1>1. Idle \in Requests
  BY DEF Idle, Requests, SessionSteps
<1>2. /\ Idle.op = "none" /\ Idle.at = "done" /\ Idle.void = {}
  BY DEF Idle
<1>3. Sound(Idle)
  BY <1>2 DEF Sound, Sent, Placed, Writing, Voided, Writes, Deletes, SessionSteps, Commands
<1> QED BY <1>1, <1>3

(* The request of a client, as a value.                                    *)
LEMMA TheRequest ==
  ASSUME AInv, NEW c \in Clients
  PROVE  \E r \in Requests : r = req[c] /\ Sound(r)
BY DEF AInv, TInv, Requested

(* A step of a request alone.                                              *)
LEMMA GoInv ==
  ASSUME AInv, NEW c \in Clients, NEW r \in Requests, Go(c, r), Sound(r),
         UNCHANGED <<users, revoked, sessions, given, ended, excused, phase>>,
         issued' \subseteq Tokens,
         Serving \/ r = Idle \/ r.op \in Commands,
         r.by \in ended \cap Sids => r.at = "session"
  PROVE  AInv'
<1>1. \A d \in Clients : req'[d] = IF d = c THEN r ELSE req[d]
  BY DEF Go, AInv, TInv
<1>2. TInv'
  BY DEF AInv, TInv, Go
<1>3. \A q \in Requests : Sound(q)' <=> Sound(q)
  BY DEF Sound, Sent, Placed, Writing, Voided, Asked
<1>4. Requested'
  BY <1>1, <1>3 DEF AInv, Requested
<1>5. Over'
  BY <1>1 DEF AInv, Over
<1>6. Quiet' /\ Manned'
  BY <1>1 DEF AInv, Quiet, Manned, Serving, AnyAdmin
<1> QED BY <1>2, <1>4, <1>5, <1>6 DEF AInv

LEMMA FinishInv ==
  ASSUME AInv, NEW c \in Clients, Finish(c),
         UNCHANGED <<users, revoked, sessions, given, ended, excused, phase>>,
         issued' \subseteq Tokens
  PROVE  AInv'
<1>1. Idle.by = None /\ None \notin Sids
  BY NoneAssumption DEF Idle
<1> QED BY <1>1, IdleSound, GoInv DEF Finish

-----------------------------------------------------------------------------
(* Requests as they are made.                                              *)
LEMMA FormTypes ==
  /\ Profile \in Form
  /\ \A op \in TokenOps \cup Commands : \A f \in Forms(op) :
       /\ f \in Form
       /\ op \in Writes => f.pass \in Passwords \/ (op \in Settings /\ f = Profile)
<1>1. Profile \in Form
  BY DEF Profile, Form
<1>2. (CHOOSE p \in Passwords : TRUE) \in Passwords
  BY AdminAssumption
<1>3. ASSUME NEW op \in TokenOps \cup Commands, NEW f \in Forms(op)
      PROVE  /\ f \in Form
             /\ op \in Writes => f.pass \in Passwords \/ (op \in Settings /\ f = Profile)
  <2>1. CASE op = "addUser"
    <3>1. f \in [current : {None}, admin : BOOLEAN, pass : {CHOOSE p \in Passwords : TRUE}]
      BY <1>3, <2>1 DEF Forms
    <3> QED BY <1>2, <3>1 DEF Form
  <2>2. CASE op = "add"
    <3>1. f \in [current : {None}, admin : {FALSE}, pass : Passwords]
      BY <1>3, <2>2 DEF Forms
    <3> QED BY <3>1 DEF Form
  <2>3. CASE op \in Settings
    <3>1. f = Profile \/ f \in [current : Passwords, admin : {FALSE}, pass : Passwords]
      BY <1>3, <2>3 DEF Forms, Settings
    <3> QED BY <1>1, <2>3, <3>1 DEF Form
  <2>4. CASE op = "set"
    <3>1. f \in [current : {None}, admin : BOOLEAN, pass : Passwords]
      BY <1>3, <2>4 DEF Forms
    <3> QED BY <3>1 DEF Form
  <2>5. CASE op \notin Writes
    <3>1. f = Profile
      BY <1>3, <2>5 DEF Forms, Writes
    <3> QED BY <1>1, <2>5, <3>1
  <2> QED BY <2>1, <2>2, <2>3, <2>4, <2>5 DEF Writes, Settings
<1> QED BY <1>1, <1>3

LEMMA BeginInv ==
  ASSUME AInv, phase' = phase, Serving, NEW c \in Clients,
         NEW r \in Requests, Begin(c, r), Sound(r),
         r.by \in ended \cap Sids => r.at = "session"
  PROVE  AInv'
<1>1. /\ Go(c, r) /\ issued' \subseteq Tokens
      /\ UNCHANGED <<users, revoked, sessions, given, ended, excused>>
  BY DEF Begin, Go, rows, history, AInv, TInv
<1> QED BY <1>1, GoInv

LEMMA AskInv ==
  ASSUME AInv, phase' = phase, Serving, NEW c \in Clients, Ask(c)
  PROVE  AInv'
<1>1. ASSUME NEW op \in TokenOps, NEW t \in issued, NEW l \in Targets(op, t), NEW f \in Forms(op),
             Begin(c, [Idle EXCEPT !.op = op, !.at = "exists", !.by = t, !.target = l, !.form = f,
                                   !.actor = SubjectOf[t], !.void = Void(t, SubjectOf[t])])
      PROVE  AInv'
  <2>1. /\ t \in Tokens /\ t \notin Sids /\ SubjectOf[t] \in Logins /\ SubjectOf[t] # None
        /\ l \in Logins /\ (op = "setSetting" => l = SubjectOf[t])
    BY CredentialsAssumption, NoneAssumption DEF AInv, TInv, Targets, TokenOps, AdminOps, Commands
  <2>2. Void(t, SubjectOf[t]) \in SUBSET {"revoked", "gone"}
    BY DEF Void
  <2>3. f \in Form /\ (op \in Writes => f.pass \in Passwords \/ (op \in Settings /\ f = Profile))
    BY FormTypes
  <2>4. PICK r \in Requests :
          r = [Idle EXCEPT !.op = op, !.at = "exists", !.by = t, !.target = l, !.form = f,
                           !.actor = SubjectOf[t], !.void = Void(t, SubjectOf[t])]
    BY <2>1, <2>2, <2>3 DEF Idle, Requests
  <2>5. /\ r.op = op /\ r.at = "exists" /\ r.by = t /\ r.target = l /\ r.form = f
        /\ r.actor = SubjectOf[t] /\ r.login = None /\ r.void = Void(t, SubjectOf[t])
    BY <2>4 DEF Idle
  <2>6. Sound(r)
    <3>1. Sent(r)
      BY <2>1, <2>3, <2>5 DEF Sent
    <3>2. Placed(r)
      BY <2>1, <2>5 DEF Placed, TokenOps, AdminOps, Commands, SessionSteps
    <3>3. Writing(r) /\ Voided(r)
      BY <2>1, <2>5 DEF Writing, Voided, Void
    <3> QED BY <3>1, <3>2, <3>3 DEF Sound
  <2> QED BY <1>1, <2>1, <2>4, <2>5, <2>6, BeginInv
<1>2. ASSUME NEW t \in issued,
             Begin(c, [Idle EXCEPT !.op = "tokenDelete", !.at = "handle", !.by = t])
      PROVE  AInv'
  <2>1. t \in Tokens /\ t \notin Sids
    BY CredentialsAssumption DEF AInv, TInv
  <2>2. PICK r \in Requests :
          r = [Idle EXCEPT !.op = "tokenDelete", !.at = "handle", !.by = t]
    BY <2>1 DEF Idle, Requests
  <2>3. r.op = "tokenDelete" /\ r.at = "handle" /\ r.by = t /\ r.void = {}
    BY <2>2 DEF Idle
  <2>4. Sound(r)
    BY <2>1, <2>3 DEF Sound, Sent, Placed, Writing, Voided, Writes, Deletes, Logons, Commands,
                      TokenOps, AdminOps, SessionOps, SessionSteps
  <2> QED BY <1>2, <2>1, <2>2, <2>3, <2>4, BeginInv
<1>3. ASSUME NEW op \in {"tokenCreate", "login"}, NEW l \in Logins, NEW p \in Passwords,
             Begin(c, [Idle EXCEPT !.op = op, !.at = "authenticate", !.actor = l,
                                   !.form = [Profile EXCEPT !.current = p]])
      PROVE  AInv'
  <2>1. [Profile EXCEPT !.current = p] \in Form
    BY DEF Profile, Form
  <2>2. PICK r \in Requests :
          r = [Idle EXCEPT !.op = op, !.at = "authenticate", !.actor = l,
                           !.form = [Profile EXCEPT !.current = p]]
    BY <2>1 DEF Idle, Requests, Logons
  <2>3. r.op = op /\ r.at = "authenticate" /\ r.actor = l /\ r.by = None /\ r.void = {}
    BY <2>2 DEF Idle
  <2>4. Sound(r)
    BY <2>3 DEF Sound, Sent, Placed, Writing, Voided, Writes, Deletes, Logons, Commands, SessionSteps
  <2> QED BY <1>3, <2>2, <2>3, <2>4, BeginInv, NoneAssumption
<1>4. ASSUME NEW op \in SessionOps, NEW s \in given,
             Begin(c, [Idle EXCEPT !.op = op, !.at = "session", !.by = s, !.void = Void(s, None)])
      PROVE  AInv'
  <2>1. s \in Sids /\ Void(s, None) \in SUBSET {"revoked", "gone"}
    BY DEF AInv, TInv, Void
  <2>2. PICK r \in Requests :
          r = [Idle EXCEPT !.op = op, !.at = "session", !.by = s, !.void = Void(s, None)]
    BY <2>1 DEF Idle, Requests, SessionSteps
  <2>3. r.op = op /\ r.at = "session" /\ r.by = s /\ r.void = Void(s, None)
    BY <2>2 DEF Idle
  <2>4. Sound(r)
    BY <2>3 DEF Sound, Sent, Placed, Writing, Voided, Void, Writes, Deletes, Commands,
                SessionOps, SessionSteps
  <2> QED BY <1>4, <2>2, <2>3, <2>4, BeginInv
<1>5. ASSUME NEW op \in Commands, NEW l \in Logins, NEW f \in Forms(op),
             Begin(c, [Idle EXCEPT !.op = op, !.at = "handle", !.target = l, !.form = f])
      PROVE  AInv'
  <2>1. f \in Form /\ (op \in Writes => f.pass \in Passwords \/ (op \in Settings /\ f = Profile))
    BY FormTypes
  <2>2. PICK r \in Requests :
          r = [Idle EXCEPT !.op = op, !.at = "handle", !.target = l, !.form = f]
    BY <2>1 DEF Idle, Requests
  <2>3. /\ r.op = op /\ r.at = "handle" /\ r.target = l /\ r.form = f /\ r.by = None
        /\ r.void = {}
    BY <2>2 DEF Idle
  <2>4. Sound(r)
    BY <2>1, <2>3 DEF Sound, Sent, Placed, Writing, Voided, Logons, Commands,
                      TokenOps, AdminOps, SessionOps, SessionSteps
  <2> QED BY <1>5, <2>2, <2>3, <2>4, BeginInv, NoneAssumption
<1> QED BY <1>1, <1>2, <1>3, <1>4, <1>5 DEF Ask

-----------------------------------------------------------------------------
(* The steps of a handler before it writes.                                *)
LEMMA StepInv ==
  ASSUME AInv, phase' = phase, NEW c \in Clients, Serving \/ req[c].op \in Commands,
         NEW q \in Requests, Go(c, q), OnlyRequests, Sound(q),
         q.by = req[c].by, q.op = req[c].op, req[c].at # "session"
  PROVE  AInv'
<1>1. /\ UNCHANGED <<users, revoked, sessions, given, ended, excused>>
      /\ issued' \subseteq Tokens
  BY DEF OnlyRequests, rows, clients, history, AInv, TInv
<1>2. q.by \notin ended \cap Sids
  BY DEF AInv, Over
<1> QED BY <1>1, <1>2, GoInv

LEMMA EndsInv ==
  ASSUME AInv, phase' = phase, NEW c \in Clients, Finish(c), OnlyRequests
  PROVE  AInv'
BY FinishInv DEF OnlyRequests, rows, clients, history, AInv, TInv

LEMMA MoveTo ==
  ASSUME NEW r \in Requests,
         NEW s \in {"validate", "load", "handle", "newSession", "sessionUser", "setSession"}
  PROVE  /\ [r EXCEPT !.at = s] \in Requests
         /\ \A q : q = [r EXCEPT !.at = s] =>
              /\ q.at = s /\ q.op = r.op /\ q.by = r.by /\ q.target = r.target
              /\ q.form = r.form /\ q.actor = r.actor /\ q.login = r.login
              /\ q.row = r.row /\ q.fresh = r.fresh /\ q.void = r.void
BY DEF Requests, SessionSteps

LEMMA ChecksInv ==
  ASSUME AInv, phase' = phase, NEW c \in Clients, Serving \/ req[c].op \in Commands,
         Exists(c) \/ ValidateUser(c) \/ UserContext(c)
  PROVE  AInv'
<1>1. PICK r \in Requests : r = req[c] /\ Sound(r)
  BY TheRequest
<1>2. CASE Exists(c)
  <2>1. CASE r.by \in revoked
    BY <1>1, <1>2, <2>1, EndsInv DEF Exists
  <2>2. CASE r.by \notin revoked
    <3>1. PICK q \in Requests : q = [r EXCEPT !.at = "validate"]
      BY MoveTo
    <3>2. Go(c, q) /\ OnlyRequests /\ r.at = "exists"
      BY <1>1, <1>2, <2>2, <3>1 DEF Exists, NextStep, At
    <3>3. r.by \in Tokens /\ r.by \notin ended
      BY <1>1, <2>2, <3>2 DEF Sound, Placed, AInv, Over
    <3>4. q.at = "validate" /\ q.op = r.op /\ q.by = r.by /\ q.target = r.target
          /\ q.form = r.form /\ q.actor = r.actor /\ q.login = r.login /\ q.void = r.void
      BY <3>1, MoveTo
    <3>5. Sound(q)
      BY <1>1, <3>2, <3>3, <3>4 DEF Sound, Sent, Placed, Writing, Voided, Commands, TokenOps,
                                    AdminOps, SessionSteps
    <3> QED BY <1>1, <3>2, <3>4, <3>5, StepInv
  <2> QED BY <2>1, <2>2
<1>3. CASE ValidateUser(c)
  <2>1. CASE users[r.actor] = None
    BY <1>1, <1>3, <2>1, EndsInv DEF ValidateUser, Get
  <2>2. CASE users[r.actor] # None
    <3>1. PICK q \in Requests : q = [r EXCEPT !.at = "load"]
      BY MoveTo
    <3>2. Go(c, q) /\ OnlyRequests /\ r.at = "validate"
      BY <1>1, <1>3, <2>2, <3>1 DEF ValidateUser, NextStep, At, Get
    <3>3. q.at = "load" /\ q.op = r.op /\ q.by = r.by /\ q.target = r.target
          /\ q.form = r.form /\ q.actor = r.actor /\ q.login = r.login /\ q.void = r.void
      BY <3>1, MoveTo
    <3>4. Sound(q)
      BY <1>1, <2>2, <3>2, <3>3 DEF Sound, Sent, Placed, Writing, Voided, Commands, TokenOps,
                                    AdminOps, SessionSteps
    <3> QED BY <1>1, <3>2, <3>3, <3>4, StepInv
  <2> QED BY <2>1, <2>2
<1>4. CASE UserContext(c)
  <2> DEFINE user == users[r.actor]
  <2>1. r.at = "load" /\ OnlyRequests /\ r.actor \in Logins /\ r.op \in TokenOps
    BY <1>1, <1>4 DEF UserContext, At, Sound, Placed
  <2>2. CASE user = None \/ (r.op \in AdminOps /\ ~user.admin)
    BY <1>1, <1>4, <2>2, EndsInv DEF UserContext, Get
  <2>3. CASE ~(user = None \/ (r.op \in AdminOps /\ ~user.admin))
    <3>1. user \in Row /\ user.admin \in BOOLEAN
      BY <2>1, <2>3 DEF AInv, TInv, Row
    <3>2. PICK q \in Requests : q = [r EXCEPT !.at = "handle", !.admin = user.admin,
                                              !.login = r.actor, !.row = user]
      BY <2>1, <3>1, ZenonT(60) DEF Requests
    <3>3. Go(c, q)
      BY <1>1, <1>4, <2>3, <3>2 DEF UserContext, Get
    <3>4. q.at = "handle" /\ q.op = r.op /\ q.by = r.by /\ q.target = r.target
          /\ q.form = r.form /\ q.actor = r.actor /\ q.login = r.actor /\ q.row = user
          /\ q.void = r.void
      BY <3>2 DEF Requests
    <3>5. Sound(q)
      BY <1>1, <2>1, <3>1, <3>4 DEF Sound, Sent, Placed, Writing, Voided, Logons, Commands,
                                    TokenOps, AdminOps, SessionOps, SessionSteps
    <3> QED BY <1>1, <2>1, <3>3, <3>4, <3>5, StepInv
  <2> QED BY <2>2, <2>3
<1> QED BY <1>2, <1>3, <1>4

-----------------------------------------------------------------------------
(* A handler runs for what is not void.                                    *)
LEMMA HandledIsValid ==
  ASSUME NEW r \in Requests, Sound(r), r.at = "handle"
  PROVE  r.void = {}
BY DEF Requests, Sound, Voided

LEMMA SentAgain ==
  ASSUME NEW r \in Requests, NEW q \in Requests, Sound(r), q.op = r.op, q.target = r.target,
         q.form = r.form, q.actor = r.actor
  PROVE  Sent(q)
BY DEF Sound, Sent

LEMMA WriterSound ==
  ASSUME NEW q \in Requests, Sent(q), q.at = "update", q.op \in Writes, q.void = {},
         q.login = q.target, q.row \in Row, q.fresh => Asked(q, users[q.login], q.row)
  PROVE  Sound(q)
BY DEF Sound, Placed, Writing, Voided, Writes, SessionSteps, Commands

LEMMA DeleterSound ==
  ASSUME NEW q \in Requests, Sent(q), q.at = "delete", q.op \in Deletes, q.void = {},
         q.login = q.target, q.op = "deleteUser" => q.actor # q.target
  PROVE  Sound(q)
BY DEF Sound, Placed, Writing, Voided, Deletes, SessionSteps, Commands

LEMMA WriterTypes ==
  ASSUME NEW r \in Requests, NEW l \in Logins, NEW f \in BOOLEAN, NEW row \in Row
  PROVE  /\ [r EXCEPT !.at = "update", !.login = l, !.fresh = f, !.row = row] \in Requests
         /\ [r EXCEPT !.at = "update", !.login = l, !.row = row] \in Requests
<1>1. [r EXCEPT !.at = "update", !.login = l, !.row = row] \in Requests
  BY ZenonT(60) DEF Requests
<1>2. [r EXCEPT !.at = "update", !.login = l, !.fresh = f, !.row = row]
        = [[r EXCEPT !.at = "update", !.login = l, !.row = row] EXCEPT !.fresh = f]
  BY DEF Requests
<1>3. ASSUME NEW q \in Requests PROVE [q EXCEPT !.fresh = f] \in Requests
  BY DEF Requests
<1> QED BY <1>1, <1>2, <1>3

LEMMA DeleterTypes ==
  ASSUME NEW r \in Requests, NEW l \in Logins
  PROVE  /\ [r EXCEPT !.at = "delete", !.login = l, !.fresh = TRUE] \in Requests
         /\ [r EXCEPT !.at = "delete", !.login = l] \in Requests
<1>1. [r EXCEPT !.at = "delete", !.login = l, !.fresh = TRUE] \in Requests
  BY ZenonT(60) DEF Requests
<1>2. [r EXCEPT !.at = "delete", !.login = l] \in Requests
  BY ZenonT(60) DEF Requests
<1> QED BY <1>1, <1>2

LEMMA ReadsInv ==
  ASSUME AInv, phase' = phase, NEW c \in Clients,
         Read(c) \/ CreateUserToken(c) \/ Fail(c)
  PROVE  AInv'
<1>1. CASE Read(c) \/ Fail(c)
  BY <1>1, EndsInv DEF Read, Fail
<1>2. CASE CreateUserToken(c)
  <2>1. /\ Finish(c) /\ issued' \subseteq Tokens
        /\ UNCHANGED <<users, revoked, sessions, given, ended, excused>>
    BY <1>2 DEF CreateUserToken, NewToken, rows, history, AInv, TInv
  <2> QED BY <2>1, FinishInv
<1> QED BY <1>1, <1>2

LEMMA AddUserInv ==
  ASSUME AInv, phase' = phase, NEW c \in Clients, Serving \/ req[c].op \in Commands, AddUser(c)
  PROVE  AInv'
<1>1. PICK r \in Requests : r = req[c] /\ Sound(r)
  BY TheRequest
<1>2. r.at = "handle" /\ r.op = "addUser" /\ OnlyRequests
  BY <1>1 DEF AddUser, At
<1>3. CASE users[r.target] # None
  BY <1>1, <1>3, EndsInv DEF AddUser, Get
<1>4. CASE users[r.target] = None
  <2> DEFINE row == [admin |-> r.form.admin, pass |-> r.form.pass]
  <2>1. r.target \in Logins /\ row \in Row
    BY <1>1, <1>2 DEF Sound, Sent, Writes, Settings, Form, Row
  <2>2. PICK q \in Requests : q = [r EXCEPT !.at = "update", !.login = r.target, !.fresh = TRUE,
                                            !.row = row]
    BY <2>1, WriterTypes
  <2>3. Go(c, q)
    BY <1>1, <1>4, <2>2 DEF AddUser, Get
  <2>4. q.at = "update" /\ q.op = r.op /\ q.by = r.by /\ q.target = r.target
        /\ q.form = r.form /\ q.actor = r.actor /\ q.login = r.target /\ q.row = row
        /\ q.void = {}
    BY <1>1, <1>2, <2>2, HandledIsValid DEF Requests
  <2>5. Asked(q, users[q.login], q.row)
    BY <1>2, <1>4, <2>4 DEF Asked
  <2>6. Sound(q)
    BY <1>1, <1>2, <2>1, <2>4, <2>5, SentAgain, WriterSound DEF Writes
  <2> QED BY <1>1, <1>2, <2>3, <2>4, <2>6, StepInv
<1> QED BY <1>3, <1>4

LEMMA DeleteUserInv ==
  ASSUME AInv, phase' = phase, NEW c \in Clients, Serving \/ req[c].op \in Commands,
         DeleteUser(c) \/ UserAdminRemove(c)
  PROVE  AInv'
<1>1. PICK r \in Requests : r = req[c] /\ Sound(r)
  BY TheRequest
<1>2. r.at = "handle" /\ r.op \in Deletes /\ OnlyRequests
  BY <1>1 DEF DeleteUser, UserAdminRemove, At, Deletes
<1>3. r.target \in Logins
  BY <1>1, <1>2 DEF Sound, Sent
<1>4. CASE Finish(c)
  BY <1>2, <1>4, EndsInv
<1>5. CASE DeleteUser(c) /\ ~Finish(c)
  <2>1. r.op = "deleteUser" /\ r.login # r.target
    BY <1>1, <1>5 DEF DeleteUser, MayDelete
  <2>2. r.login = r.actor
    BY <1>1, <1>2, <2>1 DEF Sound, Placed, TokenOps, AdminOps
  <2>3. PICK q \in Requests : q = [r EXCEPT !.at = "delete", !.login = r.target, !.fresh = TRUE]
    BY <1>3, DeleterTypes
  <2>4. Go(c, q)
    BY <1>1, <1>5, <2>3 DEF DeleteUser
  <2>5. q.at = "delete" /\ q.op = r.op /\ q.by = r.by /\ q.target = r.target
        /\ q.form = r.form /\ q.actor = r.actor /\ q.login = r.target /\ q.void = {}
    BY <1>1, <1>2, <2>3, HandledIsValid DEF Requests
  <2>6. Sound(q)
    BY <1>1, <1>2, <2>1, <2>2, <2>5, SentAgain, DeleterSound
  <2> QED BY <1>1, <1>2, <2>4, <2>5, <2>6, StepInv
<1>6. CASE UserAdminRemove(c) /\ ~Finish(c)
  <2>1. r.op = "remove"
    BY <1>1, <1>6 DEF UserAdminRemove
  <2>2. PICK q \in Requests : q = [r EXCEPT !.at = "delete", !.login = r.target]
    BY <1>3, DeleterTypes
  <2>3. Go(c, q)
    BY <1>1, <1>6, <2>2 DEF UserAdminRemove
  <2>4. q.at = "delete" /\ q.op = r.op /\ q.by = r.by /\ q.target = r.target
        /\ q.form = r.form /\ q.actor = r.actor /\ q.login = r.target /\ q.void = {}
    BY <1>1, <1>2, <2>2, HandledIsValid DEF Requests
  <2>5. Sound(q)
    BY <1>1, <1>2, <2>1, <2>4, SentAgain, DeleterSound
  <2> QED BY <1>1, <1>2, <2>3, <2>4, <2>5, StepInv
<1> QED BY <1>4, <1>5, <1>6

LEMMA SetSettingInv ==
  ASSUME AInv, phase' = phase, NEW c \in Clients, Serving \/ req[c].op \in Commands,
         SetSetting(c)
  PROVE  AInv'
<1>1. PICK r \in Requests : r = req[c] /\ Sound(r)
  BY TheRequest
<1>2. r.at = "handle" /\ r.op \in Settings /\ OnlyRequests
  BY <1>1 DEF SetSetting, At, Settings
<1> DEFINE u == SettingUser(r)
           row == IF r.form = Profile THEN u.row ELSE WithPassword(u.row, r.form.pass)
<1>3. CASE Finish(c)
  BY <1>2, <1>3, EndsInv
<1>4. CASE ~Finish(c)
  <2>1. u.row # None
    BY <1>1, <1>4 DEF SetSetting
  <2>2. /\ r.target \in Logins
        /\ r.form.pass \in Passwords \/ r.form = Profile
        /\ r.op = "setSetting" => r.target = r.actor
    BY <1>1, <1>2 DEF Sound, Sent, Settings, Writes
  <2>3. r.login = r.actor /\ r.actor \in Logins /\ r.row \in Row
        /\ (r.fresh => users[r.login] = r.row)
    BY <1>1, <1>2 DEF Sound, Placed, Settings, TokenOps, AdminOps
  <2>4. /\ u.login = r.target /\ u.login \in Logins /\ u.row \in Row /\ u.fresh \in BOOLEAN
        /\ u.fresh => users[u.login] = u.row
    <3>1. CASE r.op = "setSetting"
      <4>1. u = [login |-> r.login, row |-> r.row, fresh |-> r.fresh]
        BY <3>1 DEF SettingUser
      <4>2. r.fresh \in BOOLEAN
        BY DEF Requests
      <4> QED BY <2>2, <2>3, <3>1, <4>1, <4>2
    <3>2. CASE r.op = "setUserSetting"
      <4>1. u = [login |-> r.target, row |-> users[r.target], fresh |-> TRUE]
        BY <3>2 DEF SettingUser, Get
      <4>2. r.target \in Logins
        BY <1>1, <1>2 DEF Sound, Sent, Settings, Writes
      <4> QED BY <2>1, <4>1, <4>2 DEF AInv, TInv
    <3> QED BY <1>2, <3>1, <3>2 DEF Settings
  <2>5. row \in Row
    BY <2>2, <2>4 DEF WithPassword, Row
  <2>6. PICK q \in Requests : q = [r EXCEPT !.at = "update", !.login = u.login, !.fresh = u.fresh,
                                            !.row = row]
    BY <2>4, <2>5, WriterTypes
  <2>7. Go(c, q)
    BY <1>1, <1>4, <2>6 DEF SetSetting
  <2>8. q.at = "update" /\ q.op = r.op /\ q.by = r.by /\ q.target = r.target
        /\ q.form = r.form /\ q.actor = r.actor /\ q.login = u.login /\ q.row = row
        /\ q.fresh = u.fresh /\ q.void = {}
    BY <1>1, <1>2, <2>6, HandledIsValid DEF Requests
  <2>9. q.fresh => Asked(q, users[q.login], q.row)
    <3> SUFFICES ASSUME q.fresh PROVE Asked(q, u.row, row)
      BY <2>4, <2>8
    <3>1. row = [u.row EXCEPT !.pass = IF q.form = Profile THEN @ ELSE q.form.pass]
      BY <2>4, <2>8 DEF WithPassword, Row
    <3>2. u.row # None /\ q.op \in {"setSetting", "setUserSetting"}
      BY <1>2, <2>1, <2>8 DEF Settings
    <3> HIDE DEF row, u
    <3> QED BY <3>1, <3>2 DEF Asked
  <2>10. Sound(q)
    BY <1>1, <1>2, <2>4, <2>5, <2>8, <2>9, SentAgain, WriterSound DEF Writes, Settings
  <2> QED BY <1>1, <1>2, <2>7, <2>8, <2>10, StepInv
<1> QED BY <1>3, <1>4

LEMMA UserAdminInv ==
  ASSUME AInv, phase' = phase, NEW c \in Clients, Serving \/ req[c].op \in Commands,
         UserAdminAdd(c) \/ UserAdminSet(c)
  PROVE  AInv'
<1>1. PICK r \in Requests : r = req[c] /\ Sound(r)
  BY TheRequest
<1>2. r.at = "handle" /\ r.op \in {"add", "set"} /\ OnlyRequests
  BY <1>1 DEF UserAdminAdd, UserAdminSet, At
<1>3. r.target \in Logins /\ r.form \in Form /\ r.form.pass \in Passwords
  BY <1>1, <1>2 DEF Sound, Sent, Writes, Settings
<1>4. ASSUME NEW row \in Row,
             Go(c, [r EXCEPT !.at = "update", !.login = r.target, !.row = row]),
             \A q \in Requests : q.op = r.op /\ q.form = r.form => Asked(q, users[r.target], row)
      PROVE  AInv'
  <2>1. PICK q \in Requests : q = [r EXCEPT !.at = "update", !.login = r.target, !.row = row]
    BY <1>3, WriterTypes
  <2>2. q.at = "update" /\ q.op = r.op /\ q.by = r.by /\ q.target = r.target
        /\ q.form = r.form /\ q.actor = r.actor /\ q.login = r.target /\ q.row = row
        /\ q.void = {}
    BY <1>1, <1>2, <2>1, HandledIsValid DEF Requests
  <2>3. Sound(q)
    BY <1>1, <1>2, <1>4, <2>2, SentAgain, WriterSound DEF Writes
  <2> QED BY <1>1, <1>2, <1>4, <2>1, <2>2, <2>3, StepInv
<1>5. CASE UserAdminAdd(c)
  <2> DEFINE row == [admin |-> FALSE, pass |-> r.form.pass]
  <2>1. row \in Row /\ r.op = "add"
    BY <1>1, <1>3, <1>5 DEF Row, UserAdminAdd
  <2>2. Go(c, [r EXCEPT !.at = "update", !.login = r.target, !.row = row])
    BY <1>1, <1>5 DEF UserAdminAdd
  <2>3. \A q \in Requests : q.op = r.op /\ q.form = r.form => Asked(q, users[r.target], row)
    BY <2>1 DEF Asked
  <2> QED BY <1>4, <2>1, <2>2, <2>3
<1>6. CASE UserAdminSet(c)
  <2> DEFINE user == users[r.target]
  <2>1. r.op = "set"
    BY <1>1, <1>6 DEF UserAdminSet
  <2>2. CASE user = None
    BY <1>1, <1>2, <1>6, <2>2, EndsInv DEF UserAdminSet, Get
  <2>3. CASE user # None
    <3>1. user \in Row /\ r.form.admin \in BOOLEAN
      BY <1>3, <2>3 DEF AInv, TInv, Form
    <3>2. PICK row \in {[user EXCEPT !.admin = r.form.admin], WithPassword(user, r.form.pass)} :
            Go(c, [r EXCEPT !.at = "update", !.login = r.target, !.row = row])
      BY <1>1, <1>6, <2>3 DEF UserAdminSet, Get
    <3>3. row \in Row /\ (row.admin = user.admin \/ row.pass = user.pass)
      BY <1>3, <3>1 DEF Row, WithPassword
    <3>4. \A q \in Requests : q.op = r.op /\ q.form = r.form => Asked(q, user, row)
      BY <2>1, <2>3, <3>3 DEF Asked
    <3> QED BY <1>4, <3>2, <3>3, <3>4
  <2> QED BY <2>2, <2>3
<1> QED BY <1>5, <1>6

-----------------------------------------------------------------------------
(* Logins and sessions.                                                    *)
LEMMA AuthenticateInv ==
  ASSUME AInv, phase' = phase, NEW c \in Clients, Serving \/ req[c].op \in Commands,
         Authenticate(c)
  PROVE  AInv'
<1>1. PICK r \in Requests : r = req[c] /\ Sound(r)
  BY TheRequest
<1>2. CASE Finish(c)
  <2>1. /\ issued' \subseteq Tokens
        /\ UNCHANGED <<users, revoked, sessions, given, ended, excused>>
    BY <1>2 DEF Authenticate, NewToken, OnlyRequests, rows, clients, history, AInv, TInv
  <2> QED BY <1>2, <2>1, FinishInv
<1>3. CASE ~Finish(c)
  <2>1. /\ r.at = "authenticate" /\ r.op = "login" /\ OnlyRequests
        /\ Go(c, [r EXCEPT !.at = "newSession"])
    BY <1>1, <1>3 DEF Authenticate, At, NextStep
  <2>2. PICK q \in Requests : q = [r EXCEPT !.at = "newSession"]
    BY MoveTo
  <2>3. q.at = "newSession" /\ q.op = r.op /\ q.by = r.by /\ q.target = r.target
        /\ q.form = r.form /\ q.actor = r.actor /\ q.void = r.void
    BY <2>2, MoveTo
  <2>4. Sound(q)
    BY <1>1, <2>1, <2>3 DEF Sound, Sent, Placed, Writing, Voided, Logons, Commands, SessionSteps
  <2> QED BY <1>1, <2>1, <2>2, <2>3, <2>4, StepInv
<1> QED BY <1>2, <1>3

LEMMA SessionInv ==
  ASSUME AInv, phase' = phase, NEW c \in Clients, Serving \/ req[c].op \in Commands,
         GetSession(c) \/ SessionUser(c)
  PROVE  AInv'
<1>1. PICK r \in Requests : r = req[c] /\ Sound(r)
  BY TheRequest
<1>2. CASE Finish(c)
  BY <1>2, EndsInv DEF GetSession, SessionUser
<1>3. CASE GetSession(c) /\ ~Finish(c)
  <2>1. /\ r.at = "session" /\ OnlyRequests /\ sessions[r.by] # None
        /\ Go(c, [r EXCEPT !.at = "sessionUser", !.actor = sessions[r.by]])
    BY <1>1, <1>3 DEF GetSession, At
  <2>2. r.op \in SessionOps /\ r.by \in given /\ r.by \in Sids
    BY <1>1, <2>1 DEF Sound, Placed, SessionSteps, AInv, TInv
  <2>3. sessions[r.by] \in Logins /\ r.by \notin ended
    BY <2>1, <2>2 DEF AInv, TInv, Over
  <2>4. PICK q \in Requests : q = [r EXCEPT !.at = "sessionUser", !.actor = sessions[r.by]]
    <3>1. [r EXCEPT !.at = "sessionUser", !.actor = sessions[r.by]] \in Requests
      BY <2>3 DEF Requests, SessionSteps
    <3> QED BY <3>1
  <2>5. q.at = "sessionUser" /\ q.op = r.op /\ q.by = r.by /\ q.target = r.target
        /\ q.form = r.form /\ q.actor = sessions[r.by] /\ q.void = r.void
    BY <2>4 DEF Requests
  <2>6. Sound(q)
    BY <1>1, <2>1, <2>2, <2>3, <2>5
    DEF Sound, Sent, Placed, Writing, Voided, Logons, Commands, TokenOps, AdminOps, SessionOps,
        SessionSteps, Writes, Deletes
  <2>7. /\ UNCHANGED <<users, revoked, sessions, given, ended, excused>>
        /\ issued' \subseteq Tokens
    BY <2>1 DEF OnlyRequests, rows, clients, history, AInv, TInv
  <2> QED BY <1>1, <2>1, <2>3, <2>4, <2>5, <2>6, <2>7, GoInv
<1>4. CASE SessionUser(c) /\ ~Finish(c)
  <2>1. /\ r.at = "sessionUser" /\ OnlyRequests
        /\ Go(c, [r EXCEPT !.at = "setSession"])
    BY <1>1, <1>4 DEF SessionUser, At, NextStep
  <2>2. PICK q \in Requests : q = [r EXCEPT !.at = "setSession"]
    BY MoveTo
  <2>3. q.at = "setSession" /\ q.op = r.op /\ q.by = r.by /\ q.target = r.target
        /\ q.form = r.form /\ q.actor = r.actor /\ q.void = r.void
    BY <2>2, MoveTo
  <2>4. Sound(q)
    BY <1>1, <2>1, <2>3
    DEF Sound, Sent, Placed, Writing, Voided, Logons, Commands, SessionOps, SessionSteps
  <2> QED BY <1>1, <2>1, <2>2, <2>3, <2>4, StepInv
<1> QED BY <1>2, <1>3, <1>4

LEMMA SetSessionInv ==
  ASSUME AInv, phase' = phase, NEW c \in Clients, Serving \/ req[c].op \in Commands,
         SetSession(c)
  PROVE  AInv'
<1>1. PICK r \in Requests : r = req[c] /\ Sound(r)
  BY TheRequest
<1>2. /\ r.at = "setSession" /\ Go(c, [r EXCEPT !.at = "handle"])
      /\ sessions' = [sessions EXCEPT ![r.by] = r.actor]
      /\ UNCHANGED <<users, revoked, issued, given, ended, excused>>
  BY <1>1 DEF SetSession, At, NextStep, rows, clients, history
<1>3. r.op \in SessionOps /\ r.by \in given /\ r.by \in Sids /\ r.actor \in Logins
  BY <1>1, <1>2 DEF Sound, Placed, SessionSteps, AInv, TInv
<1>4. r.by \notin ended
  BY <1>1, <1>2, <1>3 DEF AInv, Over
<1>5. PICK q \in Requests : q = [r EXCEPT !.at = "handle"]
  BY MoveTo
<1>6. q.at = "handle" /\ q.op = r.op /\ q.by = r.by /\ q.target = r.target
      /\ q.form = r.form /\ q.actor = r.actor /\ q.void = r.void
  BY <1>5, MoveTo
<1>7. Sound(q)
  BY <1>1, <1>2, <1>3, <1>6
  DEF Sound, Sent, Placed, Writing, Voided, Logons, Commands, TokenOps, AdminOps, SessionOps,
      SessionSteps
<1>8. \A d \in Clients : req'[d] = IF d = c THEN q ELSE req[d]
  BY <1>2, <1>5 DEF Go, AInv, TInv
<1>9. TInv'
  BY <1>2, <1>3, <1>5 DEF AInv, TInv, Go
<1>10. \A p \in Requests : Sound(p)' <=> Sound(p)
  BY <1>2 DEF Sound, Sent, Placed, Writing, Voided, Asked
<1>11. Requested'
  BY <1>7, <1>8, <1>10 DEF AInv, Requested
<1>12. Over'
  BY <1>2, <1>3, <1>4, <1>6, <1>8 DEF AInv, Over, TInv
<1>13. Quiet' /\ Manned'
  BY <1>1, <1>2, <1>6, <1>8 DEF AInv, Quiet, Manned, Serving, AnyAdmin
<1> QED BY <1>9, <1>11, <1>12, <1>13 DEF AInv

LEMMA ExpireInv ==
  ASSUME AInv, phase' = phase, NEW s \in Sids, Expire(s)
  PROVE  AInv'
<1>1. /\ sessions' = [sessions EXCEPT ![s] = None]
      /\ UNCHANGED <<users, revoked, req, issued, given, ended, excused>>
  BY DEF Expire, rows, clients, history
<1>2. TInv' /\ Over'
  BY <1>1 DEF AInv, TInv, Over
<1>3. \A p \in Requests : Sound(p)' <=> Sound(p)
  BY <1>1 DEF Sound, Sent, Placed, Writing, Voided, Asked
<1>4. Requested' /\ Quiet' /\ Manned'
  BY <1>1, <1>3 DEF AInv, Requested, Quiet, Manned, Serving, AnyAdmin
<1> QED BY <1>2, <1>4 DEF AInv

(* The end of a request that leaves others with less.                      *)
LEMMA LeavesInv ==
  ASSUME AInv, phase' = phase, NEW c \in Clients, Finish(c), UNCHANGED <<users, excused>>,
         given \subseteq given', ended \subseteq ended', TInv', Over'
  PROVE  AInv'
<1>1. \A d \in Clients : req'[d] = IF d = c THEN Idle ELSE req[d]
  BY DEF Finish, Go, AInv, TInv
<1>2. \A p \in Requests : Sound(p) => Sound(p)'
  BY DEF Sound, Sent, Placed, Writing, Voided, Asked
<1>3. Requested'
  BY <1>1, <1>2, IdleSound DEF AInv, Requested
<1>4. Quiet' /\ Manned'
  BY <1>1 DEF AInv, Quiet, Manned, Serving, AnyAdmin
<1> QED BY <1>3, <1>4 DEF AInv

LEMMA NewSessionInv ==
  ASSUME AInv, phase' = phase, NEW c \in Clients, NewSession(c)
  PROVE  AInv'
<1>1. PICK r \in Requests : r = req[c] /\ Sound(r)
  BY TheRequest
<1>2. /\ Finish(c) /\ UNCHANGED <<users, revoked, issued, ended, excused>>
      /\ r.actor \in Logins
  BY <1>1 DEF NewSession, At, rows, history, Sound, Placed
<1>3. \/ UNCHANGED <<sessions, given>>
      \/ \E s \in Sids \ given : /\ sessions' = [sessions EXCEPT ![s] = r.actor]
                                 /\ given' = given \cup {s}
  BY <1>1 DEF NewSession
<1>4. \A d \in Clients : req'[d] = IF d = c THEN Idle ELSE req[d]
  BY <1>2 DEF Finish, Go, AInv, TInv
<1>5. Idle.by = None /\ None \notin Sids
  BY NoneAssumption DEF Idle
<1>6. TInv'
  BY <1>2, <1>3, IdleSound DEF AInv, TInv, Finish, Go
<1>7. given \subseteq given' /\ Over'
  BY <1>2, <1>3, <1>4, <1>5 DEF AInv, TInv, Over
<1> QED BY <1>2, <1>6, <1>7, LeavesInv

LEMMA TokenDeleteInv ==
  ASSUME AInv, phase' = phase, NEW c \in Clients, TokenDelete(c)
  PROVE  AInv'
<1>1. PICK r \in Requests : r = req[c] /\ Sound(r)
  BY TheRequest
<1>2. /\ Finish(c) /\ UNCHANGED <<users, sessions, issued, given, excused>>
      /\ revoked' = revoked \cup {r.by} /\ ended' = ended \cup {r.by}
      /\ r.by \in Tokens /\ r.by \notin Sids
  BY <1>1, CredentialsAssumption DEF TokenDelete, At, clients, Sound, Placed
<1>3. \A d \in Clients : req'[d] = IF d = c THEN Idle ELSE req[d]
  BY <1>2 DEF Finish, Go, AInv, TInv
<1>4. Idle.by = None /\ None \notin Sids
  BY NoneAssumption DEF Idle
<1>5. TInv'
  BY <1>2, IdleSound DEF AInv, TInv, Finish, Go
<1>6. Over'
  BY <1>2, <1>3, <1>4 DEF AInv, TInv, Over
<1> QED BY <1>2, <1>5, <1>6, LeavesInv

LEMMA LogoutInv ==
  ASSUME AInv, phase' = phase, NEW c \in Clients, Logout(c)
  PROVE  AInv'
<1>1. PICK r \in Requests : r = req[c] /\ Sound(r)
  BY TheRequest
<1>2. /\ Finish(c) /\ UNCHANGED <<users, revoked, issued, given, excused>>
      /\ sessions' = [sessions EXCEPT ![r.by] = None]
      /\ ended' = ended \cup
           {s \in {r.by} : \A d \in Clients \ {c} : req[d].by # s \/ req[d].at = "session"}
  BY <1>1 DEF Logout, rows, clients
<1>3. r.by \in given /\ r.by \in Sids /\ r.by \notin Tokens
  BY <1>1, CredentialsAssumption DEF Logout, At, SessionOps, Sound, Placed, AInv, TInv
<1>4. \A d \in Clients : req'[d] = IF d = c THEN Idle ELSE req[d]
  BY <1>2 DEF Finish, Go, AInv, TInv
<1>5. Idle.by = None /\ None \notin Sids
  BY NoneAssumption DEF Idle
<1>6. TInv'
  BY <1>2, <1>3, IdleSound DEF AInv, TInv, Finish, Go
<1>7. Over'
  <2>1. ended' \cap Tokens \subseteq revoked'
    BY <1>2, <1>3 DEF AInv, Over
  <2>2. ASSUME NEW s \in ended' \cap Sids
        PROVE  /\ s \in given' /\ sessions'[s] = None
               /\ \A d \in Clients : req'[d].by = s => req'[d].at = "session"
    <3>1. CASE s \in ended
      BY <1>2, <1>4, <1>5, <3>1 DEF AInv, TInv, Over
    <3>2. CASE s \notin ended
      BY <1>2, <1>3, <1>4, <1>5, <3>2 DEF AInv, TInv
    <3> QED BY <3>1, <3>2
  <2> QED BY <2>1, <2>2 DEF Over
<1> QED BY <1>2, <1>6, <1>7, LeavesInv

-----------------------------------------------------------------------------
(* The rows of users.                                                      *)
LEMMA OthersTypes ==
  ASSUME NEW p \in Requests, NEW f \in BOOLEAN, NEW v \in SUBSET {"revoked", "gone"}
  PROVE  [p EXCEPT !.fresh = f, !.void = v] \in Requests
<1>1. [p EXCEPT !.void = v] \in Requests
  BY DEF Requests
<1>2. \A q \in Requests : [q EXCEPT !.fresh = f] \in Requests
  BY DEF Requests
<1>3. [p EXCEPT !.fresh = f, !.void = v] = [[p EXCEPT !.void = v] EXCEPT !.fresh = f]
  BY DEF Requests
<1> QED BY <1>1, <1>2, <1>3

LEMMA WriteInv ==
  ASSUME AInv, phase' = phase, NEW c \in Clients, NEW login \in Logins,
         NEW row \in Row \cup {None}, Write(c, login, row), excused' \in BOOLEAN, Manned'
  PROVE  AInv'
<1>1. /\ users' = [users EXCEPT ![login] = row]
      /\ UNCHANGED <<revoked, sessions, issued, given, ended>>
      /\ req' = [d \in Clients |->
           IF d = c THEN Idle
           ELSE [req[d] EXCEPT !.fresh = IF req[d].login = login THEN FALSE ELSE @,
                               !.void = IF row # None /\ req[d].actor = login
                                        THEN @ \ {"gone"} ELSE @]]
  BY DEF Write, clients
<1>2. \A l \in Logins : users'[l] = IF l = login THEN row ELSE users[l]
  BY <1>1 DEF AInv, TInv
<1>3. ASSUME NEW d \in Clients, d # c
      PROVE  \E q \in Requests :
               /\ q = req'[d] /\ Sound(q)'
               /\ q.by = req[d].by /\ q.at = req[d].at /\ q.op = req[d].op
               /\ req[d] = Idle => q = Idle
  <2>1. PICK p \in Requests : p = req[d] /\ Sound(p)
    BY TheRequest
  <2>2. PICK v \in SUBSET {"revoked", "gone"} :
          v = IF row # None /\ p.actor = login THEN p.void \ {"gone"} ELSE p.void
    BY DEF Requests
  <2>3. PICK f \in BOOLEAN : f = IF p.login = login THEN FALSE ELSE p.fresh
    BY DEF Requests
  <2>4. PICK q \in Requests : q = [p EXCEPT !.fresh = f, !.void = v]
    BY OthersTypes
  <2>5. /\ q.at = p.at /\ q.op = p.op /\ q.by = p.by /\ q.target = p.target /\ q.form = p.form
        /\ q.actor = p.actor /\ q.login = p.login /\ q.row = p.row
        /\ q.void = v /\ q.fresh = f
    BY <2>4 DEF Requests
  <2>6. q = req'[d]
    BY <1>1, <1>3, <2>1, <2>2, <2>3, <2>4
  <2>7. p = Idle => q = Idle
    <3>1. p = Idle => p.login # login /\ p.actor # login
      BY NoneAssumption DEF Idle
    <3>2. p = Idle => f = p.fresh /\ v = p.void
      BY <2>2, <2>3, <3>1
    <3>3. p = Idle => [p EXCEPT !.fresh = f, !.void = v] = p
      BY <3>2, ZenonT(60) DEF Requests
    <3> QED BY <2>4, <3>3
  <2>8. \A before, after : Asked(p, before, after) => Asked(q, before, after)
    BY <2>5 DEF Asked
  <2>9. q.fresh => p.fresh /\ p.login # login
    BY <2>3, <2>5
  <2>10. Sent(q)' /\ Placed(q)'
    <3>1. Sent(q)'
      BY <2>1, <2>5 DEF Sound, Sent
    <3>2. Placed(q)'
      <4>1. Placed(p)
        BY <2>1 DEF Sound
      <4>2. p.at = "handle" /\ p.op \in TokenOps /\ q.fresh => users'[q.login] = q.row
        BY <1>2, <2>5, <2>9, <4>1 DEF Placed
      <4>3. q.op = "none" => q = Idle
        BY <2>5, <2>7, <4>1 DEF Placed
      <4> QED BY <1>1, <2>5, <4>1, <4>2, <4>3 DEF Placed
    <3> QED BY <3>1, <3>2
  <2>11. Writing(q)'
    <3>1. q.at \in {"update", "delete"} => q.login = q.target /\ q.login \in Logins
      BY <2>1, <2>5 DEF Sound, Writing, Sent
    <3>2. q.fresh /\ q.at = "update" => users'[q.login] = users[p.login]
      BY <1>2, <2>5, <2>9, <3>1
    <3>3. q.at = "update" /\ q.fresh => Asked(q, users'[q.login], q.row)
      BY <2>1, <2>5, <2>8, <2>9, <3>2 DEF Sound, Writing
    <3> QED BY <2>1, <2>5, <3>3 DEF Sound, Writing
  <2>12. Voided(q)'
    <3>1. "gone" \in q.void => /\ "gone" \in p.void /\ p.actor \in Logins
                               /\ ~(row # None /\ p.actor = login)
      BY <2>1, <2>2, <2>5 DEF Sound, Voided, Placed
    <3>2. "revoked" \in q.void => "revoked" \in p.void
      BY <2>2, <2>5
    <3>3. Voided(p)
      BY <2>1 DEF Sound
    <3>4. "gone" \in q.void => users'[q.actor] = None
      BY <1>2, <2>5, <3>1, <3>3 DEF Voided
    <3> QED BY <1>1, <2>5, <3>1, <3>2, <3>3, <3>4 DEF Voided
  <2> QED BY <2>1, <2>5, <2>6, <2>7, <2>10, <2>11, <2>12 DEF Sound
<1>4. req'[c] = Idle /\ Idle \in Requests /\ Sound(Idle)'
  <2>1. Sound(Idle)'
    <3>1. /\ Idle.op = "none" /\ Idle.at = "done" /\ Idle.void = {}
      BY DEF Idle
    <3> QED BY <3>1 DEF Sound, Sent, Placed, Writing, Voided, Writes, Deletes, SessionSteps, Commands
  <2> QED BY <1>1, <2>1, IdleSound
<1>5. TInv'
  <2>1. req' \in [Clients -> Requests]
    <3>1. \A d \in Clients : req'[d] \in Requests
      BY <1>3, <1>4
    <3> QED BY <1>1, <3>1
  <2> QED BY <1>1, <2>1 DEF AInv, TInv
<1>6. Requested'
  BY <1>3, <1>4 DEF Requested
<1>7. Over'
  <2>1. Idle.by = None /\ None \notin Sids
    BY NoneAssumption DEF Idle
  <2>2. \A d \in Clients : d # c => req'[d].by = req[d].by /\ req'[d].at = req[d].at
    BY <1>3
  <2>3. ended = ended' /\ given = given' /\ sessions = sessions' /\ revoked = revoked'
    BY <1>1
  <2> QED BY <1>4, <2>1, <2>2, <2>3 DEF AInv, Over
<1>8. Quiet'
  BY <1>3, <1>4 DEF AInv, Quiet, Serving
<1> QED BY <1>5, <1>6, <1>7, <1>8 DEF AInv

LEMMA UpdateInv ==
  ASSUME AInv, phase' = phase, NEW c \in Clients, Serving \/ req[c].op \in Commands, Update(c)
  PROVE  AInv'
<1>1. PICK r \in Requests : r = req[c] /\ Sound(r)
  BY TheRequest
<1>2. /\ r.at = "update" /\ Write(c, r.login, r.row)
      /\ excused' = (excused \/ ~r.fresh \/ r.op \in Commands)
  BY <1>1 DEF Update, At
<1>3. /\ r.op \in Writes /\ r.login = r.target /\ r.login \in Logins /\ r.row \in Row
      /\ r.fresh => Asked(r, users[r.login], r.row)
  BY <1>1, <1>2 DEF Sound, Writing, Sent
<1>4. excused' \in BOOLEAN
  BY <1>2 DEF AInv, TInv, Requests
<1>5. \A l \in Logins : users'[l] = IF l = r.login THEN r.row ELSE users[l]
  BY <1>2, <1>3 DEF Write, AInv, TInv
<1>6. Manned'
  <2> SUFFICES ASSUME ~excused' PROVE AnyAdmin'
    BY DEF Manned
  <2>1. r.fresh /\ r.op \notin Commands /\ AnyAdmin
    BY <1>1, <1>2 DEF AInv, Manned, Serving
  <2>2. PICK l \in Logins : users[l] # None /\ users[l].admin
    BY <2>1 DEF AnyAdmin
  <2>3. CASE l # r.login
    BY <1>5, <2>2, <2>3 DEF AnyAdmin
  <2>4. CASE l = r.login
    <3>1. r.op # "addUser"
      BY <1>3, <2>1, <2>2, <2>4 DEF Asked
    <3>2. r.op \in {"setSetting", "setUserSetting"}
      BY <1>3, <2>1, <3>1 DEF Writes, Commands
    <3>3. r.row = [users[l] EXCEPT !.pass = IF r.form = Profile THEN @ ELSE r.form.pass]
      BY <1>3, <2>1, <2>4, <3>2 DEF Asked
    <3>4. users[l] \in Row
      BY <2>2 DEF AInv, TInv
    <3>5. r.row.admin /\ r.row # None
      BY <1>3, <2>2, <3>3, <3>4, NoneAssumption DEF Row
    <3> QED BY <1>3, <1>5, <3>5 DEF AnyAdmin
  <2> QED BY <2>3, <2>4
<1> QED BY <1>2, <1>3, <1>4, <1>6, WriteInv

LEMMA DeleteInv ==
  ASSUME AInv, phase' = phase, NEW c \in Clients, Serving \/ req[c].op \in Commands, Delete(c)
  PROVE  AInv'
<1>1. PICK r \in Requests : r = req[c] /\ Sound(r)
  BY TheRequest
<1>2. /\ r.at = "delete" /\ Write(c, r.login, None)
      /\ excused' = (excused \/ ~r.fresh \/ r.op = "remove"
                             \/ r.actor \notin All \/ ~users[r.actor].admin)
  BY <1>1 DEF Delete, At, Get
<1>3. /\ r.op \in Deletes /\ r.login = r.target /\ r.login \in Logins
      /\ r.op = "deleteUser" => r.actor # r.target
  BY <1>1, <1>2 DEF Sound, Writing, Sent
<1>4. excused' \in BOOLEAN
  BY <1>2 DEF AInv, TInv, Requests
<1>5. \A l \in Logins : users'[l] = IF l = r.login THEN None ELSE users[l]
  BY <1>2, <1>3 DEF Write, AInv, TInv
<1>6. Manned'
  <2> SUFFICES ASSUME ~excused' PROVE AnyAdmin'
    BY DEF Manned
  <2>1. /\ r.op = "deleteUser" /\ r.actor # r.login
        /\ r.actor \in Logins /\ users[r.actor] # None /\ users[r.actor].admin
    BY <1>2, <1>3 DEF Deletes, All
  <2> QED BY <1>5, <2>1 DEF AnyAdmin
<1> QED BY <1>2, <1>3, <1>4, <1>6, WriteInv

LEMMA HandleInv ==
  ASSUME AInv, phase' = phase, NEW c \in Clients, Serving \/ req[c].op \in Commands, Handle(c)
  PROVE  AInv'
BY ChecksInv, ReadsInv, AddUserInv, DeleteUserInv, SetSettingInv, UserAdminInv, UpdateInv,
   DeleteInv, AuthenticateInv, TokenDeleteInv, NewSessionInv, SessionInv, SetSessionInv,
   LogoutInv DEF Handle

-----------------------------------------------------------------------------
(* Starts and ends of the process.                                         *)
LEMMA PhaseInv ==
  ASSUME AInv, UNCHANGED accounts,
         phase' \in {"admin", "creating", "indexed", "serving"} =>
           phase \in {"admin", "creating", "indexed", "serving"},
         Serving => Serving'
  PROVE  AInv'
<1>1. UNCHANGED <<users, revoked, sessions, issued, given, req, ended, excused>>
  BY DEF accounts, rows, memory, clients, history
<1>2. \A p \in Requests : Sound(p)' <=> Sound(p)
  BY <1>1 DEF Sound, Sent, Placed, Writing, Voided, Asked
<1>3. TInv' /\ Requested' /\ Over'
  BY <1>1, <1>2 DEF AInv, TInv, Requested, Over
<1>4. Quiet' /\ Manned'
  BY <1>1 DEF AInv, Quiet, Manned, AnyAdmin
<1> QED BY <1>3, <1>4 DEF AInv

LEMMA InitAdminUserInv ==
  ASSUME AInv, InitAdminUser
  PROVE  AInv'
<1>1. /\ phase = "opened" /\ phase' = "admin"
      /\ UNCHANGED <<revoked, sessions, issued, given, req, ended, excused>>
      /\ users' = IF All = {} THEN [users EXCEPT !["admin"] = FirstUser] ELSE users
  BY DEF InitAdminUser, memory, clients, history
<1>2. FirstUser \in Row /\ FirstUser.admin /\ FirstUser # None
  <2>1. (CHOOSE p \in Passwords : TRUE) \in Passwords
    BY AdminAssumption
  <2>2. FirstUser \in Row /\ FirstUser.admin
    BY <2>1 DEF FirstUser, Row
  <2> QED BY <2>2, NoneAssumption
<1>3. TInv'
  BY <1>1, <1>2 DEF AInv, TInv
<1>4. Over'
  BY <1>1 DEF AInv, Over
<1>5. Quiet'
  BY <1>1 DEF AInv, Quiet, Serving
<1>6. Manned'
  <2>1. CASE All = {}
    <3>1. users'["admin"] = FirstUser /\ "admin" \in Logins
      BY <1>1, <2>1, AdminAssumption DEF AInv, TInv
    <3> QED BY <1>2, <3>1 DEF Manned, AnyAdmin
  <2>2. CASE All # {}
    BY <1>1, <2>2 DEF AInv, Manned, AnyAdmin, All
  <2> QED BY <2>1, <2>2
<1>7. Requested'
  <2> SUFFICES ASSUME NEW c \in Clients, NEW r \in Requests, req[c] = r
               PROVE  Sound(r)'
    BY <1>1 DEF Requested
  <2>1. Sound(r) /\ (r = Idle \/ r.op \in Commands)
    BY <1>1 DEF AInv, Requested, Quiet, Serving
  <2>2. CASE r = Idle
    <3>1. /\ r.op = "none" /\ r.at = "done" /\ r.void = {}
      BY <2>2 DEF Idle
    <3> QED BY <2>2, <3>1 DEF Sound, Sent, Placed, Writing, Voided, Writes, Deletes, SessionSteps,
                              Commands
  <2>3. CASE r.op \in Commands
    <3>1. r.at \in {"handle", "update", "delete"} /\ r.op \notin TokenOps
      BY <2>1, <2>3 DEF Sound, Placed, Commands, TokenOps, AdminOps
    <3>2. r.at = "update" /\ r.fresh => Asked(r, users'[r.login], r.row)
      <4> SUFFICES ASSUME r.at = "update", r.fresh PROVE Asked(r, users'[r.login], r.row)
        OBVIOUS
      <4>1. r.op \in {"add", "set"} /\ Asked(r, users[r.login], r.row) /\ r.login \in Logins
        BY <2>1, <2>3 DEF Sound, Writing, Sent, Writes, Commands
      <4>2. CASE r.op = "add"
        BY <4>1, <4>2 DEF Asked
      <4>3. CASE r.op = "set"
        <5>1. users[r.login] # None
          BY <4>1, <4>3 DEF Asked
        <5>2. All # {}
          BY <4>1, <5>1 DEF All
        <5> QED BY <1>1, <4>1, <5>2
      <4> QED BY <4>1, <4>2, <4>3
    <3>3. Writing(r)' /\ Voided(r)'
      BY <1>1, <2>1, <3>1, <3>2 DEF Sound, Writing, Voided
    <3>4. Sent(r)' /\ Placed(r)'
      BY <1>1, <2>1, <2>3, <3>1 DEF Sound, Sent, Placed
    <3> QED BY <3>3, <3>4 DEF Sound
  <2> QED BY <2>1, <2>2, <2>3
<1> QED BY <1>3, <1>4, <1>5, <1>6, <1>7 DEF AInv

LEMMA EndInv ==
  ASSUME AInv, End
  PROVE  AInv'
<1>1. /\ phase' = "down"
      /\ UNCHANGED <<users, issued, given, ended, excused, revoked>>
      /\ sessions' = [s \in Sids |-> None]
      /\ req' = [c \in Clients |-> IF req[c].op \in Commands THEN req[c] ELSE Idle]
  BY DEF End, EndRequests, IsCommand, RevokedOnDisk, clients, history
<1>2. TInv'
  BY <1>1, IdleSound DEF AInv, TInv
<1>3. \A p \in Requests : Sound(p)' <=> Sound(p)
  BY <1>1 DEF Sound, Sent, Placed, Writing, Voided, Asked
<1>4. Requested'
  BY <1>1, <1>3, IdleSound DEF AInv, Requested
<1>5. Over'
  <2>1. Idle.by = None /\ None \notin Sids
    BY NoneAssumption DEF Idle
  <2> QED BY <1>1, <2>1 DEF AInv, Over
<1>6. Quiet' /\ Manned'
  BY <1>1 DEF AInv, Quiet, Manned, AnyAdmin
<1> QED BY <1>2, <1>4, <1>5, <1>6 DEF AInv

LEMMA InitAInv == Init => AInv
<1> SUFFICES ASSUME Init PROVE AInv
  OBVIOUS
<1>1. PICK w \in Worlds :
        /\ phase = "down" /\ users = w.users /\ revoked = {}
        /\ excused = (All # {} /\ \A l \in All : ~users[l].admin)
        /\ sessions = [s \in Sids |-> None] /\ given = {} /\ ended = {}
        /\ issued = w.issued /\ req = [c \in Clients |-> Idle]
  BY DEF Init
<1>2. TInv
  <2>1. users \in [Logins -> Row \cup {None}] /\ issued \subseteq Tokens
    BY <1>1, WorldsAssumption
  <2>2. excused \in BOOLEAN
    BY <1>1
  <2> QED BY <1>1, <2>1, <2>2, IdleSound DEF TInv
<1>3. Requested /\ Over /\ Quiet
  BY <1>1, IdleSound DEF Requested, Over, Quiet
<1>4. Manned
  BY <1>1 DEF Manned, AnyAdmin, All
<1> QED BY <1>2, <1>3, <1>4 DEF AInv

LEMMA InitConfigured == Init => Configured
<1> SUFFICES ASSUME Init PROVE Configured
  OBVIOUS
<1>1. PICK w \in Worlds : conf = [path |-> w.conf, orig |-> "none"] /\ phase = "down"
  BY DEF Init
<1> QED BY <1>1, WorldsAssumption DEF Configured

LEMMA NextConfigured == Configured /\ [Next]_vars => Configured'
<1> SUFFICES ASSUME Configured, [Next]_vars PROVE Configured'
  OBVIOUS
<1>1. CASE ReadConfig
  BY <1>1 DEF Configured, ReadConfig, ConfigRead, IsLegacy
<1>2. CASE SaveLegacyConfig
  BY <1>2 DEF Configured, SaveLegacyConfig, ConvertToV2
<1>3. CASE NewService
  BY <1>3 DEF Configured, NewService
<1>4. CASE OpenDatabase
  BY <1>4 DEF Configured, OpenDatabase, Open, InitTable, ReadVersion, Upgrade, ClearVersion,
              StoreVersion, opening
<1>5. CASE InitAdminUser \/ InitSearchProvider \/ NewBleveFails \/ Serve
  BY <1>5 DEF Configured, InitAdminUser, InitSearchProvider, OpenIndex, CreateIndex,
              NewBleveFails, Serve
<1>6. CASE Reindex \/ ReindexFails \/ Request \/ End
  BY <1>6 DEF Configured, Reindex, ReindexFails, Request, End, startup, opening
<1>7. CASE UNCHANGED vars
  BY <1>7 DEF Configured, vars, startup, opening
<1> QED BY <1>1, <1>2, <1>3, <1>4, <1>5, <1>6, <1>7 DEF Next, Start

LEMMA NextAInv == AInv /\ Configured /\ [Next]_vars => AInv'
<1> SUFFICES ASSUME AInv, Configured, [Next]_vars PROVE AInv'
  OBVIOUS
<1>1. CASE ReadConfig \/ SaveLegacyConfig
  BY <1>1, PhaseInv DEF ReadConfig, SaveLegacyConfig, Serving
<1>2. CASE NewService
  <2>1. UNCHANGED accounts /\ phase = "run" /\ phase' \in {"init", "elsewhere", "down"}
    BY <1>2 DEF NewService, Configured
  <2> QED BY <2>1, PhaseInv DEF Serving
<1>3. CASE OpenDatabase
  BY <1>3, PhaseInv DEF OpenDatabase, Open, InitTable, ReadVersion, Upgrade, ClearVersion,
                        StoreVersion, opening, Serving
<1>4. CASE InitAdminUser
  BY <1>4, InitAdminUserInv
<1>5. CASE InitSearchProvider \/ NewBleveFails \/ Serve
  BY <1>5, PhaseInv DEF InitSearchProvider, OpenIndex, CreateIndex, NewBleveFails, Serve, Serving
<1>6. CASE Reindex \/ ReindexFails
  BY <1>6, PhaseInv DEF Reindex, ReindexFails, startup, opening, Serving
<1>7. CASE Request
  <2>1. phase' = phase
    BY <1>7 DEF Request, startup, opening
  <2> QED BY <1>7, <2>1, AskInv, HandleInv, ExpireInv DEF Request, IsCommand
<1>8. CASE End
  BY <1>8, EndInv
<1>9. CASE UNCHANGED vars
  BY <1>9, PhaseInv DEF vars, startup, opening, Serving
<1> QED BY <1>1, <1>2, <1>3, <1>4, <1>5, <1>6, <1>7, <1>8, <1>9 DEF Next, Start

LEMMA AccountsInvariant == Spec => [](AInv /\ Configured)
<1> QED BY InitAInv, InitConfigured, NextAInv, NextConfigured, PTL DEF Spec

-----------------------------------------------------------------------------
(* There is an administrator whenever requests are served, unless the      *)
(* command took one away or a request decided on a row that others had     *)
(* changed since it was read.                                              *)
THEOREM SomeoneAdministers == Spec => []AdminRemains
<1>1. AInv => AdminRemains
  BY DEF AInv, Manned, AnyAdmin, AdminRemains, All, Serving
<1> QED BY <1>1, AccountsInvariant, PTL

(* No handler runs for a request that came after its token was revoked or  *)
(* its session logged out, across restarts, or whose user was deleted.     *)
THEOREM VoidIsRefused == Spec => []RevokedStaysOut
<1>1. AInv => RevokedStaysOut
  <2> SUFFICES ASSUME AInv, NEW c \in Clients, req[c].at = "handle" PROVE req[c].void = {}
    BY DEF RevokedStaysOut, At
  <2>1. PICK r \in Requests : r = req[c] /\ Sound(r)
    BY TheRequest
  <2> QED BY <2>1, HandledIsValid
<1> QED BY <1>1, AccountsInvariant, PTL

(* A row of users changes only as a request for that user asked, in the    *)
(* field it asked for, unless it was written since the request read it.    *)
THEOREM RowsChangeAsAsked == Spec => EditsApply
<1> DEFINE AsAsked ==
      \A l \in Logins : users'[l] # users[l] =>
       \/ phase = "opened" /\ All = {}
       \/ \E c \in Clients : /\ req[c] # Idle /\ req'[c] = Idle
                             /\ req[c].fresh => /\ req[c].target = l
                                                /\ Asked(req[c], users[l], users'[l])
<1>1. AInv /\ [Next]_vars => [AsAsked]_vars
  <2> SUFFICES ASSUME AInv, Next, NEW l \in Logins, users'[l] # users[l]
               PROVE  \/ phase = "opened" /\ All = {}
                      \/ \E c \in Clients :
                           /\ req[c] # Idle /\ req'[c] = Idle
                           /\ req[c].fresh => /\ req[c].target = l
                                              /\ Asked(req[c], users[l], users'[l])
    OBVIOUS
  <2>1. CASE InitAdminUser
    BY <2>1 DEF InitAdminUser
  <2>2. ASSUME NEW c \in Clients, Update(c) \/ Delete(c)
        PROVE  /\ req[c] # Idle /\ req'[c] = Idle
               /\ req[c].fresh => /\ req[c].target = l
                                  /\ Asked(req[c], users[l], users'[l])
    <3>1. PICK r \in Requests : r = req[c] /\ Sound(r)
      BY TheRequest
    <3>2. r.at \in {"update", "delete"} /\ r.login = r.target /\ r.login \in Logins
      BY <2>2, <3>1 DEF Update, Delete, At, Sound, Writing, Sent
    <3>3. PICK row : /\ Write(c, r.login, row)
                     /\ r.at = "update" => row = r.row
                     /\ r.at = "delete" => row = None
      BY <2>2, <3>1 DEF Update, Delete, At
    <3>4. req'[c] = Idle /\ r # Idle
      <4>1. Idle.at = "done"
        BY DEF Idle
      <4> QED BY <3>2, <3>3, <4>1 DEF Write
    <3>5. l = r.login /\ users'[l] = row
      BY <3>2, <3>3 DEF Write, AInv, TInv
    <3>6. r.at = "update" /\ r.fresh => Asked(r, users[l], users'[l])
      BY <3>1, <3>3, <3>5 DEF Sound, Writing
    <3>7. r.at = "delete" => Asked(r, users[l], users'[l])
      BY <3>1, <3>3, <3>5 DEF Sound, Writing, Deletes, Asked
    <3> QED BY <3>1, <3>2, <3>4, <3>5, <3>6, <3>7
  <2>3. CASE Request
    <3>1. ASSUME UNCHANGED users PROVE FALSE
      BY <3>1
    <3>2. ASSUME NEW c \in Clients, Handle(c) PROVE Update(c) \/ Delete(c)
      BY <3>1, <3>2 DEF Handle, Exists, ValidateUser, UserContext, Read, CreateUserToken, AddUser,
           DeleteUser, SetSetting, UserAdminAdd, UserAdminRemove, UserAdminSet, Authenticate,
           TokenDelete, NewSession, GetSession, SessionUser, SetSession, Logout, Fail,
           OnlyRequests, rows
    <3>3. ASSUME NEW c \in Clients, Ask(c) PROVE FALSE
      BY <3>1, <3>3 DEF Ask, Begin, rows
    <3>4. ASSUME NEW s \in Sids, Expire(s) PROVE FALSE
      BY <3>1, <3>4 DEF Expire, rows
    <3>5. PICK c \in Clients : Update(c) \/ Delete(c)
      BY <2>3, <3>2, <3>3, <3>4 DEF Request
    <3> QED BY <2>2, <3>5
  <2>4. CASE ~InitAdminUser /\ ~Request
    BY <2>4 DEF Next, Start, ReadConfig, SaveLegacyConfig, NewService, OpenDatabase,
         InitSearchProvider, NewBleveFails, Serve, Reindex, ReindexFails, End, accounts, rows
  <2> QED BY <2>1, <2>3, <2>4
<1> QED BY <1>1, AccountsInvariant, PTL DEF Spec, EditsApply
-----------------------------------------------------------------------------
(***************************************************************************)
(* The tables: the upgrades and what they keep.                            *)
(***************************************************************************)
Names == {"tags", Labels, Unread, Favorite}
Fav == "users_articles_fav"

(* Tables that a database of a version can have, which may be those of a   *)
(* later one.                                                              *)
AtFirst(t) == States \notin DOMAIN t
AtSecond(t) ==
  /\ States \in DOMAIN t /\ DOMAIN t \subseteq Names \cup {States}
  /\ Labels \in DOMAIN t /\ LabelsBy(t, "tag")
AtThird(t) == DOMAIN t \subseteq Names /\ Labels \in DOMAIN t /\ LabelsBy(t, "tag")
AtFourth(t) == DOMAIN t \subseteq Names /\ (Labels \in DOMAIN t => LabelsBy(t, "tag_id"))
Stage(v, t) ==
  /\ v = 1 => AtFirst(t)
  /\ v = 2 => AtSecond(t) \/ AtThird(t) \/ AtFourth(t)
  /\ v = 3 => AtThird(t) \/ AtFourth(t)
  /\ v \in {0, 4} => AtFourth(t)

Current(t) == DOMAIN t = Names /\ LabelsBy(t, "tag_id")
Running == {"version", "opened", "admin", "creating", "indexed", "serving"}
Commanded == \E c \in Clients : req[c].op \in Commands
Upgrading ==
  /\ version \in Nat /\ Stage(version, tab)
  /\ phase = "upgrade" =>
       /\ at \in {1, 2, 3, 4} /\ version <= 4
       /\ Names \subseteq DOMAIN tab /\ Stage(at, tab)
  /\ phase \in Running \/ Commanded => Current(tab)
  /\ phase = "version" => version = 0
  /\ phase \in Running \ {"version"} => version = 4

Kept == Says(tab) = owed

-----------------------------------------------------------------------------
LEMMA NamesOfInitSQL ==
  /\ ToSet(InitSQL) = Names
  /\ \A i \in 1 .. Len(InitSQL) : InitSQL[i] \in Names
BY DEF ToSet, InitSQL, Names

LEMMA WithTable ==
  ASSUME NEW t, NEW new
  PROVE  /\ DOMAIN With(t, new) = DOMAIN t \cup DOMAIN new
         /\ \A n \in DOMAIN t \cup DOMAIN new :
              With(t, new)[n] = IF n \in DOMAIN new THEN new[n] ELSE t[n]
BY DEF With

LEMMA WithoutTable ==
  ASSUME NEW t, NEW names
  PROVE  /\ DOMAIN Without(t, names) = DOMAIN t \ names
         /\ \A n \in DOMAIN t \ names : Without(t, names)[n] = t[n]
BY DEF Without

(* What is said depends on five tables.                                    *)
RowsOf(t, n) == IF n \in DOMAIN t THEN t[n] ELSE {}
LabelsOf(t) == IF Labels \in DOMAIN t THEN t[Labels].rows ELSE {}

LEMMA SaysOf ==
  ASSUME NEW t
  PROVE  Says(t) =
    [unread |-> RowsOf(t, Unread)
                  \cup Pairs({r \in RowsOf(t, States) : ~r.read /\ r.article \in Recent}),
     favorite |-> RowsOf(t, Favorite) \cup RowsOf(t, Fav)
                    \cup Pairs({r \in RowsOf(t, States) : r.favorite}),
     labels |-> {r \in LabelsOf(t) : r.tag # ""}]
BY DEF Says, RowsOf, LabelsOf, Fav

LEMMA NoPairs == Pairs({}) = {}
BY DEF Pairs

(* A table that is created says nothing.                                   *)
LEMMA CreatedSays ==
  ASSUME NEW t, NEW n \in Names, n \notin DOMAIN t
  PROVE  LET u == With(t, [m \in {n} |-> Created[m]]) IN
         /\ Says(u) = Says(t)
         /\ DOMAIN u = DOMAIN t \cup {n}
         /\ \A m \in DOMAIN t : u[m] = t[m]
         /\ n = Labels => LabelsBy(u, "tag_id")
<1> DEFINE u == With(t, [m \in {n} |-> Created[m]])
<1>1. /\ DOMAIN u = DOMAIN t \cup {n}
      /\ \A m \in DOMAIN t : u[m] = t[m]
      /\ u[n] = Created[n]
  <2> DEFINE new == [m \in {n} |-> Created[m]]
  <2>1. DOMAIN new = {n} /\ new[n] = Created[n]
    OBVIOUS
  <2> HIDE DEF new
  <2>2. /\ DOMAIN With(t, new) = DOMAIN t \cup DOMAIN new
        /\ \A m \in DOMAIN t \cup DOMAIN new :
             With(t, new)[m] = IF m \in DOMAIN new THEN new[m] ELSE t[m]
    BY WithTable
  <2>3. /\ DOMAIN With(t, new) = DOMAIN t \cup {n}
        /\ \A m \in DOMAIN t : With(t, new)[m] = t[m]
        /\ With(t, new)[n] = Created[n]
    BY <2>1, <2>2
  <2> QED BY <2>3 DEF new
<1>2. Created[n] = IF n = Labels THEN [column |-> "tag_id", rows |-> {}] ELSE {}
  BY NamesOfInitSQL DEF Created
<1>3. /\ RowsOf(u, Unread) = RowsOf(t, Unread) /\ RowsOf(u, Favorite) = RowsOf(t, Favorite)
      /\ RowsOf(u, States) = RowsOf(t, States) /\ RowsOf(u, Fav) = RowsOf(t, Fav)
      /\ LabelsOf(u) = LabelsOf(t)
  <2> HIDE DEF u
  <2> QED BY <1>1, <1>2 DEF RowsOf, LabelsOf, Names, Unread, Favorite, States, Fav, Labels
<1> HIDE DEF u
<1>4. Says(u) = Says(t)
  BY <1>3, SaysOf
<1>5. n = Labels => LabelsBy(u, "tag_id")
  BY <1>1, <1>2 DEF LabelsBy
<1> QED BY <1>1, <1>4, <1>5 DEF u

(* The split of the states in two tables.                                  *)
LEMMA SplitSays ==
  ASSUME NEW t, AtSecond(t), Names \subseteq DOMAIN t
  PROVE  /\ Says(Upgrade2to3(t)) = Says(t) /\ AtThird(Upgrade2to3(t))
         /\ DOMAIN Upgrade2to3(t) = Names
<1> DEFINE new == [n \in {Unread, Favorite} |->
                     t[n] \cup Pairs(IF n = Unread THEN UnreadSplit(t[States])
                                                   ELSE FavoriteSplit(t[States]))]
           u == Without(With(t, new), {States})
<1>1. u = Upgrade2to3(t)
  BY DEF Upgrade2to3
<1>2. /\ new[Unread] = t[Unread] \cup Pairs(UnreadSplit(t[States]))
      /\ new[Favorite] = t[Favorite] \cup Pairs(FavoriteSplit(t[States]))
      /\ DOMAIN new = {Unread, Favorite}
  BY DEF Unread, Favorite
<1>3. /\ Unread \in Names /\ Favorite \in Names /\ Labels \in Names /\ States \notin Names
      /\ Fav \notin Names /\ Fav # States /\ Labels \notin {Unread, Favorite}
      /\ Unread # States /\ Favorite # States
  BY DEF Names, Unread, Favorite, Labels, States, Fav
<1> HIDE DEF new
<1>4. /\ DOMAIN u = Names
      /\ u[Unread] = new[Unread] /\ u[Favorite] = new[Favorite] /\ u[Labels] = t[Labels]
  <2> DEFINE w == With(t, new)
  <2>1. DOMAIN t = Names \cup {States}
    BY DEF AtSecond
  <2>2. /\ DOMAIN w = Names \cup {States}
        /\ w[Unread] = new[Unread] /\ w[Favorite] = new[Favorite] /\ w[Labels] = t[Labels]
    <3>1. /\ DOMAIN w = DOMAIN t \cup DOMAIN new
          /\ \A n \in DOMAIN t \cup DOMAIN new : w[n] = IF n \in DOMAIN new THEN new[n] ELSE t[n]
      BY WithTable
    <3> QED BY <1>2, <1>3, <2>1, <3>1
  <2> HIDE DEF w
  <2>3. DOMAIN Without(w, {States}) = DOMAIN w \ {States}
        /\ \A n \in DOMAIN w \ {States} : Without(w, {States})[n] = w[n]
    BY WithoutTable
  <2> QED BY <1>3, <2>2, <2>3 DEF w
<1> HIDE DEF u
<1>5. /\ RowsOf(u, Unread) = t[Unread] \cup Pairs(UnreadSplit(t[States]))
      /\ RowsOf(u, Favorite) = t[Favorite] \cup Pairs(FavoriteSplit(t[States]))
      /\ RowsOf(u, States) = {} /\ RowsOf(u, Fav) = {} /\ LabelsOf(u) = LabelsOf(t)
  BY <1>2, <1>3, <1>4 DEF RowsOf, LabelsOf
<1>6. /\ RowsOf(t, Unread) = t[Unread] /\ RowsOf(t, Favorite) = t[Favorite]
      /\ RowsOf(t, States) = t[States] /\ RowsOf(t, Fav) = {}
  BY <1>3 DEF AtSecond, RowsOf
<1>7. Says(u) = Says(t)
  <2>1. Pairs({r \in RowsOf(u, States) : ~r.read /\ r.article \in Recent}) = {}
        /\ Pairs({r \in RowsOf(u, States) : r.favorite}) = {}
    BY <1>5, NoPairs
  <2> QED BY <1>5, <1>6, <2>1, SaysOf DEF UnreadSplit, FavoriteSplit
<1>8. AtThird(u)
  BY <1>3, <1>4 DEF AtSecond, AtThird, LabelsBy
<1> QED BY <1>1, <1>4, <1>7, <1>8

(* The labels get the ID of their tag.                                     *)
LEMMA LabelSays ==
  ASSUME NEW t, AtThird(t), Names \subseteq DOMAIN t
  PROVE  /\ Says(Upgrade3to4(t)) = Says(t) /\ AtFourth(Upgrade3to4(t))
         /\ DOMAIN Upgrade3to4(t) = Names
<1> DEFINE named == NamedLabels(t[Labels].rows)
           new == [n \in {"tags", Labels} |->
                     IF n = Labels THEN [column |-> "tag_id", rows |-> named]
                                   ELSE t["tags"] \cup {r.tag : r \in named}]
           u == With(t, new)
<1>1. u = Upgrade3to4(t)
  BY DEF Upgrade3to4
<1>2. new[Labels] = [column |-> "tag_id", rows |-> named] /\ DOMAIN new = {"tags", Labels}
  OBVIOUS
<1>3. /\ Unread \in Names /\ Favorite \in Names /\ Labels \in Names /\ "tags" \in Names
      /\ States \notin Names /\ Fav \notin Names
      /\ Unread \notin {"tags", Labels} /\ Favorite \notin {"tags", Labels}
  BY DEF Names, Unread, Favorite, Labels, States, Fav
<1> HIDE DEF new
<1>4. /\ DOMAIN u = Names
      /\ u[Unread] = t[Unread] /\ u[Favorite] = t[Favorite] /\ u[Labels] = new[Labels]
  <2>1. DOMAIN t = Names
    BY DEF AtThird
  <2>2. /\ DOMAIN With(t, new) = DOMAIN t \cup DOMAIN new
        /\ \A n \in DOMAIN t \cup DOMAIN new :
             With(t, new)[n] = IF n \in DOMAIN new THEN new[n] ELSE t[n]
    BY WithTable
  <2> QED BY <1>2, <1>3, <2>1, <2>2
<1> HIDE DEF u
<1>5. /\ RowsOf(u, Unread) = RowsOf(t, Unread) /\ RowsOf(u, Favorite) = RowsOf(t, Favorite)
      /\ RowsOf(u, States) = RowsOf(t, States) /\ RowsOf(u, Fav) = RowsOf(t, Fav)
      /\ LabelsOf(u) = named /\ LabelsOf(t) = t[Labels].rows
  BY <1>2, <1>3, <1>4 DEF AtThird, RowsOf, LabelsOf
<1>6. {r \in named : r.tag # ""} = {r \in t[Labels].rows : r.tag # ""}
  BY DEF NamedLabels
<1>7. Says(u) = Says(t)
  BY <1>5, <1>6, SaysOf
<1>8. AtFourth(u)
  BY <1>2, <1>4 DEF AtFourth, LabelsBy
<1> QED BY <1>1, <1>4, <1>7, <1>8

(* What goes with a user.                                                  *)
LEMMA CascadeSays ==
  ASSUME NEW t, NEW gone, Current(t)
  PROVE  /\ Says(Cascade(t, gone)) =
              [unread |-> {x \in Says(t).unread : x[1] \notin gone},
               favorite |-> {x \in Says(t).favorite : x[1] \notin gone},
               labels |-> {r \in Says(t).labels : r.user \notin gone}]
         /\ Current(Cascade(t, gone))
<1> DEFINE u == Cascade(t, gone)
<1>1. /\ Unread \in Names /\ Favorite \in Names /\ Labels \in Names
      /\ States \notin Names /\ Fav \notin Names /\ Labels \notin {Unread, Favorite}
  BY DEF Names, Unread, Favorite, Labels, States, Fav
<1>2. /\ DOMAIN u = Names
      /\ u[Unread] = {x \in t[Unread] : x[1] \notin gone}
      /\ u[Favorite] = {x \in t[Favorite] : x[1] \notin gone}
      /\ u[Labels] = [t[Labels] EXCEPT !.rows = {r \in @ : r.user \notin gone}]
  BY <1>1 DEF Cascade, Current
<1> HIDE DEF u
<1>3. /\ u[Labels].rows = {r \in t[Labels].rows : r.user \notin gone}
      /\ LabelsBy(u, "tag_id")
  BY <1>2 DEF Current, LabelsBy
<1>4. ASSUME NEW w, DOMAIN w = Names
      PROVE  /\ Says(w).unread = w[Unread] /\ Says(w).favorite = w[Favorite]
             /\ Says(w).labels = {r \in w[Labels].rows : r.tag # ""}
             /\ Says(w) = [unread |-> w[Unread], favorite |-> w[Favorite],
                           labels |-> {r \in w[Labels].rows : r.tag # ""}]
  <2>1. /\ RowsOf(w, Unread) = w[Unread] /\ RowsOf(w, Favorite) = w[Favorite]
        /\ RowsOf(w, States) = {} /\ RowsOf(w, Fav) = {} /\ LabelsOf(w) = w[Labels].rows
    BY <1>1, <1>4 DEF RowsOf, LabelsOf
  <2>2. Pairs({r \in RowsOf(w, States) : ~r.read /\ r.article \in Recent}) = {}
        /\ Pairs({r \in RowsOf(w, States) : r.favorite}) = {}
    BY <2>1, NoPairs
  <2>3. Says(w) = [unread |-> w[Unread], favorite |-> w[Favorite],
                   labels |-> {r \in w[Labels].rows : r.tag # ""}]
    BY <2>1, <2>2, SaysOf
  <2> DEFINE labels == {r \in w[Labels].rows : r.tag # ""}
  <2>4. Says(w) = [unread |-> w[Unread], favorite |-> w[Favorite], labels |-> labels]
    BY <2>3
  <2> HIDE DEF labels
  <2>5. /\ Says(w).unread = w[Unread] /\ Says(w).favorite = w[Favorite]
        /\ Says(w).labels = labels
    BY <2>4
  <2> QED BY <2>3, <2>5 DEF labels
<1>5. {r \in u[Labels].rows : r.tag # ""}
        = {r \in {x \in t[Labels].rows : x.tag # ""} : r.user \notin gone}
  BY <1>3
<1>6. DOMAIN t = Names
  BY DEF Current
<1>7. Says(u) = [unread |-> {x \in Says(t).unread : x[1] \notin gone},
                 favorite |-> {x \in Says(t).favorite : x[1] \notin gone},
                 labels |-> {r \in Says(t).labels : r.user \notin gone}]
  <2>1. Says(u) = [unread |-> u[Unread], favorite |-> u[Favorite],
                   labels |-> {r \in u[Labels].rows : r.tag # ""}]
    BY <1>2, <1>4
  <2>2. /\ Says(t).unread = t[Unread] /\ Says(t).favorite = t[Favorite]
        /\ Says(t).labels = {r \in t[Labels].rows : r.tag # ""}
    BY <1>4, <1>6
  <2> QED BY <1>2, <1>5, <2>1, <2>2
<1> QED BY <1>2, <1>3, <1>7 DEF u, Current

-----------------------------------------------------------------------------
LEMMA InitUpgrading == Init => Upgrading /\ Kept
<1> SUFFICES ASSUME Init PROVE Upgrading /\ Kept
  OBVIOUS
<1>1. /\ version \in DOMAIN Old /\ tab = Old[version] /\ phase = "down"
      /\ owed = Says(tab) /\ req = [c \in Clients |-> Idle]
  BY WorldsAssumption DEF Init
<1>2. version \in Nat /\ OfVersion(version, tab)
  BY <1>1, OldAssumption
<1>3. Stage(version, tab)
  BY <1>2, NamesOfInitSQL DEF OfVersion, Stage, AtFirst, AtSecond, AtThird, AtFourth, Names,
       Unread, Favorite, Labels, States
<1>4. ~Commanded
  BY <1>1 DEF Commanded, Idle, Commands
<1> QED BY <1>1, <1>2, <1>3, <1>4 DEF Upgrading, Kept, Running

LEMMA NextUpgrading == Upgrading /\ Kept /\ Configured /\ [Next]_vars => Upgrading' /\ Kept'
<1> SUFFICES ASSUME Upgrading, Kept, Configured, [Next]_vars PROVE Upgrading' /\ Kept'
  OBVIOUS
<1>1. ASSUME UNCHANGED <<version, tab, owed, req>>, phase' \notin Running \cup {"upgrade"}
      PROVE Upgrading' /\ Kept'
  BY <1>1 DEF Upgrading, Kept, Commanded, Running
<1>2. ASSUME UNCHANGED <<version, tab, owed, req>>,
             phase \in Running, phase' \in Running \ {"version"}, phase # "version"
      PROVE Upgrading' /\ Kept'
  BY <1>2 DEF Upgrading, Kept, Commanded, Running
<1>3. CASE ReadConfig \/ SaveLegacyConfig
  BY <1>1, <1>3 DEF ReadConfig, SaveLegacyConfig, Running, database, accounts, memory
<1>4. CASE NewService
  <2>1. phase' \in {"init", "elsewhere", "down"}
    BY <1>4 DEF NewService, Configured
  <2> QED BY <1>1, <1>4, <2>1 DEF NewService, Running, database, accounts, memory
<1>5. CASE OpenDatabase /\ InitTable
  <2>1. UNCHANGED <<version, phase, owed, req>> /\ phase = "init"
    BY <1>5 DEF OpenDatabase, InitTable, opening, accounts, memory
  <2>2. PICK n \in Names : n \notin DOMAIN tab /\ tab' = With(tab, [m \in {n} |-> Created[m]])
    BY <1>5, NamesOfInitSQL DEF InitTable
  <2>3. /\ Says(tab') = Says(tab) /\ DOMAIN tab' = DOMAIN tab \cup {n}
        /\ \A m \in DOMAIN tab : tab'[m] = tab[m]
        /\ n = Labels => LabelsBy(tab', "tag_id")
    BY <2>2, CreatedSays
  <2>4. Labels \in DOMAIN tab => \A k : LabelsBy(tab, k) => LabelsBy(tab', k)
    BY <2>3 DEF LabelsBy
  <2>5. States \notin Names
    BY DEF Names, States, Unread, Favorite, Labels
  <2>6. Stage(version, tab')
    BY <2>2, <2>3, <2>4, <2>5 DEF Upgrading, Stage, AtFirst, AtSecond, AtThird, AtFourth
  <2>7. ~Commanded'
    BY <2>1, <2>2 DEF Upgrading, Current, Commanded
  <2> QED BY <2>1, <2>3, <2>6, <2>7 DEF Upgrading, Kept, Running
<1>6. CASE OpenDatabase /\ ReadVersion
  <2>1. UNCHANGED <<version, tab, owed, req>>
    BY <1>6 DEF OpenDatabase, ReadVersion, database, accounts, memory
  <2>2. /\ at' = IF version = 0 THEN 4 ELSE version
        /\ phase' = IF at' > 4 THEN "down" ELSE "upgrade"
        /\ Names \subseteq DOMAIN tab
    BY <1>6, NamesOfInitSQL DEF ReadVersion, dbVersion
  <2>3. at' <= 4 => /\ at' \in {1, 2, 3, 4} /\ version <= 4 /\ Stage(at', tab)
    BY <2>2 DEF Upgrading, Stage
  <2>4. at' \in Nat
    BY <2>2 DEF Upgrading
  <2> QED BY <2>1, <2>2, <2>3, <2>4 DEF Upgrading, Kept, Commanded, Running
<1>7. CASE OpenDatabase /\ Upgrade
  <2>1. UNCHANGED <<version, owed, req>> /\ phase = "upgrade" /\ at < 4
    BY <1>7 DEF OpenDatabase, Upgrade, accounts, memory, dbVersion
  <2>2. at \in {1, 2, 3} /\ version <= 4 /\ Names \subseteq DOMAIN tab /\ Stage(at, tab)
        /\ version \in Nat /\ Stage(version, tab)
    BY <2>1 DEF Upgrading
  <2>3. CASE ~CanUpgrade(at, tab)
    BY <1>1, <1>7, <2>1, <2>3 DEF Upgrade, Running
  <2>4. CASE CanUpgrade(at, tab)
    <3>1. tab' = Upgraded(at, tab) /\ at' = at + 1 /\ phase' = phase
      BY <1>7, <2>4 DEF Upgrade
    <3>2. /\ States \notin Names
          /\ AtSecond(tab) => ~AtThird(tab) /\ ~AtFourth(tab) /\ ~AtFirst(tab)
          /\ AtThird(tab) => ~AtFourth(tab) /\ AtFirst(tab)
          /\ AtSecond(tab) \/ AtThird(tab) => ~Current(tab)
          /\ Labels \in Names
      BY DEF Names, States, Unread, Favorite, Labels, AtFirst, AtSecond, AtThird, AtFourth,
         Current, LabelsBy
    <3>3. at # 1
      BY <2>2, <2>4 DEF CanUpgrade, Stage, AtFirst
    <3>4. CASE at = 2
      <4>1. States \in DOMAIN tab
        BY <2>4, <3>4 DEF CanUpgrade
      <4>2. AtSecond(tab)
        BY <2>2, <3>2, <3>4, <4>1 DEF Stage, AtThird, AtFourth
      <4>3. tab' = Upgrade2to3(tab)
        BY <3>1, <3>4 DEF Upgraded
      <4>4. Says(tab') = Says(tab) /\ AtThird(tab') /\ DOMAIN tab' = Names
        BY <2>2, <4>2, <4>3, SplitSays
      <4>5. version = 2
        BY <2>2, <3>2, <4>2 DEF Stage
      <4>6. ~Commanded'
        BY <2>1, <3>2, <4>2 DEF Upgrading, Commanded
      <4>7. at' = 3 /\ phase' = "upgrade" /\ Stage(version, tab') /\ Stage(at', tab')
        BY <2>1, <3>1, <3>4, <4>4, <4>5 DEF Stage
      <4> QED BY <2>1, <2>2, <4>4, <4>6, <4>7 DEF Upgrading, Kept, Running
    <3>5. CASE at = 3
      <4>1. tab[Labels].column = "tag"
        BY <2>4, <3>5 DEF CanUpgrade
      <4>2. AtThird(tab)
        BY <2>2, <3>2, <3>5, <4>1 DEF Stage, AtFourth, LabelsBy
      <4>3. tab' = Upgrade3to4(tab)
        BY <3>1, <3>5 DEF Upgraded
      <4>4. Says(tab') = Says(tab) /\ AtFourth(tab') /\ DOMAIN tab' = Names
        BY <2>2, <4>2, <4>3, LabelSays
      <4>5. version \in {1, 2, 3} /\ AtFirst(tab')
        BY <2>2, <3>2, <4>2, <4>4 DEF Stage, AtFirst
      <4>6. ~Commanded'
        BY <2>1, <3>2, <4>2 DEF Upgrading, Commanded
      <4>7. at' = 4 /\ phase' = "upgrade" /\ Stage(version, tab') /\ Stage(at', tab')
        BY <2>1, <3>1, <3>5, <4>4, <4>5 DEF Stage
      <4> QED BY <2>1, <2>2, <4>4, <4>6, <4>7 DEF Upgrading, Kept, Running
    <3> QED BY <2>2, <3>3, <3>4, <3>5
  <2> QED BY <2>3, <2>4
<1>8. CASE OpenDatabase /\ ClearVersion
  <2>1. /\ UNCHANGED <<tab, owed, req>> /\ phase = "upgrade" /\ at = 4
        /\ version' = 0 /\ phase' = "version"
    BY <1>8 DEF OpenDatabase, ClearVersion, accounts, memory, dbVersion
  <2>2. Current(tab)
    <3>1. Names \subseteq DOMAIN tab /\ AtFourth(tab)
      BY <2>1 DEF Upgrading, Stage
    <3> QED BY <3>1 DEF Current, AtFourth, Names
  <2>3. Stage(0, tab)
    BY <2>2 DEF Current, Stage, AtFourth
  <2> QED BY <2>1, <2>2, <2>3 DEF Upgrading, Kept, Running
<1>9. CASE OpenDatabase /\ StoreVersion
  <2>1. /\ UNCHANGED <<tab, owed, req>> /\ phase = "version"
        /\ version' = 4 /\ phase' = "opened"
    BY <1>9 DEF OpenDatabase, StoreVersion, accounts, memory, dbVersion
  <2>2. Current(tab) /\ Stage(4, tab)
    BY <2>1 DEF Upgrading, Stage, Running, Current, AtFourth
  <2> QED BY <2>1, <2>2 DEF Upgrading, Kept, Running
<1>10. CASE InitAdminUser \/ InitSearchProvider \/ NewBleveFails \/ Serve
  <2>1. /\ UNCHANGED <<version, tab, owed, req>> /\ phase \in {"opened", "admin", "creating", "indexed"}
        /\ phase' \in {"admin", "creating", "indexed", "serving"}
    BY <1>10 DEF InitAdminUser, InitSearchProvider, OpenIndex, CreateIndex, NewBleveFails, Serve,
                 database, accounts, memory
  <2> QED BY <1>2, <2>1 DEF Running
<1>11. CASE Request
  <2>1. /\ UNCHANGED <<version, phase, at>> /\ tab' = Cascade(tab, Gone)
        /\ owed' = [unread |-> {x \in owed.unread : x[1] \notin Gone},
                    favorite |-> {x \in owed.favorite : x[1] \notin Gone},
                    labels |-> {r \in owed.labels : r.user \notin Gone}]
    BY <1>11 DEF Request, startup, opening
  <2>2. Serving \/ Commanded
    BY <1>11 DEF Request, Commanded, IsCommand
  <2>3. Current(tab)
    BY <2>2 DEF Upgrading, Serving, Running
  <2>4. Current(tab') /\ Says(tab') = owed'
    BY <2>1, <2>3, CascadeSays DEF Kept
  <2>5. Stage(version, tab') /\ Stage(at, tab')
    <3>1. States \notin Names
      BY DEF Names, States, Unread, Favorite, Labels
    <3> QED BY <2>4, <3>1 DEF Current, Stage, AtFirst, AtFourth
  <2> QED BY <2>1, <2>4, <2>5 DEF Upgrading, Kept, Current
<1>12. CASE End
  <2>1. /\ UNCHANGED <<version, tab, owed>> /\ phase' = "down"
        /\ req' = [c \in Clients |-> IF IsCommand(c) THEN req[c] ELSE Idle]
    BY <1>12 DEF End, EndRequests, database
  <2>2. Commanded' => Commanded
    BY <2>1 DEF Commanded, IsCommand, Idle, Commands
  <2> QED BY <2>1, <2>2 DEF Upgrading, Kept, Running
<1>13. CASE Reindex \/ ReindexFails \/ UNCHANGED vars
  <2>1. UNCHANGED <<version, tab, owed, req, phase, at>>
    BY <1>13 DEF Reindex, ReindexFails, vars, database, startup, opening, accounts, memory
  <2> QED BY <2>1 DEF Upgrading, Kept, Commanded
<1> QED BY <1>3, <1>4, <1>5, <1>6, <1>7, <1>8, <1>9, <1>10, <1>11, <1>12, <1>13
        DEF Next, Start, OpenDatabase, Open

(* What the tables say of unread, favorite and tagged articles survives    *)
(* every upgrade and every end of the process in between, and who is       *)
(* served has the current tables.                                          *)
THEOREM UpgradesKeepData == Spec => []DataKept
<1>1. Upgrading /\ Kept => DataKept
  BY NamesOfInitSQL DEF Upgrading, Kept, DataKept, Serving, Running, Current, LabelsBy, dbVersion
<1>2. Spec => [](Upgrading /\ Kept)
  BY InitUpgrading, NextUpgrading, InitConfigured, NextConfigured, PTL DEF Spec
<1> QED BY <1>1, <1>2, PTL
=============================================================================
