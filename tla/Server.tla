------------------------------- MODULE Server -------------------------------
(***************************************************************************)
(* A process from its start to its end and the next one: main reads and,   *)
(* where it is a legacy one, converts the configuration                    *)
(* (cmd/readeef/main.go), runServer opens the database, makes sure of an   *)
(* administrator, opens the search index and serves requests               *)
(* (cmd/readeef/server.go).  The process may end at any step; the files,   *)
(* the database and the index stay as they are.                            *)
(***************************************************************************)
EXTENDS Database, Accounts

CONSTANTS Worlds,     \* what the first process finds: [conf, version, users, index, issued, uses, left]
          Articles,   \* how many articles are stored
          Window,     \* how many of them Reindex reads at a time
          MaxFaults,  \* bound of the model: ends of the process, failed batches and openings
          Broken      \* a search index that is there and cannot be opened

ASSUME WorldsAssumption ==
  \A w \in Worlds : /\ w.conf \in {"none", "v2", "legacy"} /\ w.version \in DOMAIN Old
                     /\ w.users \in [Logins -> Row \cup {None}] /\ w.issued \subseteq Tokens

VARIABLES conf,       \* [path, orig]: what the configuration file and its backup hold
          cfg,        \* the configuration of the process: "home" has the user's database
          index,      \* how many articles the search index has, None when there is no index
          provider,   \* the process has a search provider
          offset,     \* how far Reindex is, None when it does not run
          faults,
          owed        \* what the tables said of the articles of those who are users

startup == <<opening, conf, cfg>>
searching == <<index, provider, offset>>
vars == <<database, startup, accounts, searching, faults, owed>>

Init ==
  \E w \in Worlds :
    /\ conf = [path |-> w.conf, orig |-> "none"] /\ cfg = "none"
    /\ version = w.version /\ tab = Old[w.version] /\ owed = Says(tab)
    /\ phase = "down" /\ at = 0
    /\ users = w.users /\ revoked = {}
    /\ excused = (All # {} /\ \A l \in All : ~users[l].admin)
    /\ sessions = [s \in Sids |-> None] /\ given = {} /\ ended = {}
    /\ issued = w.issued /\ req = [c \in Clients |-> Idle] /\ uses = w.uses /\ left = w.left
    /\ index = w.index /\ provider = FALSE /\ offset = None /\ faults = MaxFaults

-----------------------------------------------------------------------------
\* config.Read: a missing file means the defaults, and those are the user's own
\* configuration unless there was a file; what is no TOML gives the zero value.
ConfigRead(file) ==
  CASE file.path = "v2" -> "home"
    [] file.path = "none" -> IF file.orig = "none" THEN "home" ELSE "defaults"
    [] file.path = "legacy" -> "zero"

\* legacy.ReadConfig reads what config.Read cannot; convertToV2 keeps the database.
IsLegacy(file) == file.path = "legacy"
ConvertToV2(file) == [file EXCEPT !.path = "v2"]

\* main: a legacy configuration is converted and saved first.  The converted
\* value is in a variable of the inner block, so the command is run with the
\* zero value all the same.
ReadConfig ==
  /\ phase = "down"
  /\ cfg' = ConfigRead(conf)
  /\ phase' = IF IsLegacy(conf) THEN "convert" ELSE "run"
  /\ UNCHANGED <<database, at, conf, accounts, searching, faults, owed>>

\* saveLegacyConfig writes a new file beside the old one, renames the old one
\* and then the new one.
SaveLegacyConfig ==
  /\ \/ phase = "convert" /\ conf' = [path |-> "none", orig |-> conf.path] /\ phase' = "replace"
     \/ phase = "replace" /\ conf' = ConvertToV2(conf) /\ phase' = "run"
  /\ UNCHANGED <<database, at, cfg, accounts, searching, faults, owed>>

\* sql.NewService: there is no repository for the driver "".
NewService ==
  /\ phase = "run"
  /\ phase' = CASE cfg = "home" -> "init" [] cfg = "defaults" -> "elsewhere" [] cfg = "zero" -> "down"
  /\ UNCHANGED <<database, at, conf, cfg, accounts, searching, faults, owed>>

OpenDatabase ==
  /\ Open
  /\ UNCHANGED <<conf, cfg, accounts, searching, faults, owed>>

\* initAdminUser: a database without users gets an administrator.
FirstUser == [admin |-> TRUE, pass |-> CHOOSE p \in Passwords : TRUE]
InitAdminUser ==
  /\ phase = "opened" /\ phase' = "admin"
  /\ users' = IF All = {}
              THEN [users EXCEPT !["admin"] = FirstUser] ELSE users
  /\ UNCHANGED <<database, at, conf, cfg, revoked, memory, clients, history, searching, faults, owed>>

(* Wrong: nobody asks whether the index is new. *)
NewIndexIgnored(new) == None

\* An index that NewBleve has just created is filled by a goroutine.
StartReindex(new) == IF new THEN 0 ELSE None

\* NewBleve: what is at the path is opened, an index that cannot be is no provider.
OpenIndex ==
  /\ phase = "admin" /\ index # None /\ phase' = "indexed"
  /\ provider' = (index # Broken) /\ offset' = StartReindex(FALSE)
  /\ UNCHANGED index

\* bleve.NewUsing makes the directory first; until it is done, Open rejects it.
CreateIndex ==
  \/ /\ phase = "admin" /\ index = None /\ phase' = "creating"
     /\ index' = Broken
     /\ UNCHANGED <<provider, offset>>
  \/ /\ phase = "creating" /\ phase' = "indexed"
     /\ index' = 0 /\ provider' = TRUE /\ offset' = StartReindex(TRUE)

InitSearchProvider ==
  /\ OpenIndex \/ CreateIndex
  /\ UNCHANGED <<database, at, conf, cfg, accounts, faults, owed>>

\* Whatever error NewBleve meets on the way is logged, and there is no provider.
NewBleveFails ==
  /\ phase \in {"admin", "creating"} /\ faults > 0 /\ faults' = faults - 1
  /\ phase' = "indexed"
  /\ UNCHANGED <<database, at, conf, cfg, accounts, searching, owed>>

\* api.Mux with the token storage and new sessions, then the listener.
Serve ==
  /\ phase = "indexed" /\ phase' = "serving"
  /\ UNCHANGED <<database, at, conf, cfg, accounts, searching, faults, owed>>

Start == ReadConfig \/ SaveLegacyConfig \/ NewService \/ OpenDatabase \/ InitAdminUser
           \/ InitSearchProvider \/ Serve

\* Reindex reads the stored articles window by window until one is not full.
Reindex ==
  /\ offset # None
  /\ LET got == IF Articles - offset < Window THEN Articles - offset ELSE Window IN
     /\ index' = index + got
     /\ offset' = IF got < Window THEN None ELSE offset + Window
  /\ UNCHANGED <<database, startup, accounts, provider, faults, owed>>

\* A batch that cannot be indexed ends Reindex; the error is logged.
ReindexFails ==
  /\ offset # None /\ faults > 0 /\ faults' = faults - 1
  /\ offset' = None
  /\ UNCHANGED <<database, startup, accounts, index, provider, owed>>

-----------------------------------------------------------------------------
Serving == phase = "serving"
Gone == {l \in Logins : users[l] # None /\ users'[l] = None}

\* Requests need the process, commands only the database, which has the
\* current tables when they begin; deleting a user deletes what it owns.
Request ==
  /\ \/ \E c \in Clients : \/ Serving /\ Ask(c)
                           \/ (Serving \/ IsCommand(c)) /\ Handle(c)
     \/ Serving /\ \E s \in Sids : Expire(s)
  /\ tab' = Cascade(tab, Gone)
  /\ owed' = [unread |-> {x \in owed.unread : x[1] \notin Gone},
              favorite |-> {x \in owed.favorite : x[1] \notin Gone},
              labels |-> {r \in owed.labels : r.user \notin Gone}]
  /\ UNCHANGED <<version, startup, searching, faults>>

\* The process ends: a crash, an error of runServer, or the service is stopped.
End ==
  /\ phase # "down" /\ faults > 0 /\ faults' = faults - 1
  /\ phase' = "down" /\ cfg' = "none" /\ at' = 0 /\ provider' = FALSE /\ offset' = None
  /\ revoked' = RevokedOnDisk(revoked)
  /\ sessions' = [s \in Sids |-> None] /\ EndRequests
  /\ UNCHANGED <<database, conf, users, clients, history, index, owed>>

Next == Start \/ NewBleveFails \/ Reindex \/ ReindexFails \/ Request \/ End

\* The service is started again when it has ended (docker-compose.yml,
\* restart: unless-stopped), and nothing in a start waits for anything.
Spec == Init /\ [][Next]_vars /\ WF_vars(Start) /\ WF_vars(Reindex)

-----------------------------------------------------------------------------
\* What the tables say of unread, favorite and tagged articles survives every
\* upgrade and every end of the process in between (upgrade1to2 to upgrade3to4
\* of content/repo/sql/db/sqlite3/helper.go), also when the database cannot be
\* opened any more, and who is served has the current tables.
DataKept ==
  /\ Says(tab) = owed
  /\ Serving => /\ version = dbVersion /\ DOMAIN tab = ToSet(InitSQL)
                /\ tab[Labels].column = "tag_id"

\* There is an administrator whenever requests are served (initAdminUser and
\* deleteUser in api/user.go), unless the command took one away or a request
\* decided on a row that others had changed since it was read.
AdminRemains == Serving /\ ~excused => \E l \in All : users[l].admin

\* No handler runs for a request that came after its token was revoked or its
\* session logged out, across restarts, or whose user was deleted and not
\* created again (tokenValidator in api/auth.go, BoltStorage, Handler of
\* api/ttrss/handler.go).
RevokedStaysOut == \A c \in Clients : At(c, "handle") => req[c].void = {}

\* What a request asks for the row of its target.
Asked(r, before, after) ==
  CASE r.op = "addUser" -> before = None /\ after = [admin |-> r.form.admin, pass |-> r.form.pass]
    [] r.op = "add" -> after = [admin |-> FALSE, pass |-> r.form.pass]
    [] r.op \in {"deleteUser", "remove"} -> after = None
    [] r.op \in {"setSetting", "setUserSetting"} ->
         before # None /\ after = [before EXCEPT !.pass = IF r.form = Profile THEN @ ELSE r.form.pass]
    [] r.op = "set" -> before # None /\ (after.admin = before.admin \/ after.pass = before.pass)
    [] OTHER -> FALSE

\* A row of users changes only as a request for that user asked, in the field
\* it asked for, although Update (content/repo/sql/user.go) writes whole rows
\* and creates missing ones; others may have lost their change only when the
\* row was written between the read and the write of one request.
EditsApply ==
  [][\A l \in Logins : users'[l] # users[l] =>
       \/ phase = "opened" /\ All = {}
       \/ \E c \in Clients : /\ req[c] # Idle /\ req'[c] = Idle
                             /\ req[c].fresh => /\ req[c].target = l
                                                /\ Asked(req[c], users[l], users'[l])]_vars

\* The starts that cannot succeed: a database of version 1, whose upgrade
\* needs a table that is never created, or of a newer version; an end between
\* an upgrade and the row of its version; an end between the two renames of
\* the configuration; an end or an error while the search index is created,
\* which is never tried again, or during Reindex, which is never resumed.  An
\* index that could not be opened for once is missed until the next start.
Doomed ==
  \/ phase = "down" /\ (Stranded \/ version > dbVersion)
  \/ phase # "replace" /\ conf.path = "none" /\ conf.orig = "legacy"
  \/ faults < MaxFaults /\ index = Broken /\ phase # "creating"
  \/ faults < MaxFaults /\ index \notin {None, Broken} /\ index < Articles /\ offset = None
  \/ faults < MaxFaults /\ Serving /\ ~provider

\* Apart from these every start, also after ends at any other step, leads to a
\* server that serves with all stored articles in the search index (runServer,
\* main, NewBleve, Reindex of content/search/search.go); what is doomed stays so.
ComesUp == <>[](Serving /\ provider /\ index = Articles) \/ []<>Doomed
=============================================================================
