------------------------------ MODULE Database ------------------------------
(***************************************************************************)
(* Opening the database (content/repo/sql/db/db.go and the helper of a     *)
(* driver): the tables of the current version are created where they are   *)
(* missing, the upgrades from the stored version are run, each in a        *)
(* transaction of its own, and then the version is stored.  The database   *)
(* outlives the process, which may end between any two of these steps.     *)
(* Tables whose definition never changed are left out.                     *)
(***************************************************************************)
EXTENDS Integers, Sequences, SequencesExt

CONSTANTS Recent,   \* the articles of the last month
          Old       \* version |-> the tables of a database of that version

VARIABLES version,  \* the row of table readeef, 0 when there is none
          tab,      \* name |-> the table: the DOMAIN is what exists
          phase,    \* what the process is about to do
          at        \* the version that Upgrade has come to

database == <<version, tab>>
opening == <<phase, at>>

dbVersion == 4
Unread == "users_articles_unread"
Favorite == "users_articles_favorite"
States == "users_articles_states"
Labels == "users_feeds_tags"

\* Rows of Labels are [user, feed, tag]; column is "tag" up to version 3 and
\* "tag_id" since, when the tag is the row of table tags with that value.
InitSQL == <<"tags", Labels, Unread, Favorite>>   \* in the order of initSQL
Created ==
  [n \in ToSet(InitSQL) |-> IF n = Labels THEN [column |-> "tag_id", rows |-> {}] ELSE {}]

With(t, new) == [n \in DOMAIN t \cup DOMAIN new |-> IF n \in DOMAIN new THEN new[n] ELSE t[n]]
Without(t, names) == [n \in DOMAIN t \ names |-> t[n]]

(* Wrong: favorites are split like the unread, by the date of the article. *)
FavoriteSplitByDate(states) == {r \in states : r.favorite /\ r.article \in Recent}

\* What the statements of the upgrades select.
MergedStates(read, fav) ==
  {[user |-> x[1], article |-> x[2], read |-> x \in read, favorite |-> x \in fav] : x \in read \cup fav}
UnreadSplit(states) == {r \in states : ~r.read /\ r.article \in Recent}
FavoriteSplit(states) == {r \in states : r.favorite}
NamedLabels(labels) == {r \in labels : r.tag # ""}

Pairs(states) == {<<r.user, r.article>> : r \in states}

\* initSQL no longer creates the table that upgrade1to2 inserts into.
Upgrade1to2(t) ==
  Without(With(t, [n \in {States} |->
                     MergedStates(t["users_articles_read"], t["users_articles_fav"])]),
          {"users_articles_read", "users_articles_fav"})

Upgrade2to3(t) ==
  Without(With(t, [n \in {Unread, Favorite} |->
                     t[n] \cup Pairs(IF n = Unread THEN UnreadSplit(t[States])
                                                 ELSE FavoriteSplit(t[States]))]),
          {States})

Upgrade3to4(t) ==
  LET named == NamedLabels(t[Labels].rows)
  IN With(t, [n \in {"tags", Labels} |->
                IF n = Labels THEN [column |-> "tag_id", rows |-> named]
                              ELSE t["tags"] \cup {r.tag : r \in named}])

\* Each is one transaction, undone when a statement fails: a table or a column
\* that is not there, or rows that a primary or unique key refuses.
CanUpgrade(from, t) ==
  \/ from = 1 /\ States \in DOMAIN t
  \/ from = 2 /\ States \in DOMAIN t
     /\ t[Unread] \cap Pairs(UnreadSplit(t[States])) = {}
     /\ t[Favorite] \cap Pairs(FavoriteSplit(t[States])) = {}
  \/ from = 3 /\ t[Labels].column = "tag"
     /\ t["tags"] \cap {r.tag : r \in NamedLabels(t[Labels].rows)} = {}

Upgraded(from, t) ==
  CASE from = 1 -> Upgrade1to2(t) [] from = 2 -> Upgrade2to3(t) [] from = 3 -> Upgrade3to4(t)

\* The tables of a database of version v, of those that have changed since.
LabelsBy(t, column) == DOMAIN t[Labels] = {"column", "rows"} /\ t[Labels].column = column
OfVersion(v, t) ==
  CASE v = 0 -> DOMAIN t = {}
    [] v = 1 -> DOMAIN t = {Labels, "users_articles_read", "users_articles_fav"} /\ LabelsBy(t, "tag")
    [] v = 2 -> DOMAIN t = {Labels, States} /\ LabelsBy(t, "tag")
    [] v = 3 -> DOMAIN t = {Labels, Unread, Favorite} /\ LabelsBy(t, "tag")
    [] v = 4 -> DOMAIN t = ToSet(InitSQL) /\ LabelsBy(t, "tag_id")
    [] OTHER -> TRUE

ASSUME OldAssumption == \A v \in DOMAIN Old : v \in Nat /\ OfVersion(v, Old[v])

-----------------------------------------------------------------------------
\* init creates one missing table after the other ...
InitTable ==
  /\ phase = "init"
  /\ \E i \in 1..Len(InitSQL) :
       /\ InitSQL[i] \notin DOMAIN tab
       /\ \A j \in 1..(i - 1) : InitSQL[j] \in DOMAIN tab
       /\ tab' = With(tab, [n \in {InitSQL[i]} |-> Created[n]])
  /\ UNCHANGED <<version, opening>>

\* ... and reads the version: no row is the current one, a newer one panics.
ReadVersion ==
  /\ phase = "init" /\ ToSet(InitSQL) \subseteq DOMAIN tab
  /\ at' = IF version = 0 THEN dbVersion ELSE version
  /\ phase' = IF at' > dbVersion THEN "down" ELSE "upgrade"
  /\ UNCHANGED database

\* Upgrade runs one upgrade in a round of its loop; Open fails with it.
Upgrade ==
  /\ phase = "upgrade" /\ at < dbVersion
  /\ IF CanUpgrade(at, tab)
     THEN tab' = Upgraded(at, tab) /\ at' = at + 1 /\ UNCHANGED phase
     ELSE phase' = "down" /\ UNCHANGED <<tab, at>>
  /\ UNCHANGED version

\* DELETE FROM readeef and INSERT INTO readeef are two statements.
ClearVersion ==
  /\ phase = "upgrade" /\ at = dbVersion
  /\ version' = 0 /\ phase' = "version"
  /\ UNCHANGED <<tab, at>>

StoreVersion ==
  /\ phase = "version"
  /\ version' = dbVersion /\ phase' = "opened"
  /\ UNCHANGED <<tab, at>>

Open == InitTable \/ ReadVersion \/ Upgrade \/ ClearVersion \/ StoreVersion

-----------------------------------------------------------------------------
\* ON DELETE CASCADE: the rows of users that are deleted go with them.
Cascade(t, gone) ==
  [n \in DOMAIN t |->
     CASE n \in {Unread, Favorite} -> {x \in t[n] : x[1] \notin gone}
       [] n = Labels -> [t[n] EXCEPT !.rows = {r \in @ : r.user \notin gone}]
       [] OTHER -> t[n]]

\* What the tables of any version say of the recently unread, the favorite and
\* the tagged.
Says(t) ==
  LET rows(n) == IF n \in DOMAIN t THEN t[n] ELSE {}
      labels == IF Labels \in DOMAIN t THEN t[Labels].rows ELSE {}
  IN [unread |-> rows(Unread) \cup Pairs({r \in rows(States) : ~r.read /\ r.article \in Recent}),
      favorite |-> rows(Favorite) \cup rows("users_articles_fav")
                     \cup Pairs({r \in rows(States) : r.favorite}),
      labels |-> {r \in labels : r.tag # ""}]

\* The process ended between an upgrade and the row that says so.
Stranded == version \in 1..3 /\ ~CanUpgrade(version, With(Created, tab))
=============================================================================
