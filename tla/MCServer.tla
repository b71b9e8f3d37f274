------------------------------ MODULE MCServer ------------------------------
(* Two logins with tokens, and databases of every version.                  *)
EXTENDS Server

MCSubjectOf == [t \in Tokens |-> IF t = "t2" THEN "u1" ELSE "admin"]

\* One article that is recent and unread, one that is read or old, a favorite,
\* a feed with a tag and one without.
Labelled == {[user |-> "u1", feed |-> 1, tag |-> "news"], [user |-> "u1", feed |-> 2, tag |-> ""]}
ByName == Labels :> [column |-> "tag", rows |-> Labelled]
Split == (Unread :> {<<"u1", 1>>}) @@ (Favorite :> {<<"u1", 2>>})
MCOld ==
  (0 :> <<>>)
  @@ (1 :> (ByName @@ ("users_articles_read" :> {<<"u1", 2>>})
                   @@ ("users_articles_fav" :> {<<"u1", 2>>, <<"u1", 1>>})))
  @@ (2 :> (ByName @@ (States :> {[user |-> "u1", article |-> 1, read |-> FALSE, favorite |-> FALSE],
                                  [user |-> "u1", article |-> 2, read |-> TRUE, favorite |-> TRUE],
                                  [user |-> "u1", article |-> 3, read |-> FALSE, favorite |-> TRUE]})))
  @@ (3 :> (ByName @@ Split))
  @@ (4 :> (Split @@ ("tags" :> {"news"})
              @@ (Labels :> [column |-> "tag_id", rows |-> {r \in Labelled : r.tag # ""}])))
  @@ (5 :> (Split @@ ("tags" :> {"news"})
              @@ (Labels :> [column |-> "tag_id", rows |-> {r \in Labelled : r.tag # ""}])))

Admin == [admin |-> TRUE, pass |-> "p"]
Nobody == [l \in Logins |-> None]
Two == [l \in Logins |-> Admin]

World(file, v, here, docs, tokens, ops, requests) ==
  [conf |-> file, version |-> v, users |-> here, index |-> docs, issued |-> tokens,
   uses |-> ops, left |-> requests]

MCWorlds ==
  {World("none", 0, Nobody, None, {}, {"tokenCreate", "getUserData", "deleteUser", "addUser", "add"}, 2)}
  \cup {World(file, v, Two, docs, {}, {}, 0) : file \in {"v2", "legacy"}, v \in 1..5, docs \in {None, Articles}}
  \cup {World("v2", 4, Two, Articles, w.tokens, w.ops, w.requests) : w \in {
      [tokens |-> {"t1", "t2"}, requests |-> 2,
       ops |-> {"addUser", "deleteUser", "setSetting", "setUserSetting"}],
      [tokens |-> {"t1"}, requests |-> 2, ops |-> {"deleteUser", "setUserSetting", "set", "remove"}],
      [tokens |-> {"t1"}, requests |-> 3, ops |-> {"deleteUser", "addUser", "tokenDelete", "listUsers"}],
      [tokens |-> {"t1"}, requests |-> 3, ops |-> {"login", "other", "remove", "tokenDelete", "createUserToken"}],
      [tokens |-> {"t1"}, requests |-> 4, ops |-> {"login", "other", "logout"}]}}
=============================================================================
