----------------------------- MODULE MCArticles -----------------------------
(***************************************************************************)
(* An instance of Articles: two feeds, three entries, a tag, filters of each *)
(* kind, and a request for each handler that marks articles.               *)
(***************************************************************************)
EXTENDS Articles

Entry(link, guid, title, date) == [link |-> link, guid |-> guid, title |-> title, date |-> date]

MCLinkWords == [l \in {"la", "lb", "lc"} |-> IF l = "la" THEN {"Ads"} ELSE {}]
MCUpper == {"Ads"}

(* The first feed changes the link of its first entry and has one that is two
   articles at once; the second has entries without a GUID.                  *)
MCDocs == (1 :> {<<Entry("lc", "g1", {"news"}, 5), Entry("lb", "g2", {"news"}, 7),
                   Entry("lc", "g2", {}, 3)>>})
          @@ (2 :> {<<Entry("la", NoWord, {"news"}, 3), Entry("lb", NoWord, {}, 9)>>})

Filter(url, notUrl, title, notTitle, tag, feeds, notFeeds) ==
  [url |-> url, notUrl |-> notUrl, title |-> title, notTitle |-> notTitle,
   tag |-> tag, feeds |-> feeds, notFeeds |-> notFeeds]

InFeed2 == <<Filter("Ads", FALSE, NoWord, FALSE, 0, {2}, FALSE)>>
NotInFeeds == <<Filter(NoWord, FALSE, "news", FALSE, 0, {1, 2}, TRUE)>>

MCRows == <<Row(1, Entry("la", "g1", {}, 2), 0)>>
MCStale == {<<"u1", 1>>}
MCSubscribed == {<<"u1", 1>>, <<"u1", 2>>, <<"u2", 1>>}
MCLabelled == {<<"u1", 1, 5>>}
MCProfiles == [u \in {"u1", "u2"} |-> IF u = "u1" THEN <<InFeed2>> ELSE <<NotInFeeds, <<>>>>]

MCAsks == [u \in {"u1", "u2"} |-> IF u = "u1" THEN
  {[to |-> "article", id |-> 1, state |-> "read", value |-> TRUE],
   [to |-> "articles", type |-> "tag", id |-> 5, query |-> NoQuery, state |-> "read", value |-> TRUE],
   [to |-> "update", ids |-> [type |-> "string", ids |-> {1, 2}], field |-> 2, mode |-> 2],
   [to |-> "articles", type |-> "feed", id |-> 1, query |-> [NoQuery EXCEPT !.beforeTime = 4],
    state |-> "favorite", value |-> TRUE],
   [to |-> "catchup", isCat |-> TRUE, id |-> 0],
   [to |-> "recent"],
   [to |-> "articles", type |-> "user", id |-> 0, query |-> [NoQuery EXCEPT !.beforeID = 3, !.afterID = 1],
    state |-> "read", value |-> FALSE],
   [to |-> "articles", type |-> "user", id |-> 0,
    query |-> [NoQuery EXCEPT !.id = {1, 3}, !.beforeTime = 7, !.beforeScore = 1],
    state |-> "favorite", value |-> TRUE],
   [to |-> "mark", mark |-> "group", id |-> 5, before |-> 9, as |-> "saved"]}
  ELSE {}]
=============================================================================
