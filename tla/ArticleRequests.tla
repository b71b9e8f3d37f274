-------------------------- MODULE ArticleRequests ---------------------------
(***************************************************************************)
(* The handlers that list, count and mark articles: the REST interface     *)
(* (api/article.go, api/tag.go), the TT-RSS interface (api/ttrss) and the   *)
(* Fever interface (api/fever).                                            *)
(*                                                                         *)
(* A list that the database may return in several orders is the set of all *)
(* of them, and the empty set is an error. A request that marks articles is *)
(* a record [user, tag, writes]: its writes are still to be made one after  *)
(* another, and when tag is not 0, the feeds of the tag are to be read      *)
(* before.                                                                 *)
(***************************************************************************)
EXTENDS ArticleQuery

CONSTANTS FiveDaysAgo, DayAgo, QuarterAgo, Now,  \* dates, in this order
          ArticlesLimit                          \* API.Limits.ArticlesPerQuery

ASSUME DatesAssumption == /\ {FiveDaysAgo, DayAgo, QuarterAgo, Now} \subseteq Nat \ {0}
                          /\ FiveDaysAgo < DayAgo /\ DayAgo < QuarterAgo /\ QuarterAgo < Now

ASSUME LimitAssumption == ArticlesLimit \in Int

FAVORITE_ID == -1
FRESH_ID == -3
ALL_ID == -4
CAT_UNCATEGORIZED == 0
CAT_SPECIAL == -1
CAT_ALL_EXCEPT_VIRTUAL == -3
CAT_ALL == -4

Own(u) == Filters(GetUserFilters(u))
HasTag(u, t) == t \in TagsForUser(u)

-----------------------------------------------------------------------------
(* REST *)

Queries == [limit : Int, afterID : Int, beforeID : Int, afterTime : Nat, beforeTime : Nat,
            afterScore : Int, beforeScore : Int, id : SUBSET Int, unreadOnly : BOOLEAN,
            readOnly : BOOLEAN, unreadFirst : BOOLEAN, olderFirst : BOOLEAN]
NoQuery == [limit |-> 0, afterID |-> 0, beforeID |-> 0, afterTime |-> 0, beforeTime |-> 0,
            afterScore |-> 0, beforeScore |-> 0, id |-> {}, unreadOnly |-> FALSE,
            readOnly |-> FALSE, unreadFirst |-> FALSE, olderFirst |-> FALSE]

(* A negative limit is lower than the limit of the configuration. *)
ArticleQueryOptions(q, max) ==
  LET when(b, opt) == IF b THEN <<opt>> ELSE <<>>
  IN  <<Paging(IF max > 0 /\ (q.limit = 0 \/ q.limit > max) THEN max ELSE q.limit, 0)>>
      \o when(q.afterID > 0 \/ q.beforeID > 0, IDRange(q.afterID, q.beforeID))
      \o when(q.afterTime > 0 \/ q.beforeTime > 0, TimeRange(q.afterTime, q.beforeTime))
      \o when(q.afterScore > 0 \/ q.beforeScore > 0, ScoreRange(q.afterScore, q.beforeScore))
      \o when(q.id # {}, IDs(q.id))
      \o when(q.unreadOnly, UnreadOnly)
      \o when(q.readOnly, ReadOnly)
      \o when(q.unreadFirst, UnreadFirst)
      \o <<Sorting("date", ~q.olderFirst)>>

(* What a route adds: its type, with the feeds of the tag or the feed in the path. *)
RepoTypeOptions(type, feeds, until) ==
  CASE type = "user"        -> <<>>
    [] type = "favorite"    -> <<FavoriteOnly>>
    [] type \in {"tag", "feed"} -> <<FeedIDs(feeds)>>
    [] type = "popular"     -> <<IncludeScores, HighScoredFirst, TimeRange(FiveDaysAgo, until)>>
    [] type \in {"popular/tag", "popular/feed"} ->
         <<IncludeScores, HighScoredFirst, TimeRange(FiveDaysAgo, until), FeedIDs(feeds)>>

(* The feeds of a route, as a set of one list: none when the tag or the feed
   is not one of the user's (tagContext, feedContext).                       *)
RouteFeeds(u, type, id) ==
  CASE type \in {"tag", "popular/tag"}   -> IF HasTag(u, id) THEN {FeedsForTag(u, id)} ELSE {}
    [] type \in {"feed", "popular/feed"} -> IF <<u, id>> \in members THEN {{id}} ELSE {}
    [] OTHER -> {{}}

GetArticles(u, type, id, q) ==
  UNION {ForUser(u, ArticleQueryOptions(q, ArticlesLimit) \o <<Own(u)>>
                      \o RepoTypeOptions(type, feeds, QuarterAgo))
           : feeds \in RouteFeeds(u, type, id)}

(* Scores are not asked for, so that articles without one are among the IDs. *)
GetIDs(u, type, id, q) ==
  UNION {IDsForUser(u, ArticleQueryOptions(q, 50 * ArticlesLimit) \o <<Own(u)>>
                         \o RepoTypeOptions(type, feeds, Now))
           : feeds \in RouteFeeds(u, type, id)}

(* Search.Search on an index of all articles (content/search/bleve.go). The
   number of hits is limited before it is known whose feeds they are in, neither
   filters nor marks count, and a range of IDs is looked for in a field that no
   document has.                                                             *)
Search(u, word, opts) ==
  LET o == Apply(opts)
      hits == {i \in DOMAIN articles :
                 /\ word \in articles[i].title
                 /\ o.feedIDs # {} => articles[i].feed \in o.feedIDs
                 /\ o.beforeDate > 0 => articles[i].date < o.beforeDate
                 /\ o.afterDate > 0 => articles[i].date >= o.afterDate
                 /\ o.beforeID = 0 /\ o.afterID = 0}
      when(b, opt) == IF b THEN <<opt>> ELSE <<>>
      found(s) == IF s = <<>> THEN {<<>>}
                  ELSE ForUser(u, <<IDs(ToSet(s)), Sorting(o.sortField, o.descending)>>
                                  \o when(o.unreadFirst, UnreadFirst) \o when(o.unreadOnly, UnreadOnly))
  IN  UNION {found(SubSeq(s, 1, IF o.limit < Len(s) THEN o.limit ELSE Len(s)))
               : s \in Orders(hits, [i \in hits |-> SortKey(Nobody, o, i)])}

ArticleSearch(u, word, type, id, q) ==
  IF type \notin {"user", "feed", "tag"} THEN {}
  ELSE UNION {Search(u, word, ArticleQueryOptions(q, ArticlesLimit) \o <<Own(u)>>
                                \o RepoTypeOptions(type, feeds, Now))
                : feeds \in RouteFeeds(u, type, id)}

ListTags(u) == TagsForUser(u)
GetTagFeedIDs(u, t) == IF HasTag(u, t) THEN {FeedsForTag(u, t)} ELSE {}
GetFeedTags(u, f) == IF <<u, f>> \in members THEN {TagsForFeed(u, f)} ELSE {}
GetTagsFeedIDs(u) == [t \in TagsForUser(u) |-> FeedsForTag(u, t)]

Write(state, value, opts) == [state |-> state, value |-> value, opts |-> opts]
Marking(u, t, writes) == [user |-> u, tag |-> t, writes |-> writes]

ArticleContext(u, i) == Selected(u, Apply(<<IDs({i})>>))

(* What is so already is not written. *)
ArticleStateChange(u, i, state, value) ==
  LET previous == IF state = "read" THEN <<u, i>> \notin unread ELSE <<u, i>> \in favorite
  IN  IF i \in ArticleContext(u, i) /\ previous # value
      THEN {Marking(u, 0, <<Write(state, value, <<IDs({i})>>)>>)}
      ELSE {}

(* Neither a limit nor the filters of the user apply. *)
ArticlesStateChange(u, type, id, q, state, value) ==
  LET o == ArticleQueryOptions(q, 0)
  IN  CASE type = "tag" -> IF HasTag(u, id) THEN {Marking(u, id, <<Write(state, value, o)>>)} ELSE {}
        [] type \in {"user", "favorite", "feed"} ->
             {Marking(u, 0, <<Write(state, value, o \o RepoTypeOptions(type, feeds, Now))>>)
                : feeds \in RouteFeeds(u, type, id)}
        [] OTHER -> {}

-----------------------------------------------------------------------------
(* TT-RSS *)

(* The option for a category or a feed with an ID of its own. *)
Chosen(u, isCat, id) ==
  IF isCat THEN IF HasTag(u, id) THEN {<<FeedIDs(FeedsForTag(u, id))>>} ELSE {}
  ELSE IF <<u, id>> \in members THEN {<<FeedIDs({id})>>} ELSE {}

HeadlineView(mode) ==
  CASE mode \in {"all_articles", "adaptive"} -> {<<>>}
    [] mode = "unread" -> {<<UnreadOnly>>}
    [] mode = "marked" -> {<<FavoriteOnly>>}
    [] OTHER -> {}

HeadlineScope(u, r) ==
  CASE r.feedID > 0 -> Chosen(u, r.isCat, r.feedID)
    [] ~r.isCat /\ r.feedID = FAVORITE_ID -> {<<FavoriteOnly>>}
    [] ~r.isCat /\ r.feedID = FRESH_ID -> {<<TimeRange(DayAgo, 0)>>}
    [] OTHER -> {<<>>}

(* A feed_id of 0 is an error, so that "Uncategorized" cannot be listed. The
   since_id of a request is an upper bound.                                  *)
GetHeadlines(u, r) ==
  LET opts == <<Paging(IF r.limit = 0 THEN 200 ELSE r.limit, r.skip), UnreadFirst, Own(u),
                Sorting("date", r.orderBy # "date_reverse")>>
              \o IF r.sinceID > 0 THEN <<IDRange(0, r.sinceID)>> ELSE <<>>
  IN  IF r.feedID = 0 THEN {}
      ELSE IF r.search # NoWord
      THEN UNION {Search(u, r.search, opts \o scope) : scope \in HeadlineScope(u, r)}
      ELSE UNION {ForUser(u, opts \o scope \o view)
                    : scope \in HeadlineScope(u, r), view \in HeadlineView(r.viewMode)}

(* The parsed IDs; a list of numbers in JSON is not one of the cases. *)
ParseArticleIDs(v) == IF v.type = "array" THEN {} ELSE v.ids

GetArticle(u, v) == Selected(u, Apply(<<IDs(ParseArticleIDs(v)), Own(u)>>))

(* The articles that differ from what is asked are written, in two lists when
   the request toggles. Mode 0 clears and mode 1 sets a mark; a field other
   than the two is an error.                                                  *)
UpdateArticle(u, v, field, mode) ==
  LET S == GetArticle(u, v)
      marked == IF field = 0 THEN {i \in S : <<u, i>> \in favorite}
                             ELSE {i \in S : <<u, i>> \in unread}
      write(T, state, value) ==
        IF T = {} THEN <<>> ELSE <<Write(state, value, <<IDs(T), Own(u)>>)>>
      clear == IF mode \in {0, 2} THEN marked ELSE {}
      set == IF mode \in {1, 2} THEN S \ marked ELSE {}
      writes == IF field = 0
                THEN write(set, "favorite", TRUE) \o write(clear, "favorite", FALSE)
                ELSE write(clear, "read", TRUE) \o write(set, "read", FALSE)
  IN  IF field \in {0, 2} THEN {Marking(u, 0, writes)} ELSE {}

CatchupFeed(u, isCat, id) ==
  LET opts == <<TimeRange(0, Now), Own(u)>>
  IN  CASE isCat /\ id = CAT_UNCATEGORIZED ->
             {Marking(u, 0, <<Write("read", TRUE, opts \o <<UntaggedOnly>>)>>)}
        [] isCat /\ id # CAT_UNCATEGORIZED ->
             IF HasTag(u, id) THEN {Marking(u, id, <<Write("read", TRUE, opts)>>)} ELSE {}
        [] OTHER -> {Marking(u, 0, <<Write("read", TRUE, opts \o c)>>) : c \in Chosen(u, FALSE, id)}

Unread(u, opts) == Count(u, <<UnreadOnly>> \o opts \o <<Own(u)>>)

(* Entries <<ID, unread articles>>; the other special feeds always have 0. *)
SpecialFeeds(u) == {<<FAVORITE_ID, Unread(u, <<FavoriteOnly>>)>>,
                    <<FRESH_ID, Unread(u, <<TimeRange(DayAgo, 0)>>)>>,
                    <<ALL_ID, Unread(u, <<>>)>>}

FeedEntry(u, f) == <<f, Unread(u, <<FeedIDs({f})>>)>>

(* Feeds are in the order of their titles, here of their IDs. *)
GetFeeds(u, catID, limit, offset, unreadOnly) ==
  LET special == IF catID \in {CAT_ALL, CAT_SPECIAL} THEN SpecialFeeds(u) ELSE {}
      feeds == CASE catID \in {CAT_ALL, CAT_ALL_EXCEPT_VIRTUAL} -> FeedsForUser(u)
                 [] catID = CAT_UNCATEGORIZED -> {f \in FeedsForUser(u) : TagsForFeed(u, f) = {}}
                 [] catID > 0 -> FeedsForTag(u, catID)
                 [] OTHER -> {}
      place(f) == Cardinality({g \in feeds : g < f})
      page == {f \in feeds : limit > 0 => place(f) \in offset..(offset + limit - 1)}
  IN  {e \in special \cup {FeedEntry(u, f) : f \in page} : unreadOnly => e[2] > 0}

(* The entries of each category; a feed with two tags is in both. *)
GetFeedTree(u) ==
  [c \in TagsForUser(u) \cup {CAT_SPECIAL, CAT_UNCATEGORIZED} |->
     CASE c = CAT_SPECIAL -> SpecialFeeds(u)
       [] c = CAT_UNCATEGORIZED -> {FeedEntry(u, f) : f \in {f \in FeedsForUser(u) : TagsForFeed(u, f) = {}}}
       [] OTHER -> {FeedEntry(u, f) : f \in {f \in FeedsForUser(u) : c \in TagsForFeed(u, f)}}]

(* What is counted is not limited to unread articles, and neither is what
   getCounters gives for a feed and for all articles.                         *)
GetUnread(u, isCat, id) ==
  LET opts == CASE id > 0 -> Chosen(u, isCat, id)
                [] isCat /\ id = CAT_UNCATEGORIZED -> {<<UntaggedOnly>>}
                [] id = FAVORITE_ID -> {<<FavoriteOnly>>}
                [] ~isCat /\ id = FRESH_ID -> {<<TimeRange(DayAgo, 0)>>}
                [] OTHER -> {<<>>}
  IN  {Count(u, <<Own(u)>> \o o) : o \in opts}

(* The labels and the tags of a user, each with its unread articles. *)
TagEntries(u) == {<<t, Unread(u, <<FeedIDs(FeedsForTag(u, t))>>)>> : t \in TagsForUser(u)}

GetCounters(u) ==
  [globalUnread |-> Unread(u, <<>>),
   subscribedFeeds |-> Cardinality(FeedsForUser(u)),
   favorite |-> <<Unread(u, <<FavoriteOnly>>), Count(u, <<FavoriteOnly, Own(u)>>)>>,
   fresh |-> Unread(u, <<TimeRange(DayAgo, 0)>>),
   all |-> Count(u, <<Own(u)>>),
   feeds |-> {<<f, Count(u, <<FeedIDs({f}), Own(u)>>)>> : f \in FeedsForUser(u)},
   categories |-> TagEntries(u) \cup {<<CAT_UNCATEGORIZED, Unread(u, <<UntaggedOnly>>)>>}]

GetCategories(u, unreadOnly) ==
  {e \in TagEntries(u) \cup {<<CAT_UNCATEGORIZED, Unread(u, <<UntaggedOnly>>)>>,
                             <<CAT_SPECIAL, Unread(u, <<FavoriteOnly>>)>>}
     : unreadOnly => e[2] > 0}

-----------------------------------------------------------------------------
(* Fever *)

(* The default order is none, whatever its direction. *)
Items(u, withIDs, since, max) ==
  IF Count(u, <<>>) = 0 THEN {<<>>}
  ELSE ForUser(u, <<Paging(50, 0), Own(u)>>
                  \o (IF withIDs.given THEN <<IDs(withIDs.ids)>> ELSE <<>>)
                  \o (IF max > 0 THEN <<IDRange(0, max), Sorting("default", TRUE)>>
                      ELSE <<IDRange(since, 0), Sorting("default", FALSE)>>))

UnreadItemIDs(u) == IDsForUser(u, <<UnreadOnly, Own(u)>>)
SavedItemIDs(u) == IDsForUser(u, <<FavoriteOnly, Own(u)>>)

(* Without a range there is neither an error nor a list: the wrong variable
   is looked at. The range here is a pair of dates.                          *)
Links(u, range, page) ==
  CASE range = <<>> -> {}
    [] range # <<>> /\ page > 3 -> {<<>>}
    [] OTHER -> ForUser(u, <<TimeRange(range[1], range[2]), Paging(50, 50 * (page - 1)),
                             IncludeScores, Sorting("default", TRUE), Own(u)>>)

Groups(u) == [t \in TagsForUser(u) |-> FeedsForTag(u, t)]

UnreadRecent(u) == {Marking(u, 0, <<Write("read", FALSE, <<TimeRange(DayAgo, Now), Own(u)>>)>>)}

(* The feed of a mark is not looked up, and an ID of 0 is every feed. *)
MarkItem(u, mark, id, before, as) ==
  LET write(opts) == Write(IF as \in {"read", "unread"} THEN "read" ELSE "favorite",
                           as \in {"read", "saved"}, <<Own(u)>> \o opts)
      range == TimeRange(0, before)
  IN  CASE mark = "item" -> {Marking(u, 0, <<write(<<IDs({id})>>)>>)}
        [] mark # "item" /\ id = 0 -> {Marking(u, 0, <<write(<<range>>)>>)}
        [] mark = "feed" /\ id # 0 -> {Marking(u, 0, <<write(<<range, FeedIDs({id})>>)>>)}
        [] mark = "group" /\ id # 0 ->
             IF HasTag(u, id) THEN {Marking(u, id, <<write(<<range>>)>>)} ELSE {}
=============================================================================
