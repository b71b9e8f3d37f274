---------------------------- MODULE ArticleQuery ----------------------------
(***************************************************************************)
(* The tables of articles, subscriptions, tags, unread and favourite       *)
(* records, and the queries on them: content/article.go (the options of a  *)
(* query), content/repo/sql/article.go (the SQL that is put together from   *)
(* them), the queries on feeds and tags, and the statements of             *)
(* content/repo/sql/db/base.                                               *)
(*                                                                         *)
(* A query option is a record with the fields of QueryOptions that it      *)
(* sets. A date is a number, 0 being the zero time; a score of 0 stands for *)
(* no row in articles_scores. A title is the set of words that a filter may *)
(* look for in it; LinkWords gives those of a link.                        *)
(***************************************************************************)
EXTENDS Integers, Sequences, FiniteSets, SequencesExt

CONSTANTS Nobody,    \* the user of a query that is not for a user
          NoWord,    \* the term of a filter that has none
          Upper,     \* words that are not in lower case
          LinkWords, \* link |-> the words in it
          Many       \* from this many values on a column is asked with IN, 20 in the code

VARIABLES driver,    \* "sqlite3" or "postgres"
          articles,  \* the rows of the table articles, in the order of their IDs
          members,   \* the pairs of users_feeds
          tagged,    \* the triples of users_feeds_tags
          unread,    \* the pairs of users_articles_unread
          favorite,  \* the pairs of users_articles_favorite
          filters    \* user |-> the filters in the profile of the user

others == <<driver, articles, members, tagged, filters>>
tables == <<others, unread, favorite>>

-----------------------------------------------------------------------------
(* Options *)

DefaultOptions ==
  [limit |-> 0, offset |-> 0, readOnly |-> FALSE, unreadOnly |-> FALSE,
   unreadFirst |-> FALSE, favoriteOnly |-> FALSE, untaggedOnly |-> FALSE,
   includeScores |-> FALSE, highScoredFirst |-> FALSE,
   beforeID |-> 0, afterID |-> 0, beforeDate |-> 0, afterDate |-> 0,
   beforeScore |-> 0, afterScore |-> 0, ids |-> {}, feedIDs |-> {},
   filters |-> <<>>, sortField |-> "default", descending |-> FALSE]

Paging(limit, offset) == [limit |-> limit, offset |-> offset]
IDRange(after, before) == [afterID |-> after, beforeID |-> before]
IDs(s) == [ids |-> s]
FeedIDs(s) == [feedIDs |-> s]
TimeRange(after, before) == [afterDate |-> after, beforeDate |-> before]
ScoreRange(after, before) == [afterScore |-> after, beforeScore |-> before]
Filters(fs) == [filters |-> fs]
Sorting(field, descending) == [sortField |-> field, descending |-> descending]
ReadOnly == [readOnly |-> TRUE]
UnreadOnly == [unreadOnly |-> TRUE]
UnreadFirst == [unreadFirst |-> TRUE]
FavoriteOnly == [favoriteOnly |-> TRUE]
UntaggedOnly == [untaggedOnly |-> TRUE]
IncludeScores == [includeScores |-> TRUE]
HighScoredFirst == [highScoredFirst |-> TRUE]

(* Options are applied in order, so that the last that sets a field wins. *)
Apply(opts) ==
  [k \in DOMAIN DefaultOptions |->
     LET set == {n \in DOMAIN opts : k \in DOMAIN opts[n]}
     IN  IF set = {} THEN DefaultOptions[k] ELSE opts[Max(set)][k]]

Valid(f) == (f.url # NoWord \/ f.title # NoWord) /\ (f.tag = 0 \/ f.feeds # {})

-----------------------------------------------------------------------------
(* Conditions *)

(* The first of the columns of N that differs decides, as in a row value of SQL. *)
LexLess(s, t, N) == \E n \in N : s[n] < t[n] /\ \A m \in N : m < n => s[m] = t[m]

(* The columns with a bound *)
Bounded(bounds) == {n \in 1..3 : bounds[n] > 0}

Columns(i) == <<i, articles[i].date, articles[i].score>>

(* Wrong: the bounds themselves are in the range. *)
InClosedRange(o, i) ==
  /\ Bounded(<<o.beforeID, o.beforeDate, o.beforeScore>>) # {} => articles[i].date <= o.beforeDate
  /\ Bounded(<<o.afterID, o.afterDate, o.afterScore>>) # {} => articles[i].date >= o.afterDate

InRange(o, i) ==
  LET before == <<o.beforeID, o.beforeDate, o.beforeScore>>
      after  == <<o.afterID, o.afterDate, o.afterScore>>
  IN  /\ Bounded(before) # {} => LexLess(Columns(i), before, Bounded(before))
      /\ Bounded(after) # {} => LexLess(after, Columns(i), Bounded(after))

(* The clause for an ID and a score without a date is not valid SQL. *)
Malformed(o) == \/ o.beforeID > 0 /\ o.beforeScore > 0 /\ o.beforeDate = 0
                \/ o.afterID > 0 /\ o.afterScore > 0 /\ o.afterDate = 0

(* Values short of Many are compared one by one and combined with OR, also
   when they are to be different; from Many on it is IN or NOT IN.         *)
WhereMultipleORs(x, S, equal) ==
  IF Cardinality(S) < Many THEN \E y \in S : (x = y) = equal ELSE (x \in S) = equal

(* LOWER(column) LIKE '%term%': only SQLite ignores the case of the term. *)
Like(words, term) == term \in words /\ (driver = "sqlite3" \/ term \notin Upper)

(* The filter's list of feeds, cut down to those of the query. *)
FilteredFeeds(o, f) == IF o.feedIDs # {} THEN f.feeds \cap o.feedIDs ELSE f.feeds

(* Wrong: a filter whose list has nothing in common with the query's is kept. *)
HidesAlways(o, f, i) ==
  LET feeds == FilteredFeeds(o, f)
  IN  /\ Valid(f)
      /\ f.url # NoWord => Like(LinkWords[articles[i].link], f.url) # f.notUrl
      /\ f.title # NoWord => Like(articles[i].title, f.title) # f.notTitle
      /\ feeds # {} => WhereMultipleORs(articles[i].feed, feeds, ~f.notFeeds)

(* A filter whose list has nothing in common with the query's is left out. *)
Hides(o, f, i) ==
  LET feeds == FilteredFeeds(o, f)
  IN  /\ Valid(f)
      /\ f.feeds # {} => feeds # {}
      /\ f.url # NoWord => Like(LinkWords[articles[i].link], f.url) # f.notUrl
      /\ f.title # NoWord => Like(articles[i].title, f.title) # f.notTitle
      /\ feeds # {} => WhereMultipleORs(articles[i].feed, feeds, ~f.notFeeds)

(* Wrong: a tag of any user counts as one of the user. *)
MatchesTagged(u, o, i) ==
  /\ u # Nobody => /\ o.unreadOnly => <<u, i>> \in unread
                   /\ o.readOnly /\ ~o.unreadOnly => <<u, i>> \notin unread
                   /\ o.untaggedOnly => \A t \in tagged : t[2] # articles[i].feed
                   /\ o.favoriteOnly => <<u, i>> \in favorite
  /\ InRange(o, i)
  /\ o.includeScores \/ o.beforeScore > 0 \/ o.afterScore > 0 => articles[i].score > 0
  /\ o.ids # {} => i \in o.ids
  /\ o.feedIDs # {} => articles[i].feed \in o.feedIDs
  /\ \A n \in DOMAIN o.filters : ~Hides(o, o.filters[n], i)

(* A list that is empty restricts nothing. *)
Matches(u, o, i) ==
  /\ u # Nobody => /\ o.unreadOnly => <<u, i>> \in unread
                   /\ o.readOnly /\ ~o.unreadOnly => <<u, i>> \notin unread
                   /\ o.untaggedOnly => \A t \in tagged : t[1] # u \/ t[2] # articles[i].feed
                   /\ o.favoriteOnly => <<u, i>> \in favorite
  /\ InRange(o, i)
  /\ o.includeScores \/ o.beforeScore > 0 \/ o.afterScore > 0 => articles[i].score > 0
  /\ o.ids # {} => i \in o.ids
  /\ o.feedIDs # {} => articles[i].feed \in o.feedIDs
  /\ \A n \in DOMAIN o.filters : ~Hides(o, o.filters[n], i)

-----------------------------------------------------------------------------
(* Queries. The answer to one that is malformed is an error, here empty. *)

Visible(u) == {i \in DOMAIN articles : <<u, articles[i].feed>> \in members}

Selected(u, o) ==
  IF Malformed(o) THEN {}
  ELSE {i \in IF u = Nobody THEN DOMAIN articles ELSE Visible(u) : Matches(u, o, i)}

Directed(o, n) == IF o.descending THEN -n ELSE n

(* The columns of ORDER BY; DESC follows the score and the last of them. *)
SortKey(u, o, i) ==
  LET read == IF <<u, i>> \in unread THEN 0 ELSE 1
  IN  << IF o.includeScores /\ o.highScoredFirst THEN Directed(o, articles[i].score) ELSE 0,
         IF o.unreadFirst /\ u # Nobody
         THEN IF o.sortField = "default" THEN Directed(o, read) ELSE read
         ELSE 0,
         CASE o.sortField = "id"   -> Directed(o, i)
           [] o.sortField = "date" -> Directed(o, articles[i].date)
           [] OTHER                -> 0 >>

Page(s, o) ==
  IF o.limit <= 0 THEN s
  ELSE SubSeq(s, o.offset + 1, IF o.offset + o.limit < Len(s) THEN o.offset + o.limit ELSE Len(s))

(* The next row is one of those with the least key: equal ones come in any order. *)
Orders(S, key) ==
  LET next(s) == LET left == S \ ToSet(s)
                 IN  {Append(s, i) : i \in {i \in left : \A j \in left : ~LexLess(key[j], key[i], 1..3)}}
      starts[n \in 0..Cardinality(S)] ==
        IF n = 0 THEN {<<>>} ELSE UNION {next(s) : s \in starts[n - 1]}
  IN  starts[Cardinality(S)]

(* What the query may return. *)
ForUser(u, opts) ==
  LET o == Apply(opts)
      S == Selected(u, o)
  IN  {Page(s, o) : s \in Orders(S, [i \in S |-> SortKey(u, o, i)])}

All(opts) == Selected(Nobody, Apply(opts))

(* Counting and fetching IDs leave scores out of the query. *)
Count(u, opts) == Cardinality(Selected(u, [Apply(opts) EXCEPT !.includeScores = FALSE]))

(* The sets that may be returned: several when a limit cuts off equal rows. *)
IDsForUser(u, opts) ==
  LET o == [Apply(opts) EXCEPT !.includeScores = FALSE]
      S == Selected(u, o)
  IN  {ToSet(Page(s, o)) : s \in Orders(S, [i \in S |-> SortKey(u, o, i)])}

-----------------------------------------------------------------------------
(* Writes *)

(* Wrong: the record of every user is removed. *)
ReadOfAll(state, u, opts) ==
  LET S == Selected(u, Apply(opts))
  IN  /\ unread' = IF state THEN {r \in unread : r[2] \notin S} ELSE unread \cup ({u} \X S)
      /\ UNCHANGED <<others, favorite>>

Read(state, u, opts) ==
  \E o \in {Apply(opts)} : \E S \in {Selected(u, o)} :
      /\ unread' = IF state THEN unread \ ({u} \X S) ELSE unread \cup ({u} \X S)
      /\ UNCHANGED <<others, favorite>>

Favor(state, u, opts) ==
  LET S == Selected(u, Apply(opts))
  IN  /\ favorite' = IF state THEN favorite \cup ({u} \X S) ELSE favorite \ ({u} \X S)
      /\ UNCHANGED <<others, unread>>

(* The rows that updateFeedArticle changes for an entry; NULL equals nothing. *)
SameArticle(rows, f, e) ==
  {i \in DOMAIN rows : /\ rows[i].feed = f
                       /\ \/ rows[i].link = e.link
                          \/ rows[i].guid = e.guid /\ e.guid # NoWord}

(* What is stored of an entry of a feed, and when it is in the table *)
Entries == [link : DOMAIN LinkWords, guid : STRING \cup {NoWord}, title : SUBSET STRING, date : Nat]
RowsOf(feeds) == [feed : feeds, link : DOMAIN LinkWords, guid : STRING \cup {NoWord},
                  title : SUBSET STRING, date : Nat, score : Nat]

Row(f, e, score) == [feed |-> f, link |-> e.link, guid |-> e.guid, title |-> e.title,
                     date |-> e.date, score |-> score]

(* Wrong: what was there already is announced again. *)
StoreAsNew(acc, f, e) ==
  LET same == SameArticle(acc.rows, f, e)
      i == IF same = {} THEN Len(acc.rows) + 1 ELSE Min(same)
  IN  [acc EXCEPT !.rows = [n \in DOMAIN @ \cup {i} |-> IF n = i THEN Row(f, e, 0) ELSE @[n]],
                  !.new = Append(@, i)]

(* updateArticle. Two rows cannot get the same link, so that an entry which
   matches both fails; the failure is not returned.                         *)
StoreEntry(acc, f, e) ==
  LET same == SameArticle(acc.rows, f, e)
  IN  CASE Cardinality(same) > 1 -> [acc EXCEPT !.failed = TRUE]
        [] same = {} -> [acc EXCEPT !.rows = Append(@, Row(f, e, 0)), !.new = Append(@, Len(acc.rows) + 1)]
        [] OTHER -> [acc EXCEPT !.rows[Min(same)] = Row(f, e, @.score)]

(* PostgreSQL refuses all that follows a failure and the commit, so that
   nothing is stored; SQLite undoes the one statement.                      *)
Store(f, doc) ==
  LET after[n \in 0..Len(doc)] ==
        IF n = 0 THEN [rows |-> articles, new |-> <<>>, failed |-> FALSE]
        ELSE StoreEntry(after[n - 1], f, doc[n])
      all == after[Len(doc)]
  IN  [all EXCEPT !.failed = @ /\ driver = "postgres"]

-----------------------------------------------------------------------------
(* Feeds and tags of a user *)

GetUserFilters(u) == filters[u]
FeedsForUser(u) == {m[2] : m \in {m \in members : m[1] = u}}
TagsForUser(u) == {t[3] : t \in {t \in tagged : t[1] = u}}
TagsForFeed(u, f) == {t[3] : t \in {t \in tagged : t[1] = u /\ t[2] = f}}
FeedsForTag(u, t) == {x[2] : x \in {x \in tagged : x[1] = u /\ x[3] = t}}

AttachTo(f, u) ==
  /\ members' = members \cup {<<u, f>>}
  /\ UNCHANGED <<driver, articles, tagged, unread, favorite, filters>>

(* The tags of the feed stay. *)
DetachFrom(f, u) ==
  /\ members' = members \ {<<u, f>>}
  /\ UNCHANGED <<driver, articles, tagged, unread, favorite, filters>>

SetUserTags(f, u, ts) ==
  /\ <<u, f>> \in members
  /\ tagged' = {t \in tagged : t[1] # u \/ t[2] # f} \cup ({u} \X {f} \X ts)
  /\ UNCHANGED <<driver, articles, members, unread, favorite, filters>>
=============================================================================
