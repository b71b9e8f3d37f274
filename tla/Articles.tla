------------------------------ MODULE Articles ------------------------------
(***************************************************************************)
(* The life of the articles of a feed: the feed is polled and stored       *)
(* (content/repo/sql/feed.go), the monitor of unread articles marks what is *)
(* new for every user (content/monitor/unread.go), and users subscribe,     *)
(* tag, filter and mark through the three interfaces, each request in the   *)
(* steps in which it reads and writes the database.                        *)
(***************************************************************************)
EXTENDS ArticleRequests

CONSTANTS Users, Feeds, Tags,
          Docs,         \* feed |-> the documents it may be fetched as, lists of entries
          Rows, Subscribed, Labelled, Stale,  \* what is stored at the start
          Asks,         \* user |-> the requests of the user that mark articles
          Profiles,     \* user |-> the filters of the user at the start and later
          MaxPolls, MaxAsked, MaxEdits, MaxFailures  \* bounds of the model

(* The requests that mark articles. An ID of a request may be that of nothing. *)
Requests ==
  [to : {"article"}, id : Int, state : {"read", "favorite"}, value : BOOLEAN]
    \cup [to : {"articles"}, type : {"user", "favorite", "popular", "tag", "feed"}, id : Int,
          query : Queries, state : {"read", "favorite"}, value : BOOLEAN]
    \cup [to : {"update"}, ids : [type : {"number", "string", "array"}, ids : SUBSET Int],
          field : 0..3, mode : 0..3]
    \cup [to : {"catchup"}, isCat : BOOLEAN, id : Int]
    \cup [to : {"recent"}]
    \cup [to : {"mark"}, mark : {"item", "feed", "group"}, id : Int, before : Nat \ {0},
          as : {"read", "unread", "saved", "unsaved"}]

(* Feeds and tags have positive IDs, and nobody is not a user. *)
ASSUME NamesAssumption == Nobody \notin Users /\ Feeds \cup Tags \subseteq Nat \ {0}

ASSUME TablesAssumption ==
  /\ Rows \in Seq(RowsOf(Feeds))
  /\ Subscribed \subseteq Users \X Feeds /\ Labelled \subseteq Users \X Feeds \X Tags
  /\ Stale \subseteq Users \X DOMAIN Rows

ASSUME InputsAssumption ==
  /\ \A f \in Feeds : Docs[f] \subseteq Seq(Entries)
  /\ \A u \in Users : Asks[u] \subseteq Requests

VARIABLES events,    \* the feed updates that the monitor is yet to receive
          monitor,   \* [ids, todo, filters]: the update that it is working on
          requests,  \* user |-> the request that is being handled
          old,       \* the unread records that are older than a month
          announced, \* pairs of a user and an article that was new to a feed of the user
          handled,   \* pairs that the monitor is done with
          polls, asked, edits, failures

control == <<events, monitor, requests, old, announced, handled>>
counters == <<polls, asked, edits, failures>>
vars == <<tables, control, counters>>

Idle == [ids |-> {}, todo |-> {}, filters |-> <<>>]
NoRequest == [user |-> Nobody, tag |-> 0, writes |-> <<>>, ask |-> [to |-> "none"], feeds |-> {}]

Init ==
  /\ driver \in {"sqlite3", "postgres"}
  /\ articles = Rows
  /\ members = Subscribed /\ tagged = Labelled
  /\ unread = Stale /\ old = Stale /\ favorite = {}
  /\ filters = [u \in Users |-> Head(Profiles[u])]
  /\ events = <<>> /\ monitor = Idle
  /\ requests = [u \in Users |-> NoRequest]
  /\ announced = {} /\ handled = {}
  /\ polls = 0 /\ asked = 0 /\ edits = 0 /\ failures = 0

-----------------------------------------------------------------------------
(* The feed *)

(* Update: the event is dispatched when the transaction is committed and
   something is new (content/repo/eventable/feed.go).                       *)
Update(f, doc) ==
  LET s == Store(f, doc)
      new == ToSet(s.new)
  IN  /\ polls < MaxPolls
      /\ polls' = polls + 1
      /\ articles' = IF s.failed THEN articles ELSE s.rows
      /\ events' = IF s.failed \/ new = {} THEN events ELSE Append(events, new)
      /\ announced' = IF s.failed THEN announced
                      ELSE announced \cup {<<m[1], i>> : m \in {m \in members : m[2] = f}, i \in new}
      /\ UNCHANGED <<driver, members, tagged, filters, unread, favorite, monitor, requests,
                     old, handled, asked, edits, failures>>

(* The program that counts mentions of a link gives its article a score. *)
Scored(i) ==
  /\ edits < MaxEdits /\ articles[i].score = 0
  /\ edits' = edits + 1
  /\ articles' = [articles EXCEPT ![i].score = 1]
  /\ UNCHANGED <<driver, members, tagged, filters, unread, favorite, control,
                 polls, asked, failures>>

-----------------------------------------------------------------------------
(* The monitor of unread articles *)

(* The users are read once, and with them their filters. *)
MonitorTake ==
  /\ monitor.todo = {} /\ events # <<>>
  /\ monitor' = [ids |-> Head(events), todo |-> Users, filters |-> filters]
  /\ events' = Tail(events)
  /\ UNCHANGED <<tables, requests, old, announced, handled, counters>>

(* The list of users cannot be read: the update is given up. *)
MonitorGivesUp ==
  /\ monitor.todo = {} /\ events # <<>> /\ failures < MaxFailures
  /\ events' = Tail(events)
  /\ failures' = failures + 1
  /\ UNCHANGED <<tables, monitor, requests, old, announced, handled, polls, asked, edits>>

MonitorDone(us) ==
  /\ monitor' = IF monitor.todo = us THEN Idle ELSE [monitor EXCEPT !.todo = @ \ us]
  /\ UNCHANGED <<events, requests, old, announced, polls, asked, edits>>

(* Wrong: the loop ends after the first user. *)
MonitorMarkFirst(u) ==
  /\ u \in monitor.todo
  /\ MonitorDone(monitor.todo)
  /\ handled' = handled \cup ({u} \X monitor.ids)
  /\ Read(FALSE, u, <<IDs(monitor.ids), Filters(monitor.filters[u])>>)
  /\ UNCHANGED failures

(* The articles become unread for one more user. *)
MonitorMark(u) ==
  /\ u \in monitor.todo
  /\ MonitorDone({u})
  /\ handled' = handled \cup ({u} \X monitor.ids)
  /\ Read(FALSE, u, <<IDs(monitor.ids), Filters(monitor.filters[u])>>)
  /\ UNCHANGED failures

(* The statement fails, and the loop goes on with the next user. *)
MonitorSkip(u) ==
  /\ u \in monitor.todo /\ failures < MaxFailures
  /\ failures' = failures + 1
  /\ MonitorDone({u})
  /\ UNCHANGED <<tables, handled>>

(* Stale records are removed at the start and a day later. The records of the
   model are stale at the start or not at all.                                *)
RemoveStaleUnreadRecords ==
  /\ old # {}
  /\ unread' = unread \ old /\ old' = {}
  /\ UNCHANGED <<others, favorite, events, monitor, requests, announced, handled, counters>>

-----------------------------------------------------------------------------
(* Users *)

Edit(action) ==
  /\ edits < MaxEdits
  /\ edits' = edits + 1
  /\ action
  /\ UNCHANGED <<control, polls, asked, failures>>

SetFilters(u, fs) ==
  /\ fs # filters[u]
  /\ filters' = [filters EXCEPT ![u] = fs]
  /\ UNCHANGED <<driver, articles, members, tagged, unread, favorite>>

(* The requests that mark articles, by handler. *)
Plans(u, a) ==
  CASE a.to = "article"  -> ArticleStateChange(u, a.id, a.state, a.value)
    [] a.to = "articles" -> ArticlesStateChange(u, a.type, a.id, a.query, a.state, a.value)
    [] a.to = "update"   -> UpdateArticle(u, a.ids, a.field, a.mode)
    [] a.to = "catchup"  -> CatchupFeed(u, a.isCat, a.id)
    [] a.to = "recent"   -> UnreadRecent(u)
    [] a.to = "mark"     -> MarkItem(u, a.mark, a.id, a.before, a.as)

(* A request reads what it needs to check and to build its writes. *)
Begin(u, a) ==
  /\ requests[u] = NoRequest /\ asked < MaxAsked
  /\ asked' = asked + 1
  /\ \E m \in Plans(u, a) :
       requests' = [requests EXCEPT ![u] = [user |-> m.user, tag |-> m.tag, writes |-> m.writes,
                                            ask |-> a, feeds |-> {}]]
  /\ UNCHANGED <<tables, events, monitor, old, announced, handled, polls, edits, failures>>

(* The feeds of the tag are read after the tag itself. *)
ResolveTag(u) ==
  LET r == requests[u]
      feeds == FeedsForTag(u, r.tag)
      restricted == [n \in DOMAIN r.writes |-> [r.writes[n] EXCEPT !.opts = Append(@, FeedIDs(feeds))]]
  IN  /\ r.tag # 0
      /\ requests' = [requests EXCEPT ![u] = [user |-> r.user, tag |-> 0, writes |-> restricted,
                                              ask |-> r.ask, feeds |-> feeds]]
      /\ UNCHANGED <<tables, events, monitor, old, announced, handled, counters>>

(* One write after another; the request ends with the last. *)
WriteNext(u) ==
  LET r == requests[u]
      w == Head(r.writes)
  IN  /\ r.tag = 0 /\ r.writes # <<>>
      /\ IF w.state = "read" THEN Read(w.value, u, w.opts) ELSE Favor(w.value, u, w.opts)
      /\ old' = old \cap unread'
      /\ requests' = [requests EXCEPT ![u] =
           IF Len(r.writes) = 1 THEN NoRequest
           ELSE [user |-> r.user, tag |-> 0, writes |-> Tail(r.writes), ask |-> r.ask, feeds |-> r.feeds]]
      /\ UNCHANGED <<events, monitor, announced, handled, counters>>

(* Nothing is left to write, or a read or write failed: what was written stays. *)
Answer(u) ==
  /\ requests[u] # NoRequest
  /\ \/ requests[u].writes = <<>> /\ UNCHANGED failures
     \/ failures < MaxFailures /\ failures' = failures + 1
  /\ requests' = [requests EXCEPT ![u] = NoRequest]
  /\ UNCHANGED <<tables, events, monitor, old, announced, handled, polls, asked, edits>>

UserStep(u) ==
  \/ \E f \in Feeds : \/ <<u, f>> \notin members /\ Edit(AttachTo(f, u))
                      \/ <<u, f>> \in members /\ Edit(DetachFrom(f, u))
                      \/ \E ts \in SUBSET Tags : ts # TagsForFeed(u, f) /\ Edit(SetUserTags(f, u, ts))
  \/ \E fs \in ToSet(Profiles[u]) : Edit(SetFilters(u, fs))
  \/ \E a \in Asks[u] : Begin(u, a)
  \/ ResolveTag(u) \/ WriteNext(u) \/ Answer(u)

MonitorStep == MonitorTake \/ MonitorGivesUp \/ \E u \in Users : MonitorMark(u) \/ MonitorSkip(u)

Next ==
  \/ \E f \in Feeds : \E doc \in Docs[f] : Update(f, doc)
  \/ \E i \in DOMAIN articles : Scored(i)
  \/ MonitorStep
  \/ RemoveStaleUnreadRecords
  \/ \E u \in Users : UserStep(u)

(* The monitor is a goroutine that nothing stops before the program ends. *)
Spec == Init /\ [][Next]_vars /\ WF_vars(MonitorStep)

-----------------------------------------------------------------------------
(* Properties *)

(* The articles that a request names. A tag without feeds and a list without
   IDs name them all: an empty list is no restriction (sql/article.go:417, 428). *)
Names(r, i) ==
  LET a == r.ask
      feed == articles[i].feed
      ofTag == r.feeds = {} \/ feed \in r.feeds
  IN  /\ a.to = "article" => i = a.id
      /\ a.to = "update" => ParseArticleIDs(a.ids) = {} \/ i \in a.ids.ids
      /\ a.to = "recent" => articles[i].date \in (DayAgo + 1)..(Now - 1)
      /\ a.to = "articles" =>
           LET q == a.query
           IN  /\ a.type = "feed" => feed = a.id
               /\ a.type = "tag" => ofTag
               /\ a.type = "favorite" => <<r.user, i>> \in favorite
               /\ q.id # {} => i \in q.id
               /\ q.beforeID > 0 => i <= q.beforeID
               /\ q.beforeTime > 0 /\ q.beforeID <= 0 =>
                    \/ articles[i].date < q.beforeTime
                    \/ q.beforeScore > 0 /\ articles[i].date = q.beforeTime
      /\ a.to = "catchup" =>
           /\ articles[i].date < Now
           /\ ~a.isCat => feed = a.id
           /\ a.isCat /\ a.id # CAT_UNCATEGORIZED => ofTag
           /\ a.isCat /\ a.id = CAT_UNCATEGORIZED => TagsForFeed(r.user, feed) = {}
      /\ a.to = "mark" =>
           /\ a.mark = "item" => i = a.id
           /\ a.mark # "item" => articles[i].date < a.before
           /\ a.mark = "feed" /\ a.id # 0 => feed = a.id
           /\ a.mark = "group" /\ a.id # 0 => ofTag

(* Marks change for one user at a time and only on articles of feeds that the
   user is subscribed to: the articles that the request of this user names,
   whatever else is stored, tagged or marked between its steps; the new ones
   that the monitor marks as unread; or stale records that are removed.       *)
MarksAreAsked ==
  [][\A u \in Users : \A i \in DOMAIN articles :
       (<<u, i>> \in unread) # (<<u, i>> \in unread') \/ (<<u, i>> \in favorite) # (<<u, i>> \in favorite')
       => \/ old' # old /\ <<u, i>> \in old
          \/ /\ <<u, articles[i].feed>> \in members
             /\ \/ monitor' # monitor /\ u \in monitor.todo /\ i \in monitor.ids
                \/ requests' # requests /\ requests[u] # requests'[u] /\ Names(requests[u], i)]_vars

(* The monitor marks an article as unread at most once for a user, however
   often its feed is polled and whatever changes in the feed: an article that
   has been read after that stays read until the user marks it.               *)
MonitorMarksOnce ==
  [][\A u \in Users : \A i \in DOMAIN articles :
       monitor' # monitor /\ <<u, i>> \in unread' \ unread => <<u, i>> \notin handled]_vars

(* Lists depend on the tables alone: they are compared between requests and
   between the updates that the monitor takes.                                *)
Quiet == requests = [u \in Users |-> NoRequest] /\ monitor = Idle

(* What a client gets of the three interfaces agrees, whatever the filters of
   the user, as long as the answers are not cut off: Fever and TT-RSS list the
   same unread and favourite articles, a list of articles of REST shows only
   articles whose IDs are in the list of IDs of the same route, and so do the
   items and links of Fever; a search in a feed finds what is there unless it is
   too much. No unread article is missing in the list of its feed, which both
   interfaces have, and the lists of the feeds show no more than the list of all
   unless the list of feeds of a filter is inverted.                            *)
ListsAgree ==
  Quiet => \A u \in Users :
    LET plain == \A n \in DOMAIN filters[u] : ~filters[u][n].notFeeds
        fits(answers, n) == \A ids \in answers : Cardinality(ids) <= n
        whole(answers) == ArticlesLimit > 0 => fits(answers, 50 * ArticlesLimit - 1)
        headlines(id, mode) ==
          {ToSet(s) : s \in GetHeadlines(u, [feedID |-> id, isCat |-> FALSE, viewMode |-> mode, limit |-> 0, skip |-> 0,
                                             sinceID |-> 0, search |-> NoWord, orderBy |-> "feed_dates"])}
        unreadOf(f) == GetIDs(u, "feed", f, [NoQuery EXCEPT !.unreadOnly = TRUE])
        routes == ({"user", "favorite", "popular"} \X {0}) \cup ({"feed"} \X FeedsForUser(u))
                  \cup ({"popular/tag"} \X TagsForUser(u))
    IN  /\ fits(UnreadItemIDs(u), 200) => headlines(ALL_ID, "unread") = UnreadItemIDs(u)
        /\ fits(SavedItemIDs(u), 200) => headlines(FAVORITE_ID, "adaptive") = SavedItemIDs(u)
        /\ \A r \in routes :
             whole(GetIDs(u, r[1], r[2], NoQuery)) =>
               \A ids \in GetIDs(u, r[1], r[2], NoQuery) :
                 \A s \in GetArticles(u, r[1], r[2], NoQuery) : ToSet(s) \subseteq ids
        /\ whole(GetIDs(u, "user", 0, NoQuery)) =>
             \A ids \in GetIDs(u, "user", 0, NoQuery) :
               /\ \A s \in Items(u, [given |-> FALSE], 0, 0) :
                    ToSet(s) \subseteq ids /\ (Cardinality(ids) <= 50 => ToSet(s) = ids)
               /\ \A s \in Links(u, <<FiveDaysAgo, Now>>, 1) : ToSet(s) \subseteq ids
        /\ \A f \in FeedsForUser(u) : \A w \in UNION {articles[i].title : i \in DOMAIN articles} :
             LET hits == {i \in DOMAIN articles : articles[i].feed = f /\ w \in articles[i].title}
             IN  \A s \in ArticleSearch(u, w, "feed", f, NoQuery) :
                   ToSet(s) \subseteq hits /\ (Cardinality(hits) <= ArticlesLimit => ToSet(s) = hits)
        /\ \A t \in ListTags(u), f \in FeedsForUser(u) :
             (f \in UNION GetTagFeedIDs(u, t)) = (t \in UNION GetFeedTags(u, f))
        /\ (\A f \in FeedsForUser(u) : whole(unreadOf(f))) =>
             LET each == UNION {UNION unreadOf(f) : f \in FeedsForUser(u)}
             IN  /\ \A all \in UnreadItemIDs(u) : all \subseteq each /\ (plain => all = each)
                 /\ \A f \in FeedsForUser(u) :
                      fits(unreadOf(f), 200) => headlines(f, "unread") = unreadOf(f)

(* The sum of the numbers of the entries *)
SumOf(entries) == Cardinality(UNION {{e[1]} \X (1..e[2]) : e \in entries})

(* With filters that are not inverted, the number that getCategories gives for
   a tag or for no tag is the sum of what getFeedTree shows under it, also when
   a feed has been left whose tags remain, and getFeeds shows the same feeds;
   getCounters counts what getUnread and Fever count.                         *)
CategoriesAddUp ==
  Quiet => \A u \in Users :
    (\A n \in DOMAIN filters[u] : ~filters[u][n].notFeeds) =>
      LET tree == GetFeedTree(u)
          given == GetCounters(u)
          shown(c) == IF c \in DOMAIN tree THEN {e \in tree[c] : e[2] > 0} ELSE {}
      IN  /\ \A e \in GetCategories(u, FALSE) :
               e[1] # CAT_SPECIAL => e[2] = SumOf(shown(e[1])) /\ GetFeeds(u, e[1], 0, 0, TRUE) = shown(e[1])
          /\ GetCategories(u, FALSE) \ given.categories \subseteq {CAT_SPECIAL} \X Nat
          /\ \A ids \in UnreadItemIDs(u) : given.globalUnread = Cardinality(ids)
          /\ GetUnread(u, FALSE, ALL_ID) = {given.all}
          /\ \A e \in given.feeds : GetUnread(u, FALSE, e[1]) = {e[2]}

(* The dates that a client sees which asks for one page after another, each
   before the last date of the one before (rf-ng/src/app/services/article.ts). *)
Pages(u, q) ==
  LET page(before) == CHOOSE s \in GetArticles(u, "user", 0, [q EXCEPT !.beforeTime = before]) : TRUE
      cursor[k \in 0..Cardinality(DOMAIN articles)] ==
        IF k = 0 THEN [before |-> 0, seen |-> {}]
        ELSE LET c == cursor[k - 1]
                 s == page(c.before)
             IN  IF s = <<>> THEN c
                 ELSE [before |-> articles[Last(s)].date, seen |-> c.seen \cup ToSet(s)]
  IN  cursor[Cardinality(DOMAIN articles)].seen

(* Such paging shows every article of the list when no two of them have the
   same date.                                                                 *)
PagesComplete ==
  Quiet => \A u \in Users :
    LET listed == Selected(u, Apply(<<Own(u)>>))
    IN  (\A i, j \in listed : articles[i].date = articles[j].date => i = j)
        => Pages(u, [NoQuery EXCEPT !.limit = 1]) = listed

(* An article that was new to a feed of a user is marked as unread, or is
   hidden by a filter, unless the marking failed: the events and the pairs
   handled only grow in number, so that it is enough to catch up again and
   again.                                                                     *)
EventuallyMarked == []<>(announced \subseteq handled \/ failures > 0)
=============================================================================
