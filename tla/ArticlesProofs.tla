---------------------------- MODULE ArticlesProofs ---------------------------
(***************************************************************************)
(* The safety properties of Articles for every number of users, feeds and  *)
(* articles, every document of a feed and every filter.                    *)
(*                                                                         *)
(*   induction    facts about Nat, from the well-foundedness of <          *)
(*   options      what a list of options amounts to                        *)
(*   requests     every handler plans writes within what is asked          *)
(*   monitor      the invariant OInv: MonitorMarksOnce                     *)
(*   marks        the invariant RInv: MarksAreAsked                        *)
(*   counting     the invariant LInv: CategoriesAddUp rests on Partition   *)
(*   orders       what ORDER BY and LIMIT return                           *)
(*   pages        by induction over the pages: PagesComplete               *)
(*   lists        the lists of the three interfaces: ListsAgree            *)
(***************************************************************************)
EXTENDS Articles, FiniteSetTheorems, FunctionTheorems, WellFoundedInduction, TLAPS

-----------------------------------------------------------------------------
(* Induction *)

(* A set of naturals has a least element. *)
LEMMA Least ==
  ASSUME NEW T, T \subseteq Nat, T # {}
  PROVE  \E x \in T : \A y \in T : x <= y
<1> DEFINE R == {ss \in Nat \X Nat : ss[1] < ss[2]}
<1>1. IsWellFoundedOn(R, Nat)
  BY NatLessThanWellFounded DEF OpToRel
<1>2. \A m, n \in Nat : <<m, n>> \notin R => n <= m
  OBVIOUS
<1> HIDE DEF R
<1>3. PICK x \in T : \A y \in T : <<y, x>> \notin R
  BY <1>1, WFMin
<1> QED
  BY <1>2, <1>3

(* Induction with a set in place of a predicate. *)
LEMMA SetInduction ==
  ASSUME NEW S, 0 \in S, \A n \in Nat : n \in S => n + 1 \in S
  PROVE  Nat \subseteq S
<1> SUFFICES ASSUME Nat \ S # {} PROVE FALSE
  OBVIOUS
<1>1. PICK x \in Nat \ S : \A y \in Nat \ S : x <= y
  BY Least
<1>2. x # 0
  BY <1>1
<1>3. x - 1 \in Nat
  BY <1>1, <1>2
<1>4. x - 1 \in S
  BY <1>1, <1>3
<1> QED
  BY <1>1, <1>3, <1>4

(* A set of numbers up to n has a greatest element. *)
LEMMA Greatest ==
  ASSUME NEW n \in Nat, NEW T, T \subseteq 1 .. n, T # {}
  PROVE  Max(T) \in T /\ \A y \in T : y <= Max(T)
<1> DEFINE D == {m \in Nat : \E y \in T : m = n - y}
<1>1. D \subseteq Nat /\ D # {}
  <2>1. PICK y \in T : TRUE
    OBVIOUS
  <2>2. n - y \in D
    BY <2>1
  <2> QED
    BY <2>2
<1>2. PICK d \in D : \A e \in D : d <= e
  BY <1>1, Least
<1>3. PICK x \in T : d = n - x
  BY <1>2
<1>4. \A y \in T : x >= y
  BY <1>2, <1>3
<1> QED
  BY <1>4 DEF Max

-----------------------------------------------------------------------------
(* Options *)

Override(o, opt) == [k \in DOMAIN DefaultOptions |-> IF k \in DOMAIN opt THEN opt[k] ELSE o[k]]

(* No options leave the defaults. *)
LEMMA ApplyNone == Apply(<<>>) = DefaultOptions
<1>1. \A k \in DOMAIN DefaultOptions : Apply(<<>>)[k] = DefaultOptions[k]
  BY DEF Apply
<1>2. Apply(<<>>) = [k \in DOMAIN DefaultOptions |-> Apply(<<>>)[k]]
  BY DEF Apply
<1>3. DefaultOptions = [k \in DOMAIN DefaultOptions |-> DefaultOptions[k]]
  BY DEF DefaultOptions
<1> HIDE DEF Apply
<1> QED
  BY <1>1, <1>2, <1>3

(* An option more decides the fields that it sets.                         *)
LEMMA ApplyLast ==
  ASSUME NEW S, NEW opts \in Seq(S), NEW opt \in S
  PROVE  Apply(Append(opts, opt)) = Override(Apply(opts), opt)
<1> DEFINE more == Append(opts, opt)
           N == Len(opts)
           set(k) == {n \in DOMAIN opts : k \in DOMAIN opts[n]}
           set2(k) == {n \in DOMAIN more : k \in DOMAIN more[n]}
<1>1. /\ N \in Nat /\ DOMAIN opts = 1 .. N /\ DOMAIN more = 1 .. N + 1
      /\ more[N + 1] = opt /\ \A n \in 1 .. N : more[n] = opts[n]
  OBVIOUS
<1> HIDE DEF more, N
<1>2. ASSUME NEW k \in DOMAIN DefaultOptions PROVE Apply(more)[k] = Override(Apply(opts), opt)[k]
  <2>1. Apply(more)[k] = IF set2(k) = {} THEN DefaultOptions[k] ELSE more[Max(set2(k))][k]
    BY DEF Apply
  <2>2. Apply(opts)[k] = IF set(k) = {} THEN DefaultOptions[k] ELSE opts[Max(set(k))][k]
    BY DEF Apply
  <2>3. Override(Apply(opts), opt)[k] = IF k \in DOMAIN opt THEN opt[k] ELSE Apply(opts)[k]
    BY DEF Override
  <2>4. CASE k \in DOMAIN opt
    <3>1. N + 1 \in set2(k) /\ set2(k) \subseteq 1 .. N + 1
      BY <1>1, <2>4
    <3> HIDE DEF set2
    <3>2. N + 1 \in Nat
      BY <1>1
    <3>3. Max(set2(k)) \in set2(k) /\ N + 1 <= Max(set2(k))
      BY <3>1, <3>2, Greatest
    <3>4. Max(set2(k)) = N + 1
      BY <1>1, <3>1, <3>3
    <3> QED
      BY <1>1, <2>1, <2>3, <2>4, <3>1, <3>4
  <2>5. CASE k \notin DOMAIN opt
    <3>1. set2(k) = set(k)
      BY <1>1, <2>5
    <3>2. set(k) \subseteq 1 .. N
      BY <1>1
    <3> HIDE DEF set, set2
    <3>3. CASE set(k) = {}
      BY <2>1, <2>2, <2>3, <2>5, <3>1, <3>3
    <3>4. CASE set(k) # {}
      <4>1. Max(set(k)) \in 1 .. N
        BY <1>1, <3>2, <3>4, Greatest
      <4>2. more[Max(set(k))] = opts[Max(set(k))]
        BY <1>1, <4>1
      <4> QED
        BY <2>1, <2>2, <2>3, <2>5, <3>1, <3>4, <4>2
    <3> QED
      BY <3>3, <3>4
  <2> QED
    BY <2>4, <2>5
<1>3. Apply(more) = [k \in DOMAIN DefaultOptions |-> Apply(more)[k]]
  BY DEF Apply
<1>4. Override(Apply(opts), opt) = [k \in DOMAIN DefaultOptions |-> Override(Apply(opts), opt)[k]]
  BY DEF Override
<1> QED
  BY <1>2, <1>3, <1>4 DEF more

(* The monitor marks the articles it was given. *)
LEMMA MonitorOptions ==
  ASSUME NEW S, NEW fs
  PROVE  Apply(<<IDs(S), Filters(fs)>>).ids = S
<1> DEFINE opts == <<IDs(S), Filters(fs)>>
           set == {n \in DOMAIN opts : "ids" \in DOMAIN opts[n]}
<1>1. "ids" \in DOMAIN DefaultOptions
  BY DEF DefaultOptions
<1>2. set = {1}
  BY DEF IDs, Filters
<1>3. Max({1}) = 1
  BY DEF Max
<1>4. opts[1]["ids"] = S
  BY DEF IDs
<1>5. Apply(opts)["ids"] = opts[Max(set)]["ids"]
  BY <1>1, <1>2 DEF Apply
<1> HIDE DEF opts, set
<1>6. Apply(opts)["ids"] = S
  BY <1>2, <1>3, <1>4, <1>5
<1> QED
  BY <1>6 DEF opts

-----------------------------------------------------------------------------
(* What the options of a query amount to. *)
Keys == {"limit", "offset", "readOnly", "unreadOnly", "unreadFirst", "favoriteOnly", "untaggedOnly",
         "includeScores", "highScoredFirst", "beforeID", "afterID", "beforeDate", "afterDate",
         "beforeScore", "afterScore", "ids", "feedIDs", "filters", "sortField", "descending"}

(* The fields of a query are known. *)
LEMMA KeysOfOptions == DOMAIN DefaultOptions = Keys
BY DEF DefaultOptions, Keys

IsList(s) == \E S : s \in Seq(S)

(* Lists of options, and what one option more does. *)
LEMMA Lists ==
  /\ IsList(<<>>) /\ Apply(<<>>) = DefaultOptions
  /\ \A s, opt : IsList(s) => /\ IsList(Append(s, opt)) /\ Apply(Append(s, opt)) = Override(Apply(s), opt)
                              /\ IsList(s \o <<opt>>) /\ Apply(s \o <<opt>>) = Override(Apply(s), opt)
                              /\ s \o <<opt>> = Append(s, opt) /\ s \o <<>> = s
<1>1. IsList(<<>>)
  <2>1. <<>> \in Seq({})
    OBVIOUS
  <2> QED
    BY <2>1 DEF IsList
<1>2. ASSUME NEW s, NEW opt, IsList(s)
      PROVE  /\ IsList(Append(s, opt)) /\ Apply(Append(s, opt)) = Override(Apply(s), opt)
             /\ s \o <<opt>> = Append(s, opt) /\ s \o <<>> = s
  <2>1. PICK S : s \in Seq(S)
    BY <1>2 DEF IsList
  <2> DEFINE T == S \cup {opt}
  <2>2. s \in Seq(T) /\ opt \in T
    BY <2>1
  <2> HIDE DEF T
  <2>3. Append(s, opt) \in Seq(T) /\ s \o <<opt>> = Append(s, opt) /\ s \o <<>> = s
    BY <2>2
  <2>4. Apply(Append(s, opt)) = Override(Apply(s), opt)
    BY <2>2, ApplyLast
  <2> QED
    BY <2>3, <2>4 DEF IsList
<1> QED
  BY <1>1, <1>2, ApplyNone

(* Lists of one and of two options. *)
LEMMA ShortLists ==
  ASSUME NEW a
  PROVE  /\ IsList(<<a>>) /\ Apply(<<a>>) = Override(DefaultOptions, a)
         /\ \A b : IsList(<<a, b>>) /\ Apply(<<a, b>>) = Override(Apply(<<a>>), b)
<1>1. <<a>> = Append(<<>>, a) /\ \A b : <<a, b>> = Append(<<a>>, b)
  OBVIOUS
<1>2. IsList(<<a>>) /\ Apply(<<a>>) = Override(DefaultOptions, a)
  BY <1>1, Lists
<1> QED
  BY <1>1, <1>2, Lists

(* The fields that an option decides. *)
LEMMA OverrideField ==
  ASSUME NEW o, NEW opt, NEW k \in Keys
  PROVE  Override(o, opt)[k] = IF k \in DOMAIN opt THEN opt[k] ELSE o[k]
BY KeysOfOptions DEF Override

(* The defaults restrict nothing. *)
LEMMA DefaultFields ==
  /\ DefaultOptions.beforeID = 0 /\ DefaultOptions.beforeDate = 0 /\ DefaultOptions.beforeScore = 0
  /\ DefaultOptions.afterID = 0 /\ DefaultOptions.afterDate = 0 /\ DefaultOptions.afterScore = 0
  /\ DefaultOptions.ids = {} /\ DefaultOptions.feedIDs = {}
  /\ DefaultOptions.favoriteOnly = FALSE /\ DefaultOptions.untaggedOnly = FALSE
BY DEF DefaultOptions

(* The fields that restrict the articles of a request *)
Restriction == {"beforeID", "afterID", "beforeDate", "afterDate", "beforeScore", "afterScore",
                "ids", "feedIDs", "favoriteOnly", "untaggedOnly"}

(* What each option does to the restriction. *)
LEMMA SetsIDs ==
  ASSUME NEW o, NEW s
  PROVE  /\ Override(o, IDs(s)).ids = s
         /\ \A k \in Restriction \ {"ids"} : Override(o, IDs(s))[k] = o[k]
<1>1. DOMAIN IDs(s) = {"ids"} /\ IDs(s)["ids"] = s
  BY DEF IDs
<1> QED
  BY <1>1, OverrideField DEF Restriction, Keys

LEMMA SetsFeedIDs ==
  ASSUME NEW o, NEW s
  PROVE  /\ Override(o, FeedIDs(s)).feedIDs = s
         /\ \A k \in Restriction \ {"feedIDs"} : Override(o, FeedIDs(s))[k] = o[k]
<1>1. DOMAIN FeedIDs(s) = {"feedIDs"} /\ FeedIDs(s)["feedIDs"] = s
  BY DEF FeedIDs
<1> QED
  BY <1>1, OverrideField DEF Restriction, Keys

LEMMA SetsIDRange ==
  ASSUME NEW o, NEW x, NEW y
  PROVE  /\ Override(o, IDRange(x, y)).afterID = x /\ Override(o, IDRange(x, y)).beforeID = y
         /\ \A k \in Restriction \ {"afterID", "beforeID"} : Override(o, IDRange(x, y))[k] = o[k]
<1>1. DOMAIN IDRange(x, y) = {"afterID", "beforeID"} /\ IDRange(x, y)["afterID"] = x /\ IDRange(x, y)["beforeID"] = y
  BY DEF IDRange
<1> QED
  BY <1>1, OverrideField DEF Restriction, Keys

LEMMA SetsTimeRange ==
  ASSUME NEW o, NEW x, NEW y
  PROVE  /\ Override(o, TimeRange(x, y)).afterDate = x /\ Override(o, TimeRange(x, y)).beforeDate = y
         /\ \A k \in Restriction \ {"afterDate", "beforeDate"} : Override(o, TimeRange(x, y))[k] = o[k]
<1>1. DOMAIN TimeRange(x, y) = {"afterDate", "beforeDate"} /\ TimeRange(x, y)["afterDate"] = x /\ TimeRange(x, y)["beforeDate"] = y
  BY DEF TimeRange
<1> QED
  BY <1>1, OverrideField DEF Restriction, Keys

LEMMA SetsScoreRange ==
  ASSUME NEW o, NEW x, NEW y
  PROVE  /\ Override(o, ScoreRange(x, y)).afterScore = x /\ Override(o, ScoreRange(x, y)).beforeScore = y
         /\ \A k \in Restriction \ {"afterScore", "beforeScore"} : Override(o, ScoreRange(x, y))[k] = o[k]
<1>1. DOMAIN ScoreRange(x, y) = {"afterScore", "beforeScore"} /\ ScoreRange(x, y)["afterScore"] = x /\ ScoreRange(x, y)["beforeScore"] = y
  BY DEF ScoreRange
<1> QED
  BY <1>1, OverrideField DEF Restriction, Keys

LEMMA SetsFavoriteOnly ==
  ASSUME NEW o
  PROVE  /\ Override(o, FavoriteOnly).favoriteOnly = TRUE
         /\ \A k \in Restriction \ {"favoriteOnly"} : Override(o, FavoriteOnly)[k] = o[k]
<1>1. DOMAIN FavoriteOnly = {"favoriteOnly"} /\ FavoriteOnly["favoriteOnly"] = TRUE
  BY DEF FavoriteOnly
<1> QED
  BY <1>1, OverrideField DEF Restriction, Keys

LEMMA SetsUntaggedOnly ==
  ASSUME NEW o
  PROVE  /\ Override(o, UntaggedOnly).untaggedOnly = TRUE
         /\ \A k \in Restriction \ {"untaggedOnly"} : Override(o, UntaggedOnly)[k] = o[k]
<1>1. DOMAIN UntaggedOnly = {"untaggedOnly"} /\ UntaggedOnly["untaggedOnly"] = TRUE
  BY DEF UntaggedOnly
<1> QED
  BY <1>1, OverrideField DEF Restriction, Keys

(* The other options leave the restriction as it is. *)
LEMMA SetsNothing ==
  ASSUME NEW o, NEW k \in Restriction
  PROVE  /\ \A x, y : Override(o, Paging(x, y))[k] = o[k] /\ Override(o, Sorting(x, y))[k] = o[k]
         /\ \A fs : Override(o, Filters(fs))[k] = o[k]
         /\ Override(o, UnreadOnly)[k] = o[k] /\ Override(o, ReadOnly)[k] = o[k]
         /\ Override(o, UnreadFirst)[k] = o[k]
<1>1. /\ \A x, y : DOMAIN Paging(x, y) = {"limit", "offset"} /\ DOMAIN Sorting(x, y) = {"sortField", "descending"}
      /\ \A fs : DOMAIN Filters(fs) = {"filters"}
      /\ DOMAIN UnreadOnly = {"unreadOnly"} /\ DOMAIN ReadOnly = {"readOnly"} /\ DOMAIN UnreadFirst = {"unreadFirst"}
  BY DEF Paging, Sorting, Filters, UnreadOnly, ReadOnly, UnreadFirst
<1>2. k \in Keys
  BY DEF Restriction, Keys
<1>3. \A opt : k \notin DOMAIN opt => Override(o, opt)[k] = o[k]
  BY <1>2, OverrideField
<1> QED
  BY <1>1, <1>3 DEF Restriction

-----------------------------------------------------------------------------
(* Requests that mark articles *)

(* Requests for the feeds of a tag, which is resolved by a step of its own *)
OfTag(a) ==
  \/ a.to = "articles" /\ a.type = "tag"
  \/ a.to = "catchup" /\ a.isCat /\ a.id # 0
  \/ a.to = "mark" /\ a.mark = "group" /\ a.id # 0

(* The only bounds are on the date. *)
OnlyDates(o) == o.beforeID = 0 /\ o.afterID = 0 /\ o.beforeScore = 0 /\ o.afterScore = 0

(* Both are no bound, or the same one. *)
Same(x, y) == x \in Int /\ y \in Int /\ (x = y \/ (x <= 0 /\ y <= 0))

(* The options restrict a query to what the request names, but for the feeds of a tag. *)
Within(a, o) ==
  /\ a.to = "article" => o.ids = {a.id}
  /\ a.to = "update" => ParseArticleIDs(a.ids) = {} \/ (o.ids # {} /\ o.ids \subseteq a.ids.ids)
  /\ a.to = "recent" => OnlyDates(o) /\ o.afterDate = DayAgo /\ o.beforeDate = Now
  /\ a.to = "articles" =>
       /\ a.type = "feed" => o.feedIDs = {a.id}
       /\ a.type = "favorite" => o.favoriteOnly
       /\ o.ids = a.query.id
       /\ Same(o.beforeID, a.query.beforeID)
       /\ Same(o.beforeScore, a.query.beforeScore)
       /\ o.beforeDate = a.query.beforeTime
  /\ a.to = "catchup" =>
       /\ OnlyDates(o) /\ o.beforeDate = Now
       /\ ~a.isCat => o.feedIDs = {a.id}
       /\ a.isCat /\ a.id = 0 => o.untaggedOnly
  /\ a.to = "mark" =>
       /\ a.mark = "item" => o.ids = {a.id}
       /\ a.mark # "item" => OnlyDates(o) /\ o.beforeDate = a.before
       /\ a.mark = "feed" /\ a.id # 0 => o.feedIDs = {a.id}

(* A write is within its request; once the tag is resolved it is for its feeds. *)
Fits(r, w) ==
  /\ w = Write(w.state, w.value, w.opts)
  /\ IsList(w.opts)
  /\ Within(r.ask, Apply(w.opts))
  /\ OfTag(r.ask) /\ r.tag = 0 => Apply(w.opts).feedIDs = r.feeds

(* The request that a plan begins *)
Begun(m, a) == [user |-> m.user, tag |-> m.tag, writes |-> m.writes, ask |-> a, feeds |-> {}]

(* A request of the user that is as asked, between any two of its steps *)
Asked(u, r) ==
  /\ r = [user |-> u, tag |-> r.tag, writes |-> r.writes, ask |-> r.ask, feeds |-> r.feeds]
  /\ r.ask \in Requests
  /\ IsList(r.writes)
  /\ \A n \in DOMAIN r.writes : Fits(r, r.writes[n])
  /\ r.tag # 0 => OfTag(r.ask)

(* A plan whose writes are within the request begins a request that is as asked. *)
LEMMA BegunAsked ==
  ASSUME NEW u, NEW a \in Requests, NEW t, OfTag(a) <=> t # 0, NEW ws, IsList(ws),
         \A n \in DOMAIN ws : /\ ws[n] = Write(ws[n].state, ws[n].value, ws[n].opts)
                              /\ IsList(ws[n].opts)
                              /\ Within(a, Apply(ws[n].opts))
  PROVE  Asked(u, Begun(Marking(u, t, ws), a))
<1> DEFINE r == Begun(Marking(u, t, ws), a)
<1>1. /\ r = [user |-> u, tag |-> r.tag, writes |-> r.writes, ask |-> r.ask, feeds |-> r.feeds]
      /\ r.tag = t /\ r.writes = ws /\ r.ask = a
  BY DEF Begun, Marking
<1> HIDE DEF r
<1>2. \A n \in DOMAIN ws : Fits(r, ws[n])
  BY <1>1 DEF Fits
<1> QED
  BY <1>1, <1>2 DEF Asked, r

(* The fields of a write. *)
LEMMA WriteFields ==
  ASSUME NEW s, NEW v, NEW opts
  PROVE  /\ Write(s, v, opts).state = s /\ Write(s, v, opts).value = v /\ Write(s, v, opts).opts = opts
         /\ Write(s, v, opts) = Write(Write(s, v, opts).state, Write(s, v, opts).value, Write(s, v, opts).opts)
BY DEF Write

(* A plan with one write. *)
LEMMA OneWrite ==
  ASSUME NEW u, NEW a \in Requests, NEW t, OfTag(a) <=> t # 0, NEW s, NEW v, NEW opts,
         IsList(opts), Within(a, Apply(opts))
  PROVE  Asked(u, Begun(Marking(u, t, <<Write(s, v, opts)>>), a))
<1> DEFINE w == Write(s, v, opts)
           ws == <<w>>
<1>1. IsList(ws)
  BY ShortLists
<1>2. DOMAIN ws = {1} /\ ws[1] = w
  OBVIOUS
<1>3. w = Write(w.state, w.value, w.opts) /\ w.opts = opts
  BY WriteFields
<1> HIDE DEF w, ws
<1>4. Asked(u, Begun(Marking(u, t, ws), a))
  BY <1>1, <1>2, <1>3, BegunAsked
<1> QED
  BY <1>4 DEF w, ws

(* The requests that clients make. *)
LEMMA AskFields ==
  ASSUME NEW a \in Requests
  PROVE  /\ a.to \in {"article", "articles", "update", "catchup", "recent", "mark"}
         /\ a.to = "article" => a.id \in Int
         /\ a.to = "articles" => a.query \in Queries /\ a.id \in Int
                                 /\ a.type \in {"user", "favorite", "popular", "tag", "feed"}
         /\ a.to = "update" => a.ids.ids \subseteq Int
         /\ a.to = "catchup" => a.isCat \in BOOLEAN /\ a.id \in Int
         /\ a.to = "mark" => a.mark \in {"item", "feed", "group"} /\ a.id \in Int /\ a.before \in Nat \ {0}
BY DEF Requests

TagsKnown == tagged \subseteq Users \X Feeds \X Tags

(* The ID of a tag is not 0, which stands for no tag. *)
LEMMA TagFacts ==
  ASSUME TagsKnown, NEW u, NEW t, HasTag(u, t)
  PROVE  t \in Nat \ {0}
<1>1. PICK x \in tagged : x[1] = u /\ x[3] = t
  BY DEF HasTag, TagsForUser
<1>2. x[3] \in Tags
  BY <1>1 DEF TagsKnown
<1> QED
  BY <1>1, <1>2, NamesAssumption

(* REST marks an article: the ID of the request is the only one. *)
LEMMA PlanArticle ==
  ASSUME NEW u, NEW a \in Requests, a.to = "article", NEW m \in ArticleStateChange(u, a.id, a.state, a.value)
  PROVE  Asked(u, Begun(m, a))
<1> DEFINE opts == <<IDs({a.id})>>
<1>1. m = Marking(u, 0, <<Write(a.state, a.value, opts)>>)
  BY DEF ArticleStateChange
<1>2. IsList(opts) /\ Apply(opts) = Override(DefaultOptions, IDs({a.id}))
  BY ShortLists
<1>3. Apply(opts).ids = {a.id}
  BY <1>2, SetsIDs
<1>4. Within(a, Apply(opts)) /\ ~OfTag(a)
  BY <1>3 DEF Within, OfTag
<1> HIDE DEF opts
<1> QED
  BY <1>1, <1>2, <1>4, OneWrite

(* TT-RSS marks what is recent: the articles of a day. *)
LEMMA PlanRecent ==
  ASSUME NEW u, NEW a \in Requests, a.to = "recent", NEW m \in UnreadRecent(u)
  PROVE  Asked(u, Begun(m, a))
<1> DEFINE opts == <<TimeRange(DayAgo, Now), Own(u)>>
           p == Override(DefaultOptions, TimeRange(DayAgo, Now))
<1>1. m = Marking(u, 0, <<Write("read", FALSE, opts)>>)
  BY DEF UnreadRecent
<1>2. IsList(opts) /\ Apply(opts) = Override(p, Own(u))
  BY ShortLists
<1>3. OnlyDates(p) /\ p.afterDate = DayAgo /\ p.beforeDate = Now
  BY SetsTimeRange, DefaultFields DEF OnlyDates, Restriction
<1> HIDE DEF p
<1>4. \A k \in Restriction : Apply(opts)[k] = p[k]
  BY <1>2, SetsNothing DEF Own
<1>5. Within(a, Apply(opts)) /\ ~OfTag(a)
  BY <1>3, <1>4 DEF Within, OfTag, OnlyDates, Restriction
<1> HIDE DEF opts
<1> QED
  BY <1>1, <1>2, <1>5, OneWrite

(* TT-RSS catches up with a feed, a tag or the feeds without a tag. *)
LEMMA PlanCatchup ==
  ASSUME TagsKnown, NEW u, NEW a \in Requests, a.to = "catchup", NEW m \in CatchupFeed(u, a.isCat, a.id)
  PROVE  Asked(u, Begun(m, a))
<1> DEFINE opts == <<TimeRange(0, Now), Own(u)>>
           p == Override(DefaultOptions, TimeRange(0, Now))
<1>2. IsList(opts) /\ Apply(opts) = Override(p, Own(u))
  BY ShortLists
<1>3. OnlyDates(p) /\ p.beforeDate = Now
  BY SetsTimeRange, DefaultFields DEF OnlyDates, Restriction
<1> HIDE DEF p
<1>4. \A k \in Restriction : Apply(opts)[k] = p[k]
  BY <1>2, SetsNothing DEF Own
<1>5. OnlyDates(Apply(opts)) /\ Apply(opts).beforeDate = Now
  BY <1>3, <1>4 DEF OnlyDates, Restriction
<1>6. a.isCat \in BOOLEAN /\ a.id \in Int
  BY AskFields
<1>7. CASE a.isCat /\ a.id = 0
  <2> DEFINE more == opts \o <<UntaggedOnly>>
  <2>1. m = Marking(u, 0, <<Write("read", TRUE, more)>>)
    BY <1>7 DEF CatchupFeed, CAT_UNCATEGORIZED
  <2> HIDE DEF opts
  <2>2. IsList(more) /\ Apply(more) = Override(Apply(opts), UntaggedOnly)
    BY <1>2, Lists
  <2>3. OnlyDates(Apply(more)) /\ Apply(more).beforeDate = Now /\ Apply(more).untaggedOnly
    BY <1>5, <2>2, SetsUntaggedOnly DEF OnlyDates, Restriction
  <2> HIDE DEF more
  <2>4. Within(a, Apply(more)) /\ ~OfTag(a)
    BY <1>7, <2>3 DEF Within, OfTag
  <2> QED
    BY <2>1, <2>2, <2>4, OneWrite
<1>8. CASE a.isCat /\ a.id # 0
  <2>1. m = Marking(u, a.id, <<Write("read", TRUE, opts)>>)
    BY <1>8 DEF CatchupFeed, CAT_UNCATEGORIZED
  <2> HIDE DEF opts
  <2>4. Within(a, Apply(opts)) /\ OfTag(a)
    BY <1>8, <1>5 DEF Within, OfTag
  <2> QED
    BY <1>2, <1>8, <2>1, <2>4, OneWrite
<1>9. CASE ~a.isCat
  <2> DEFINE more == opts \o <<FeedIDs({a.id})>>
  <2>1. m = Marking(u, 0, <<Write("read", TRUE, more)>>)
    BY <1>9 DEF CatchupFeed, CAT_UNCATEGORIZED, Chosen
  <2> HIDE DEF opts
  <2>2. IsList(more) /\ Apply(more) = Override(Apply(opts), FeedIDs({a.id}))
    BY <1>2, Lists
  <2>3. OnlyDates(Apply(more)) /\ Apply(more).beforeDate = Now /\ Apply(more).feedIDs = {a.id}
    BY <1>5, <2>2, SetsFeedIDs DEF OnlyDates, Restriction
  <2> HIDE DEF more
  <2>4. Within(a, Apply(more)) /\ ~OfTag(a)
    BY <1>9, <2>3 DEF Within, OfTag
  <2> QED
    BY <2>1, <2>2, <2>4, OneWrite
<1> QED
  BY <1>6, <1>7, <1>8, <1>9

(* Fever marks an item, a feed or a group, up to a date. *)
LEMMA PlanMark ==
  ASSUME TagsKnown, NEW u, NEW a \in Requests, a.to = "mark",
         NEW m \in MarkItem(u, a.mark, a.id, a.before, a.as)
  PROVE  Asked(u, Begun(m, a))
<1> DEFINE s == IF a.as \in {"read", "unread"} THEN "read" ELSE "favorite"
           v == a.as \in {"read", "saved"}
           p == Override(DefaultOptions, Own(u))
           range == TimeRange(0, a.before)
           d == Override(p, range)
           one(opts) == <<Write(s, v, <<Own(u)>> \o opts)>>
<1>1. IsList(<<Own(u)>>) /\ Apply(<<Own(u)>>) = p
  BY ShortLists
<1>2. \A k \in Restriction : p[k] = DefaultOptions[k]
  BY SetsNothing DEF Own
<1>3. OnlyDates(d) /\ d.beforeDate = a.before
  BY <1>2, SetsTimeRange, DefaultFields DEF OnlyDates, Restriction
<1>4. IsList(<<Own(u)>> \o <<range>>) /\ Apply(<<Own(u)>> \o <<range>>) = d
  BY <1>1, Lists
<1>5. a.mark \in {"item", "feed", "group"} /\ a.id \in Int
  BY AskFields
<1>6. CASE a.mark = "item"
  <2> DEFINE opts == <<Own(u)>> \o <<IDs({a.id})>>
  <2>1. m = Marking(u, 0, <<Write(s, v, opts)>>)
    BY <1>6 DEF MarkItem
  <2>2. IsList(opts) /\ Apply(opts) = Override(p, IDs({a.id}))
    BY <1>1, Lists
  <2>3. Apply(opts).ids = {a.id}
    BY <2>2, SetsIDs
  <2> HIDE DEF opts, s, v
  <2>4. Within(a, Apply(opts)) /\ ~OfTag(a)
    BY <1>6, <2>3 DEF Within, OfTag
  <2> QED
    BY <2>1, <2>2, <2>4, OneWrite
<1>7. CASE a.mark # "item" /\ (a.id = 0 \/ a.mark = "group")
  <2> DEFINE opts == <<Own(u)>> \o <<range>>
  <2>1. \/ m = Marking(u, 0, <<Write(s, v, opts)>>) /\ a.id = 0
        \/ m = Marking(u, a.id, <<Write(s, v, opts)>>) /\ a.id # 0 /\ a.mark = "group"
    BY <1>7 DEF MarkItem
  <2> HIDE DEF opts, s, v, d
  <2>2. IsList(opts) /\ OnlyDates(Apply(opts)) /\ Apply(opts).beforeDate = a.before
    BY <1>3, <1>4 DEF opts
  <2>3. Within(a, Apply(opts))
    BY <1>7, <2>2 DEF Within
  <2>4. OfTag(a) <=> a.id # 0 /\ a.mark = "group"
    BY DEF OfTag
  <2>5. CASE a.id = 0
    BY <2>1, <2>2, <2>3, <2>4, <2>5, OneWrite
  <2>6. CASE a.id # 0
    BY <2>1, <2>2, <2>3, <2>4, <2>6, OneWrite
  <2> QED
    BY <2>5, <2>6
<1>8. CASE a.mark = "feed" /\ a.id # 0
  <2> DEFINE begin == <<Own(u)>> \o <<range>>
             opts == begin \o <<FeedIDs({a.id})>>
  <2>1. m = Marking(u, 0, <<Write(s, v, <<Own(u)>> \o <<range, FeedIDs({a.id})>>)>>)
    BY <1>8 DEF MarkItem
  <2>2. <<Own(u)>> \o <<range, FeedIDs({a.id})>> = opts
    OBVIOUS
  <2> HIDE DEF d, begin
  <2>3. IsList(opts) /\ Apply(opts) = Override(d, FeedIDs({a.id}))
    BY <1>4, Lists DEF begin
  <2>4. OnlyDates(Apply(opts)) /\ Apply(opts).beforeDate = a.before /\ Apply(opts).feedIDs = {a.id}
    BY <1>3, <2>3, SetsFeedIDs DEF OnlyDates, Restriction
  <2> HIDE DEF opts, s, v
  <2>5. Within(a, Apply(opts)) /\ ~OfTag(a)
    BY <1>8, <2>4 DEF Within, OfTag
  <2> QED
    BY <2>1, <2>2, <2>3, <2>5, OneWrite
<1> QED
  BY <1>5, <1>6, <1>7, <1>8

(* Two writes. *)
LEMMA Pair == ASSUME NEW v, NEW w PROVE <<v>> \o <<w>> = <<v, w>>
<1>1. <<v>> \o <<w>> = Append(<<v>>, w)
  BY ShortLists, Lists
<1>2. <<v, w>> = Append(<<v>>, w)
  OBVIOUS
<1> QED
  BY <1>1, <1>2

(* TT-RSS updates the articles of a list; a list that is not understood names none. *)
LEMMA PlanUpdate ==
  ASSUME NEW u, NEW a \in Requests, a.to = "update", NEW m \in UpdateArticle(u, a.ids, a.field, a.mode)
  PROVE  Asked(u, Begun(m, a))
<1> DEFINE S == GetArticle(u, a.ids)
           marked == IF a.field = 0 THEN {i \in S : <<u, i>> \in favorite} ELSE {i \in S : <<u, i>> \in unread}
           one(T, s, v) == IF T = {} THEN <<>> ELSE <<Write(s, v, <<IDs(T), Own(u)>>)>>
           clear == IF a.mode \in {0, 2} THEN marked ELSE {}
           set == IF a.mode \in {1, 2} THEN S \ marked ELSE {}
           ws == IF a.field = 0 THEN one(set, "favorite", TRUE) \o one(clear, "favorite", FALSE)
                                ELSE one(clear, "read", TRUE) \o one(set, "read", FALSE)
           Good(w) == /\ w = Write(w.state, w.value, w.opts)
                      /\ IsList(w.opts) /\ Within(a, Apply(w.opts))
<1>1. m = Marking(u, 0, ws)
  BY DEF UpdateArticle
<1>2. set \subseteq S /\ clear \subseteq S
  OBVIOUS
<1>3. ASSUME ParseArticleIDs(a.ids) # {} PROVE S \subseteq a.ids.ids
  <2> DEFINE T == ParseArticleIDs(a.ids)
             o == Apply(<<IDs(T), Own(u)>>)
  <2>1. o.ids = T
    BY MonitorOptions DEF Own
  <2>2. S \subseteq o.ids
    BY <1>3, <2>1 DEF GetArticle, Selected, Matches
  <2>3. T = a.ids.ids
    BY <1>3 DEF ParseArticleIDs
  <2> QED
    BY <2>1, <2>2, <2>3
<1> HIDE DEF S, set, clear
<1>4. ASSUME NEW T, T \subseteq S, NEW s, NEW v
      PROVE  \/ one(T, s, v) = <<>>
             \/ \E w : one(T, s, v) = <<w>> /\ Good(w)
  <2> DEFINE opts == <<IDs(T), Own(u)>>
             w == Write(s, v, opts)
  <2>1. CASE T = {}
    BY <2>1
  <2>2. CASE T # {}
    <3>1. IsList(opts)
      BY ShortLists
    <3>2. Apply(opts).ids = T
      BY MonitorOptions DEF Own
    <3> HIDE DEF opts
    <3>3. Within(a, Apply(opts))
      BY <1>3, <1>4, <2>2, <3>2 DEF Within
    <3>4. w.opts = opts /\ w = Write(w.state, w.value, w.opts)
      BY WriteFields
    <3>5. Good(w)
      BY <3>1, <3>3, <3>4
    <3>6. one(T, s, v) = <<w>>
      BY <2>2 DEF opts
    <3> HIDE DEF one, w, Good
    <3> QED
      BY <3>5, <3>6
  <2> QED
    BY <2>1, <2>2
<1>5. \E x, y : /\ ws = x \o y
                /\ x = <<>> \/ \E w : x = <<w>> /\ Good(w)
                /\ y = <<>> \/ \E w : y = <<w>> /\ Good(w)
  <2> HIDE DEF Good, one
  <2>1. CASE a.field = 0
    BY <1>2, <1>4, <2>1
  <2>2. CASE a.field # 0
    BY <1>2, <1>4, <2>2
  <2> QED
    BY <2>1, <2>2
<1>6. IsList(ws) /\ \A n \in DOMAIN ws : Good(ws[n])
  <2> HIDE DEF Good, ws
  <2>1. PICK x, y : /\ ws = x \o y
                    /\ x = <<>> \/ \E w : x = <<w>> /\ Good(w)
                    /\ y = <<>> \/ \E w : y = <<w>> /\ Good(w)
    BY <1>5
  <2>2. CASE x = <<>> /\ y = <<>>
    <3>1. ws = <<>>
      BY <2>1, <2>2
    <3> QED
      BY <3>1, Lists
  <2>3. CASE (x # <<>> /\ y = <<>>) \/ (x = <<>> /\ y # <<>>)
    <3>1. PICK w : (x = <<w>> \/ y = <<w>>) /\ Good(w)
      BY <2>1, <2>3
    <3>2. ws = <<w>>
      <4>1. <<w>> # <<>> /\ <<w>> \o <<>> = <<w>> /\ <<>> \o <<w>> = <<w>>
        OBVIOUS
      <4> QED
        BY <2>1, <2>3, <3>1, <4>1
    <3>3. DOMAIN <<w>> = {1} /\ <<w>>[1] = w
      OBVIOUS
    <3> QED
      BY <3>1, <3>2, <3>3, ShortLists
  <2>4. CASE x # <<>> /\ y # <<>>
    <3>1. PICK v : x = <<v>> /\ Good(v)
      BY <2>1, <2>4
    <3>2. PICK w : y = <<w>> /\ Good(w)
      BY <2>1, <2>4
    <3>3. ws = <<v, w>>
      BY <2>1, <3>1, <3>2, Pair
    <3>4. DOMAIN <<v, w>> = {1, 2} /\ <<v, w>>[1] = v /\ <<v, w>>[2] = w
      OBVIOUS
    <3> QED
      BY <3>1, <3>2, <3>3, <3>4, ShortLists
  <2> QED
    BY <2>2, <2>3, <2>4
<1>7. ~OfTag(a)
  BY DEF OfTag
<1> HIDE DEF ws
<1> QED
  BY <1>1, <1>6, <1>7, BegunAsked

(* The bounds and IDs of a query become options as they are. *)
LEMMA QueryOptions ==
  ASSUME NEW q \in Queries, NEW max
  PROVE  LET opts == ArticleQueryOptions(q, max)
             o == Apply(opts)
         IN  /\ IsList(opts)
             /\ o.ids = q.id
             /\ Same(o.beforeID, q.beforeID)
             /\ Same(o.beforeScore, q.beforeScore)
             /\ o.beforeDate = q.beforeTime
<1> DEFINE s1 == <<Paging(IF max > 0 /\ (q.limit = 0 \/ q.limit > max) THEN max ELSE q.limit, 0)>>
           s2 == s1 \o IF q.afterID > 0 \/ q.beforeID > 0 THEN <<IDRange(q.afterID, q.beforeID)>> ELSE <<>>
           s3 == s2 \o IF q.afterTime > 0 \/ q.beforeTime > 0 THEN <<TimeRange(q.afterTime, q.beforeTime)>> ELSE <<>>
           s4 == s3 \o IF q.afterScore > 0 \/ q.beforeScore > 0
                       THEN <<ScoreRange(q.afterScore, q.beforeScore)>> ELSE <<>>
           s5 == s4 \o IF q.id # {} THEN <<IDs(q.id)>> ELSE <<>>
           s6 == s5 \o IF q.unreadOnly THEN <<UnreadOnly>> ELSE <<>>
           s7 == s6 \o IF q.readOnly THEN <<ReadOnly>> ELSE <<>>
           s8 == s7 \o IF q.unreadFirst THEN <<UnreadFirst>> ELSE <<>>
           s9 == s8 \o <<Sorting("date", ~q.olderFirst)>>
           Eq(o, p) == /\ o.ids = p.ids /\ o.beforeID = p.beforeID
                       /\ o.beforeScore = p.beforeScore /\ o.beforeDate = p.beforeDate
<1>1. ArticleQueryOptions(q, max) = s9
  BY DEF ArticleQueryOptions
<1>2. /\ q.afterID \in Int /\ q.beforeID \in Int /\ q.afterTime \in Nat /\ q.beforeTime \in Nat
      /\ q.afterScore \in Int /\ q.beforeScore \in Int
  BY DEF Queries
<1>3. IsList(s1) /\ Eq(Apply(s1), DefaultOptions)
  BY ShortLists, SetsNothing DEF Restriction
<1> HIDE DEF s1
<1>4. /\ IsList(s2) /\ Same(Apply(s2).beforeID, q.beforeID) /\ Apply(s2).ids = {}
      /\ Apply(s2).beforeScore = 0 /\ Apply(s2).beforeDate = 0
  <2>1. CASE q.afterID > 0 \/ q.beforeID > 0
    <3>1. IsList(s2) /\ Apply(s2) = Override(Apply(s1), IDRange(q.afterID, q.beforeID))
      BY <1>3, <2>1, Lists
    <3> HIDE DEF s2
    <3> QED
      BY <1>2, <1>3, <3>1, DefaultFields, SetsIDRange DEF Restriction, Same
  <2>2. CASE ~(q.afterID > 0 \/ q.beforeID > 0)
    <3>1. s2 = s1
      BY <1>3, <2>2, Lists
    <3> HIDE DEF s2
    <3> QED
      BY <1>2, <1>3, <2>2, <3>1, DefaultFields DEF Same
  <2> QED
    BY <2>1, <2>2
<1> HIDE DEF s2
<1>5. /\ IsList(s3) /\ Same(Apply(s3).beforeID, q.beforeID) /\ Apply(s3).ids = {}
      /\ Apply(s3).beforeScore = 0 /\ Apply(s3).beforeDate = q.beforeTime
  <2>1. CASE q.afterTime > 0 \/ q.beforeTime > 0
    <3>1. IsList(s3) /\ Apply(s3) = Override(Apply(s2), TimeRange(q.afterTime, q.beforeTime))
      BY <1>4, <2>1, Lists
    <3> HIDE DEF s3
    <3> QED
      BY <1>4, <3>1, SetsTimeRange DEF Restriction
  <2>2. CASE ~(q.afterTime > 0 \/ q.beforeTime > 0)
    <3>1. s3 = s2
      BY <1>4, <2>2, Lists
    <3> HIDE DEF s3
    <3> QED
      BY <1>2, <1>4, <2>2, <3>1
  <2> QED
    BY <2>1, <2>2
<1> HIDE DEF s3
<1>6. /\ IsList(s4) /\ Same(Apply(s4).beforeID, q.beforeID) /\ Apply(s4).ids = {}
      /\ Same(Apply(s4).beforeScore, q.beforeScore) /\ Apply(s4).beforeDate = q.beforeTime
  <2>1. CASE q.afterScore > 0 \/ q.beforeScore > 0
    <3>1. IsList(s4) /\ Apply(s4) = Override(Apply(s3), ScoreRange(q.afterScore, q.beforeScore))
      BY <1>5, <2>1, Lists
    <3> HIDE DEF s4
    <3>2. Same(q.beforeScore, q.beforeScore)
      BY <1>2 DEF Same
    <3> QED
      BY <1>5, <3>1, <3>2, SetsScoreRange DEF Restriction
  <2>2. CASE ~(q.afterScore > 0 \/ q.beforeScore > 0)
    <3>1. s4 = s3
      BY <1>5, <2>2, Lists
    <3> HIDE DEF s4
    <3> QED
      BY <1>2, <1>5, <2>2, <3>1 DEF Same
  <2> QED
    BY <2>1, <2>2
<1> HIDE DEF s4
<1> DEFINE Done(o) == /\ o.ids = q.id /\ Same(o.beforeID, q.beforeID)
                      /\ Same(o.beforeScore, q.beforeScore) /\ o.beforeDate = q.beforeTime
<1>7. IsList(s5) /\ Done(Apply(s5))
  <2>1. CASE q.id # {}
    <3>1. IsList(s5) /\ Apply(s5) = Override(Apply(s4), IDs(q.id))
      BY <1>6, <2>1, Lists
    <3> HIDE DEF s5
    <3> QED
      BY <1>6, <3>1, SetsIDs DEF Restriction
  <2>2. CASE q.id = {}
    <3>1. s5 = s4
      BY <1>6, <2>2, Lists
    <3> HIDE DEF s5
    <3> QED
      BY <1>6, <2>2, <3>1
  <2> QED
    BY <2>1, <2>2
<1> HIDE DEF s5
<1>8. ASSUME NEW s, IsList(s), NEW t, Done(Apply(s)), NEW opt,
             \A k \in Restriction : Override(Apply(s), opt)[k] = Apply(s)[k],
             t = s \o <<opt>> \/ t = s \o <<>>
      PROVE  IsList(t) /\ Done(Apply(t))
  <2>1. CASE t = s \o <<opt>>
    <3>1. IsList(t) /\ Apply(t) = Override(Apply(s), opt)
      BY <1>8, <2>1, Lists
    <3> QED
      BY <1>8, <3>1 DEF Restriction
  <2>2. CASE t = s \o <<>>
    <3>1. t = s
      BY <1>8, <2>2, Lists
    <3> QED
      BY <1>8, <3>1
  <2> QED
    BY <1>8, <2>1, <2>2
<1> HIDE DEF Done
<1>9. IsList(s6) /\ Done(Apply(s6))
  <2>1. \A k \in Restriction : Override(Apply(s5), UnreadOnly)[k] = Apply(s5)[k]
    BY SetsNothing
  <2>2. s6 = s5 \o <<UnreadOnly>> \/ s6 = s5 \o <<>>
    OBVIOUS
  <2> HIDE DEF s6
  <2> QED
    BY <1>7, <1>8, <2>1, <2>2
<1> HIDE DEF s6
<1>10. IsList(s7) /\ Done(Apply(s7))
  <2>1. \A k \in Restriction : Override(Apply(s6), ReadOnly)[k] = Apply(s6)[k]
    BY SetsNothing
  <2>2. s7 = s6 \o <<ReadOnly>> \/ s7 = s6 \o <<>>
    OBVIOUS
  <2> HIDE DEF s7
  <2> QED
    BY <1>8, <1>9, <2>1, <2>2
<1> HIDE DEF s7
<1>11. IsList(s8) /\ Done(Apply(s8))
  <2>1. \A k \in Restriction : Override(Apply(s7), UnreadFirst)[k] = Apply(s7)[k]
    BY SetsNothing
  <2>2. s8 = s7 \o <<UnreadFirst>> \/ s8 = s7 \o <<>>
    OBVIOUS
  <2> HIDE DEF s8
  <2> QED
    BY <1>8, <1>10, <2>1, <2>2
<1> HIDE DEF s8
<1>12. IsList(s9) /\ Done(Apply(s9))
  <2> DEFINE descending == ~q.olderFirst
  <2>1. s9 = s8 \o <<Sorting("date", descending)>>
    OBVIOUS
  <2> HIDE DEF s9, descending
  <2>2. \A k \in Restriction : Override(Apply(s8), Sorting("date", descending))[k] = Apply(s8)[k]
    BY SetsNothing
  <2> QED
    BY <1>8, <1>11, <2>1, <2>2
<1> HIDE DEF s9
<1> QED
  BY <1>1, <1>12 DEF Done

(* REST marks the articles of a route that match a query. *)
LEMMA PlanArticles ==
  ASSUME TagsKnown, NEW u, NEW a \in Requests, a.to = "articles",
         NEW m \in ArticlesStateChange(u, a.type, a.id, a.query, a.state, a.value)
  PROVE  Asked(u, Begun(m, a))
<1> DEFINE o == ArticleQueryOptions(a.query, 0)
           Done(p) == /\ p.ids = a.query.id /\ Same(p.beforeID, a.query.beforeID)
                      /\ Same(p.beforeScore, a.query.beforeScore) /\ p.beforeDate = a.query.beforeTime
<1>1. a.query \in Queries /\ a.type \in {"user", "favorite", "popular", "tag", "feed"}
  BY AskFields
<1>2. IsList(o) /\ Done(Apply(o))
  BY <1>1, QueryOptions
<1>3. CASE a.type = "tag"
  <2>1. m = Marking(u, a.id, <<Write(a.state, a.value, o)>>) /\ HasTag(u, a.id)
    BY <1>3 DEF ArticlesStateChange
  <2> HIDE DEF o
  <2>2. Within(a, Apply(o)) /\ OfTag(a)
    BY <1>2, <1>3 DEF Within, OfTag
  <2>3. a.id # 0
    BY <2>1, TagFacts
  <2> QED
    BY <1>2, <2>1, <2>2, <2>3, OneWrite
<1>4. CASE a.type = "user"
  <2>1. m = Marking(u, 0, <<Write(a.state, a.value, o \o <<>>)>>)
    BY <1>4 DEF ArticlesStateChange, RouteFeeds, RepoTypeOptions
  <2> HIDE DEF o
  <2>2. o \o <<>> = o
    BY <1>2, Lists
  <2>3. Within(a, Apply(o)) /\ ~OfTag(a)
    BY <1>2, <1>4 DEF Within, OfTag
  <2> QED
    BY <1>2, <2>1, <2>2, <2>3, OneWrite
<1>5. CASE a.type = "favorite"
  <2> DEFINE p == o \o <<FavoriteOnly>>
  <2>1. m = Marking(u, 0, <<Write(a.state, a.value, p)>>)
    BY <1>5 DEF ArticlesStateChange, RouteFeeds, RepoTypeOptions
  <2> HIDE DEF o
  <2>2. IsList(p) /\ Apply(p) = Override(Apply(o), FavoriteOnly)
    BY <1>2, Lists
  <2>3. Done(Apply(p)) /\ Apply(p).favoriteOnly = TRUE
    <3>1. Apply(p).favoriteOnly = TRUE
      BY <2>2, SetsFavoriteOnly
    <3>2. \A k \in Restriction \ {"favoriteOnly"} : Apply(p)[k] = Apply(o)[k]
      BY <2>2, SetsFavoriteOnly
    <3> QED
      BY <1>2, <3>1, <3>2 DEF Restriction
  <2> HIDE DEF p
  <2>4. Within(a, Apply(p)) /\ ~OfTag(a)
    BY <1>5, <2>3 DEF Within, OfTag
  <2> QED
    BY <2>1, <2>2, <2>4, OneWrite
<1>6. CASE a.type = "feed"
  <2> DEFINE p == o \o <<FeedIDs({a.id})>>
  <2>1. m = Marking(u, 0, <<Write(a.state, a.value, p)>>)
    BY <1>6 DEF ArticlesStateChange, RouteFeeds, RepoTypeOptions
  <2> HIDE DEF o
  <2>2. IsList(p) /\ Apply(p) = Override(Apply(o), FeedIDs({a.id}))
    BY <1>2, Lists
  <2>3. Done(Apply(p)) /\ Apply(p).feedIDs = {a.id}
    BY <1>2, <2>2, SetsFeedIDs DEF Restriction
  <2> HIDE DEF p
  <2>4. Within(a, Apply(p)) /\ ~OfTag(a)
    BY <1>6, <2>3 DEF Within, OfTag
  <2> QED
    BY <2>1, <2>2, <2>4, OneWrite
<1>7. CASE a.type = "popular"
  BY <1>7 DEF ArticlesStateChange
<1> QED
  BY <1>1, <1>3, <1>4, <1>5, <1>6, <1>7

(* Every handler plans what is asked. *)
LEMMA PlansAsked ==
  ASSUME TagsKnown, NEW u, NEW a \in Requests, NEW m \in Plans(u, a)
  PROVE  Asked(u, Begun(m, a))
<1>1. a.to \in {"article", "articles", "update", "catchup", "recent", "mark"}
  BY AskFields
<1>2. CASE a.to = "article"
  BY <1>2, PlanArticle DEF Plans
<1>3. CASE a.to = "articles"
  BY <1>3, PlanArticles DEF Plans
<1>4. CASE a.to = "update"
  BY <1>4, PlanUpdate DEF Plans
<1>5. CASE a.to = "catchup"
  BY <1>5, PlanCatchup DEF Plans
<1>6. CASE a.to = "recent"
  BY <1>6, PlanRecent DEF Plans
<1>7. CASE a.to = "mark"
  BY <1>7, PlanMark DEF Plans
<1> QED
  BY <1>1, <1>2, <1>3, <1>4, <1>5, <1>6, <1>7

-----------------------------------------------------------------------------
(* The rows and the new articles after some of the entries of a document   *)
Result == [rows : Seq(RowsOf(Feeds)), new : Seq(Nat), failed : BOOLEAN]

(* What is new comes after what was there. *)
Grown(acc) ==
  /\ acc \in Result
  /\ Len(articles) <= Len(acc.rows)
  /\ \A i \in ToSet(acc.new) : i \in Len(articles) + 1 .. Len(acc.rows)

(* An entry of a document becomes a row. *)
LEMMA RowFacts ==
  ASSUME NEW f \in Feeds, NEW e \in Entries, NEW s \in Nat
  PROVE  Row(f, e, s) \in RowsOf(Feeds)
BY DEF Row, Entries, RowsOf

(* One entry more. *)
LEMMA StoreEntryGrown ==
  ASSUME Len(articles) \in Nat, NEW acc, Grown(acc), NEW f \in Feeds, NEW e \in Entries
  PROVE  Grown(StoreEntry(acc, f, e))
<1> DEFINE same == SameArticle(acc.rows, f, e)
<1>1. acc \in Result /\ Len(acc.rows) \in Nat /\ DOMAIN acc.rows = 1 .. Len(acc.rows)
  BY DEF Grown, Result
<1>2. same \subseteq 1 .. Len(acc.rows)
  BY <1>1 DEF SameArticle
<1>3. CASE Cardinality(same) > 1
  <2>1. StoreEntry(acc, f, e) = [acc EXCEPT !.failed = TRUE]
    <3>1. same # {}
      <4>1. Cardinality({}) = 0
        BY FS_EmptySet
      <4> HIDE DEF same
      <4> QED
        BY <1>3, <4>1
    <3> HIDE DEF same
    <3>2. StoreEntry(acc, f, e) =
            CASE Cardinality(same) > 1 -> [acc EXCEPT !.failed = TRUE]
              [] same = {} -> [acc EXCEPT !.rows = Append(@, Row(f, e, 0)), !.new = Append(@, Len(acc.rows) + 1)]
              [] OTHER -> [acc EXCEPT !.rows[Min(same)] = Row(f, e, @.score)]
      BY DEF StoreEntry, same
    <3> QED
      BY <1>3, <3>1, <3>2
  <2> QED
    BY <1>1, <2>1 DEF Grown, Result
<1>4. CASE ~(Cardinality(same) > 1) /\ same = {}
  <2> DEFINE n == Len(acc.rows) + 1
             rows == Append(acc.rows, Row(f, e, 0))
             new == Append(acc.new, n)
  <2>1. StoreEntry(acc, f, e) = [acc EXCEPT !.rows = rows, !.new = new]
    BY <1>4 DEF StoreEntry
  <2>2. rows \in Seq(RowsOf(Feeds)) /\ Len(rows) = n
    BY <1>1, RowFacts DEF Result
  <2>3. new \in Seq(Nat) /\ ToSet(new) = ToSet(acc.new) \cup {n}
    <3>1. acc.new \in Seq(Nat)
      BY <1>1 DEF Result
    <3> QED
      <4>1. DOMAIN acc.new = 1 .. Len(acc.new) /\ Len(acc.new) \in Nat /\ n \in Nat
        BY <1>1, <3>1
      <4>2. /\ DOMAIN new = 1 .. Len(acc.new) + 1 /\ new[Len(acc.new) + 1] = n
            /\ \A k \in DOMAIN acc.new : new[k] = acc.new[k]
        BY <3>1, <4>1
      <4>3. DOMAIN new = DOMAIN acc.new \cup {Len(acc.new) + 1}
        BY <4>1, <4>2
      <4>4. new \in Seq(Nat)
        BY <3>1, <4>1
      <4> HIDE DEF new, n
      <4>5. \A x : x \in ToSet(new) <=> x \in ToSet(acc.new) \/ x = n
        BY <4>2, <4>3 DEF ToSet
      <4> QED
        BY <4>4, <4>5
  <2> HIDE DEF rows, new
  <2>4. StoreEntry(acc, f, e) = [rows |-> rows, new |-> new, failed |-> acc.failed]
    BY <1>1, <2>1 DEF Result
  <2>5. StoreEntry(acc, f, e) \in Result
    BY <1>1, <2>2, <2>3, <2>4 DEF Result
  <2> QED
    BY <1>1, <2>2, <2>3, <2>4, <2>5 DEF Grown
<1>5. CASE ~(Cardinality(same) > 1) /\ same # {}
  <2> DEFINE i == Min(same)
             rows == [acc.rows EXCEPT ![i] = Row(f, e, @.score)]
  <2>1. StoreEntry(acc, f, e) = [acc EXCEPT !.rows = rows]
    BY <1>5 DEF StoreEntry
  <2>2. i \in same
    <3>1. \E x \in same : \A y \in same : x <= y
      BY <1>1, <1>2, <1>5, Least
    <3> QED
      BY <3>1 DEF Min
  <2>3. i \in 1 .. Len(acc.rows) /\ acc.rows[i] \in RowsOf(Feeds)
    BY <1>1, <1>2, <2>2 DEF Result
  <2> HIDE DEF i
  <2>4. Row(f, e, acc.rows[i].score) \in RowsOf(Feeds)
    BY <2>3, RowFacts DEF RowsOf
  <2>5. rows \in Seq(RowsOf(Feeds)) /\ Len(rows) = Len(acc.rows)
    BY <1>1, <2>3, <2>4 DEF Result
  <2> HIDE DEF rows
  <2>6. StoreEntry(acc, f, e) = [rows |-> rows, new |-> acc.new, failed |-> acc.failed]
    BY <1>1, <2>1 DEF Result
  <2> QED
    BY <1>1, <2>5, <2>6 DEF Grown, Result
<1> QED
  BY <1>3, <1>4, <1>5

(* after[m] is what is stored after m entries. *)
Storing(after, f, doc, n) ==
  after = [m \in 0 .. n |-> IF m = 0 THEN [rows |-> articles, new |-> <<>>, failed |-> FALSE]
                            ELSE StoreEntry(after[m - 1], f, doc[m])]

(* The rows after each entry of a document exist. *)
LEMMA StoringExists ==
  ASSUME NEW f, NEW doc, NEW n \in Nat
  PROVE  \E after : Storing(after, f, doc, n)
<1> DEFINE Base == [rows |-> articles, new |-> <<>>, failed |-> FALSE]
           Done == {m \in Nat : \E g : Storing(g, f, doc, m)}
<1>1. 0 \in Done
  <2> DEFINE g == [m \in 0 .. 0 |-> Base]
  <2>1. Storing(g, f, doc, 0)
    BY DEF Storing
  <2> HIDE DEF g
  <2> QED
    BY <2>1
<1>2. ASSUME NEW m \in Nat, m \in Done PROVE m + 1 \in Done
  <2>1. PICK g : Storing(g, f, doc, m)
    BY <1>2
  <2> DEFINE s == StoreEntry(g[m], f, doc[m + 1])
             h == [k \in 0 .. m + 1 |-> IF k = m + 1 THEN s ELSE g[k]]
  <2>2. \A k \in 0 .. m : g[k] = (IF k = 0 THEN Base ELSE StoreEntry(g[k - 1], f, doc[k]))
    BY <2>1 DEF Storing
  <2>3. /\ h[m + 1] = StoreEntry(h[m], f, doc[m + 1])
        /\ \A k \in 0 .. m : h[k] = g[k]
        /\ h = [k \in 0 .. m + 1 |-> h[k]]
    OBVIOUS
  <2> HIDE DEF s, h, Base
  <2>4. \A k \in 0 .. m + 1 : h[k] = (IF k = 0 THEN Base ELSE StoreEntry(h[k - 1], f, doc[k]))
    <3>1. ASSUME NEW k \in 0 .. m
          PROVE  h[k] = (IF k = 0 THEN Base ELSE StoreEntry(h[k - 1], f, doc[k]))
      <4>1. k # 0 => k - 1 \in 0 .. m
        OBVIOUS
      <4>2. k # 0 => h[k - 1] = g[k - 1]
        BY <4>1, <2>3
      <4> QED
        BY <4>2, <2>2, <2>3
    <3>2. m + 1 # 0 /\ m + 1 - 1 = m /\ \A k \in 0 .. m + 1 : k \in 0 .. m \/ k = m + 1
      OBVIOUS
    <3>3. h[m + 1] = StoreEntry(h[m + 1 - 1], f, doc[m + 1])
      BY <3>2, <2>3
    <3> QED
      BY <3>1, <3>2, <3>3
  <2>5. Storing(h, f, doc, m + 1)
    BY <2>3, <2>4 DEF Storing, Base
  <2> QED
    BY <2>5
<1> HIDE DEF Done
<1>3. n \in Done
  BY <1>1, <1>2, SetInduction
<1> QED
  BY <1>3 DEF Done

(* A document adds articles after those that are stored. *)
LEMMA StoreGrown ==
  ASSUME articles \in Seq(RowsOf(Feeds)), NEW f \in Feeds, NEW doc \in Seq(Entries)
  PROVE  Grown(Store(f, doc))
<1> DEFINE after == CHOOSE g : Storing(g, f, doc, Len(doc))
<1>1. Storing(after, f, doc, Len(doc))
  <2>1. Len(doc) \in Nat
    OBVIOUS
  <2>2. \E g : Storing(g, f, doc, Len(doc))
    BY <2>1, StoringExists
  <2> QED
    BY <2>2
<1>2. Store(f, doc) = [after[Len(doc)] EXCEPT !.failed = @ /\ driver = "postgres"]
  BY DEF Store, Storing
<1> HIDE DEF after
<1> DEFINE Base == [rows |-> articles, new |-> <<>>, failed |-> FALSE]
           Done == {m \in Nat : m <= Len(doc) => Grown(after[m])}
<1>3. \A k \in 0 .. Len(doc) : after[k] = (IF k = 0 THEN Base ELSE StoreEntry(after[k - 1], f, doc[k]))
  BY <1>1 DEF Storing
<1>4. 0 \in Done
  <2>1. after[0] = Base
    <3>1. 0 \in 0 .. Len(doc)
      OBVIOUS
    <3> QED
      BY <1>3, <3>1
  <2>2. Grown(Base)
    BY DEF Grown, Result, ToSet
  <2> QED
    BY <2>1, <2>2
<1>5. ASSUME NEW m \in Nat, m \in Done PROVE m + 1 \in Done
  <2> SUFFICES ASSUME m + 1 <= Len(doc) PROVE Grown(after[m + 1])
    OBVIOUS
  <2>1. Grown(after[m])
    BY <1>5
  <2>2. m + 1 \in 0 .. Len(doc) /\ m + 1 # 0 /\ m + 1 - 1 = m /\ doc[m + 1] \in Entries
    OBVIOUS
  <2>3. after[m + 1] = StoreEntry(after[m], f, doc[m + 1])
    BY <1>3, <2>2
  <2> HIDE DEF Done
  <2> QED
    BY <2>1, <2>2, <2>3, StoreEntryGrown
<1> HIDE DEF Done
<1>6. Len(doc) \in Done
  BY <1>4, <1>5, SetInduction
<1>7. Grown(after[Len(doc)])
  BY <1>6 DEF Done
<1> DEFINE all == after[Len(doc)]
<1> HIDE DEF all
<1>8. Store(f, doc) \in Result /\ Store(f, doc).rows = all.rows /\ Store(f, doc).new = all.new
  <2>1. all \in Result
    BY <1>7 DEF Grown, all
  <2>2. Store(f, doc) = [rows |-> all.rows, new |-> all.new, failed |-> (all.failed /\ driver = "postgres")]
    BY <1>2, <2>1 DEF Result, all
  <2> QED
    BY <2>1, <2>2 DEF Result
<1> QED
  BY <1>7, <1>8 DEF Grown, all
(* The monitor between two of its steps *)
IsMonitor(m) == m = [ids |-> m.ids, todo |-> m.todo, filters |-> m.filters]

(* Every ID that is announced or handled is that of an article. *)
TInv ==
  /\ articles \in Seq(RowsOf(Feeds))
  /\ events \in Seq(SUBSET (1 .. Len(articles)))
  /\ IsMonitor(monitor)
  /\ monitor.ids \subseteq 1 .. Len(articles)
  /\ monitor.todo \subseteq Users
  /\ handled \subseteq Users \X (1 .. Len(articles))

(* What was announced is announced once, and is not taken before. *)
Once ==
  /\ \A n \in DOMAIN events : events[n] # {}
  /\ \A m, n \in DOMAIN events : events[m] \cap events[n] # {} => m = n
  /\ \A n \in DOMAIN events : \A i \in events[n] : i \notin monitor.ids
  /\ \A n \in DOMAIN events : \A i \in events[n] : \A u \in Users : <<u, i>> \notin handled
  /\ \A u \in monitor.todo : \A i \in monitor.ids : <<u, i>> \notin handled
  /\ monitor.todo # {} => monitor.ids # {}

(* The invariant of the monitor *)
OInv == TInv /\ Once

(* The invariant of the monitor holds at first. *)
LEMMA InitOInv == Init => OInv
<1> SUFFICES ASSUME Init PROVE OInv
  OBVIOUS
<1>1. articles \in Seq(RowsOf(Feeds)) /\ events = <<>> /\ monitor = Idle /\ handled = {}
  BY TablesAssumption DEF Init
<1> QED
  BY <1>1 DEF OInv, TInv, Once, IsMonitor, Idle

(* It depends on the number of articles only. *)
LEMMA SameOInv ==
  ASSUME OInv, UNCHANGED <<events, monitor, handled>>, Len(articles') = Len(articles),
         articles' \in Seq(RowsOf(Feeds))
  PROVE  OInv'
BY DEF OInv, TInv, Once, IsMonitor

(* An update announces articles that are new. *)
LEMMA UpdateOInv ==
  ASSUME OInv, NEW f \in Feeds, NEW doc \in Docs[f], Update(f, doc)
  PROVE  OInv'
<1> DEFINE s == Store(f, doc)
           new == ToSet(s.new)
<1>1. Grown(s)
  BY StoreGrown, InputsAssumption DEF OInv, TInv
<1> HIDE DEF s
<1>2. /\ articles' = IF s.failed THEN articles ELSE s.rows
      /\ events' = IF s.failed \/ new = {} THEN events ELSE Append(events, new)
      /\ UNCHANGED <<monitor, handled>>
  BY DEF Update, s
<1> DEFINE n == Len(articles)
           n2 == Len(articles')
<1>3. /\ n \in Nat /\ n2 \in Nat /\ n <= n2 /\ articles' \in Seq(RowsOf(Feeds))
      /\ new \subseteq n + 1 .. Len(s.rows)
  BY <1>1, <1>2 DEF Grown, Result, OInv, TInv
<1>4. 1 .. n \subseteq 1 .. n2
  BY <1>3
<1> HIDE DEF n, n2, new
<1>5. events \in Seq(SUBSET (1 .. n))
  BY DEF OInv, TInv, n
<1>6. events \in Seq(SUBSET (1 .. n2))
  BY <1>4, <1>5
<1>7. CASE events' = events
  <2>1. TInv'
    BY <1>2, <1>3, <1>4, <1>6, <1>7 DEF OInv, TInv, IsMonitor, n, n2
  <2> QED
    BY <1>2, <1>7, <2>1 DEF OInv, Once
<1>8. CASE events' # events
  <2>1. events' = Append(events, new) /\ new # {} /\ articles' = s.rows
    BY <1>2, <1>8
  <2>2. new \subseteq n + 1 .. n2 /\ new \subseteq 1 .. n2
    BY <1>3, <2>1 DEF n2
  <2>3. events' \in Seq(SUBSET (1 .. n2))
    <3> DEFINE T == SUBSET (1 .. n2)
    <3>1. new \in T /\ events \in Seq(T)
      BY <1>6, <2>1, <2>2
    <3> HIDE DEF T
    <3>2. events' \in Seq(T)
      BY <2>1, <3>1
    <3> QED
      BY <3>2 DEF T
  <2>4. TInv'
    BY <1>2, <1>3, <1>4, <2>3 DEF OInv, TInv, IsMonitor, n, n2
  <2>5. \A k \in DOMAIN events' : (k \in DOMAIN events /\ events'[k] = events[k]) \/ (k = Len(events) + 1 /\ events'[k] = new)
    BY <1>6, <2>1
  <2>6. /\ \A k \in DOMAIN events : events[k] \cap new = {}
        /\ monitor.ids \cap new = {}
        /\ \A u \in Users : \A i \in new : <<u, i>> \notin handled
    BY <1>3, <1>5, <2>2 DEF OInv, TInv, n
  <2>7. Once'
    <3>0. \A k \in DOMAIN events' : events'[k] # {}
      BY <2>1, <2>5 DEF OInv, Once
    <3>1. \A k \in DOMAIN events' : \A i \in events'[k] : i \notin monitor'.ids
      BY <1>2, <2>5, <2>6 DEF OInv, Once
    <3>2. \A k \in DOMAIN events' : \A i \in events'[k] : \A u \in Users : <<u, i>> \notin handled'
      BY <1>2, <2>5, <2>6 DEF OInv, Once
    <3>3. ASSUME NEW j \in DOMAIN events', NEW k \in DOMAIN events', events'[j] \cap events'[k] # {}
          PROVE  j = k
      BY <2>5, <2>6, <3>3 DEF OInv, Once
    <3> QED
      BY <1>2, <3>0, <3>1, <3>2, <3>3 DEF OInv, Once
  <2> QED
    BY <2>4, <2>7 DEF OInv
<1> QED
  BY <1>7, <1>8

(* The monitor takes what nobody has been handled for. *)
LEMMA TakeOInv == ASSUME OInv, MonitorTake \/ MonitorGivesUp PROVE OInv'
<1> DEFINE T == SUBSET (1 .. Len(articles))
<1>1. events \in Seq(T) /\ events # <<>> /\ events' = Tail(events) /\ UNCHANGED <<articles, handled>>
  BY DEF OInv, TInv, MonitorTake, MonitorGivesUp, tables, others
<1>2. /\ events' \in Seq(T) /\ Head(events) = events[1] /\ 1 \in DOMAIN events
      /\ \A n \in DOMAIN events' : n + 1 \in DOMAIN events /\ events'[n] = events[n + 1] /\ n + 1 # 1 /\ n \in Nat
  <2> HIDE DEF T
  <2> QED
    BY <1>1
<1>3. events[1] \in T
  BY <1>1, <1>2
<1>4. \A m, n \in DOMAIN events' : events'[m] \cap events'[n] # {} => m = n
  BY <1>2 DEF OInv, Once
<1>8. \A n \in DOMAIN events' : events'[n] # {}
  BY <1>2 DEF OInv, Once
<1>5. \A n \in DOMAIN events' : \A i \in events'[n] : \A u \in Users : <<u, i>> \notin handled'
  BY <1>1, <1>2 DEF OInv, Once
<1>6. CASE MonitorTake
  <2>1. monitor' = [ids |-> events[1], todo |-> Users, filters |-> filters]
    BY <1>2, <1>6 DEF MonitorTake
  <2>2. TInv'
    BY <1>1, <1>2, <1>3, <2>1 DEF OInv, TInv, IsMonitor
  <2>3. \A n \in DOMAIN events' : \A i \in events'[n] : i \notin monitor'.ids
    BY <1>2, <2>1 DEF OInv, Once
  <2>4. \A u \in Users : \A i \in events[1] : <<u, i>> \notin handled
    BY <1>2 DEF OInv, Once
  <2>5. monitor'.ids = events[1] /\ monitor'.todo = Users /\ events[1] # {}
    BY <1>2, <2>1 DEF OInv, Once
  <2>6. \A u \in monitor'.todo : \A i \in monitor'.ids : <<u, i>> \notin handled'
    BY <1>1, <2>4, <2>5
  <2> QED
    BY <1>4, <1>5, <1>8, <2>2, <2>3, <2>5, <2>6 DEF OInv, Once
<1>7. CASE MonitorGivesUp
  <2>1. monitor' = monitor
    BY <1>7 DEF MonitorGivesUp
  <2>2. TInv'
    BY <1>1, <1>2, <2>1 DEF OInv, TInv, IsMonitor
  <2>3. \A n \in DOMAIN events' : \A i \in events'[n] : i \notin monitor'.ids
    BY <1>2, <2>1 DEF OInv, Once
  <2> QED
    BY <1>1, <1>4, <1>5, <1>8, <2>1, <2>2, <2>3 DEF OInv, Once
<1> QED
  BY <1>6, <1>7

(* The monitor handles a user once. *)
LEMMA MarkOInv == ASSUME OInv, NEW u \in Users, MonitorMark(u) \/ MonitorSkip(u) PROVE OInv'
<1>1. /\ u \in monitor.todo
      /\ monitor' = IF monitor.todo = {u} THEN Idle ELSE [monitor EXCEPT !.todo = @ \ {u}]
      /\ UNCHANGED <<events, articles>>
      /\ handled' = handled \cup ({u} \X monitor.ids) \/ handled' = handled
  BY DEF MonitorMark, MonitorSkip, MonitorDone, Read, tables, others
<1>2. /\ IsMonitor(monitor')
      /\ (monitor'.ids = {} /\ monitor'.todo = {})
         \/ (monitor'.ids = monitor.ids /\ monitor'.todo = monitor.todo \ {u})
  <2>1. CASE monitor.todo = {u}
    BY <1>1, <2>1 DEF Idle, IsMonitor
  <2>2. CASE monitor.todo # {u}
    <3>1. monitor' = [ids |-> monitor.ids, todo |-> monitor.todo \ {u}, filters |-> monitor.filters]
      BY <1>1, <2>2 DEF OInv, TInv, IsMonitor
    <3> QED
      BY <3>1 DEF IsMonitor
  <2> QED
    BY <2>1, <2>2
<1>3. TInv'
  BY <1>1, <1>2 DEF OInv, TInv
<1>4. \A n \in DOMAIN events : \A i \in events[n] : \A v \in Users : <<v, i>> \notin handled'
  <2> SUFFICES ASSUME NEW n \in DOMAIN events, NEW i \in events[n], NEW v \in Users
               PROVE  <<v, i>> \notin handled'
    OBVIOUS
  <2>1. <<v, i>> \notin handled /\ i \notin monitor.ids
    BY DEF OInv, Once
  <2> QED
    BY <1>1, <2>1
<1>5. \A v \in monitor'.todo : \A i \in monitor'.ids : <<v, i>> \notin handled'
  <2> SUFFICES ASSUME NEW v \in monitor'.todo, NEW i \in monitor'.ids PROVE <<v, i>> \notin handled'
    OBVIOUS
  <2>1. v \in monitor.todo \ {u} /\ i \in monitor.ids
    BY <1>2
  <2>2. <<v, i>> \notin handled
    BY <2>1 DEF OInv, Once
  <2> QED
    BY <1>1, <2>1, <2>2
<1>6. \A n \in DOMAIN events : \A i \in events[n] : i \notin monitor'.ids
  BY <1>2 DEF OInv, Once
<1> QED
  BY <1>1, <1>2, <1>3, <1>4, <1>5, <1>6 DEF OInv, Once

(* Every step keeps the invariant. *)
LEMMA NextOInv == ASSUME OInv, [Next]_vars PROVE OInv'
<1>1. ASSUME UNCHANGED <<events, monitor, handled, articles>> PROVE OInv'
  BY <1>1, SameOInv DEF OInv, TInv
<1>2. CASE UNCHANGED vars
  BY <1>1, <1>2 DEF vars, tables, others, control
<1>3. ASSUME NEW f \in Feeds, NEW doc \in Docs[f], Update(f, doc) PROVE OInv'
  BY <1>3, UpdateOInv
<1>4. ASSUME NEW i \in DOMAIN articles, Scored(i) PROVE OInv'
  <2>1. articles' = [articles EXCEPT ![i].score = 1] /\ UNCHANGED <<events, monitor, handled>>
    BY <1>4 DEF Scored, control
  <2>2. articles \in Seq(RowsOf(Feeds)) /\ articles[i] \in RowsOf(Feeds)
    BY DEF OInv, TInv
  <2>3. [articles[i] EXCEPT !.score = 1] \in RowsOf(Feeds)
    BY <2>2 DEF RowsOf
  <2>4. articles' \in Seq(RowsOf(Feeds)) /\ Len(articles') = Len(articles)
    BY <2>1, <2>2, <2>3
  <2> QED
    BY <2>1, <2>4, SameOInv
<1>5. CASE MonitorStep
  BY <1>5, TakeOInv, MarkOInv DEF MonitorStep
<1>6. CASE RemoveStaleUnreadRecords
  BY <1>1, <1>6 DEF RemoveStaleUnreadRecords, others
<1>7. ASSUME NEW u \in Users, UserStep(u) PROVE OInv'
  <2>1. UNCHANGED <<events, monitor, handled, articles>>
    BY <1>7 DEF UserStep, Edit, AttachTo, DetachFrom, SetUserTags, SetFilters, Begin, ResolveTag,
                WriteNext, Answer, Read, Favor, control, tables, others
  <2> QED
    BY <1>1, <2>1
<1> QED
  BY <1>2, <1>3, <1>4, <1>5, <1>6, <1>7 DEF Next

(* The monitor marks an article as unread at most once for a user, whatever
   is polled, stored and marked in between. *)
THEOREM MarkedOnce == Spec => MonitorMarksOnce
<1>1. ASSUME OInv, [Next]_vars, NEW u \in Users, NEW i \in DOMAIN articles, monitor' # monitor,
             <<u, i>> \in unread' \ unread
      PROVE  <<u, i>> \notin handled
  <2>0. unread' # unread
    BY <1>1
  <2>1. PICK v \in Users : MonitorMark(v)
    <3>1. ASSUME NEW f \in Feeds, NEW doc \in Docs[f] PROVE ~Update(f, doc)
      BY <2>0 DEF Update
    <3>2. ASSUME NEW j \in DOMAIN articles PROVE ~Scored(j)
      BY <2>0 DEF Scored
    <3>3. ~MonitorTake /\ ~MonitorGivesUp /\ \A v \in Users : ~MonitorSkip(v)
      BY <2>0 DEF MonitorTake, MonitorGivesUp, MonitorSkip, tables
    <3>4. ~RemoveStaleUnreadRecords /\ ~UNCHANGED vars
      BY <1>1 DEF RemoveStaleUnreadRecords, vars, control
    <3>5. \A v \in Users : ~UserStep(v)
      BY <1>1 DEF UserStep, Edit, Begin, ResolveTag, WriteNext, Answer, control
    <3> QED
      BY <1>1, <3>1, <3>2, <3>3, <3>4, <3>5 DEF Next, MonitorStep
  <2> DEFINE o == Apply(<<IDs(monitor.ids), Filters(monitor.filters[v])>>)
  <2>2. unread' = unread \cup ({v} \X Selected(v, o)) /\ v \in monitor.todo
    BY <2>1 DEF MonitorMark, Read
  <2>3. v = u /\ i \in Selected(v, o)
    BY <1>1, <2>2
  <2>4. o.ids # {} => i \in o.ids
    BY <2>3 DEF Selected, Matches
  <2>5. o.ids = monitor.ids
    BY MonitorOptions
  <2>6. monitor.ids # {}
    BY <1>1, <2>2 DEF OInv, Once
  <2> QED
    BY <1>1, <2>2, <2>3, <2>4, <2>5, <2>6 DEF OInv, Once
<1>2. OInv /\ [Next]_vars => OInv'
  BY NextOInv
<1>3. OInv /\ [Next]_vars =>
        [\A u \in Users : \A i \in DOMAIN articles :
           monitor' # monitor /\ <<u, i>> \in unread' \ unread => <<u, i>> \notin handled]_vars
  BY <1>1
<1> QED
  BY InitOInv, <1>2, <1>3, PTL DEF Spec, MonitorMarksOnce

-----------------------------------------------------------------------------
(* What the options of a request select is what the request names. *)

(* What the bounds of a query mean for one article. *)
LEMMA RangeFacts ==
  ASSUME articles \in Seq(RowsOf(Feeds)), NEW i \in DOMAIN articles, NEW o, InRange(o, i)
  PROVE  /\ o.beforeID \in Int /\ o.beforeID > 0 => i <= o.beforeID
         /\ o.beforeID \in Int /\ o.beforeScore \in Int /\ o.beforeDate \in Nat /\ o.beforeID <= 0 /\ o.beforeDate > 0
              => articles[i].date < o.beforeDate \/ (o.beforeScore > 0 /\ articles[i].date = o.beforeDate)
         /\ o.afterID = 0 /\ o.afterScore = 0 /\ o.afterDate \in Nat /\ o.afterDate > 0
              => articles[i].date > o.afterDate
<1> DEFINE before == <<o.beforeID, o.beforeDate, o.beforeScore>>
           after == <<o.afterID, o.afterDate, o.afterScore>>
           cols == Columns(i)
<1>1. i \in Nat /\ articles[i].date \in Nat
  <2>1. articles[i] \in RowsOf(Feeds) /\ i \in Nat
    OBVIOUS
  <2> QED
    BY <2>1 DEF RowsOf
<1>2. cols[1] = i /\ cols[2] = articles[i].date /\ cols[3] = articles[i].score
  BY DEF Columns
<1>3. /\ before[1] = o.beforeID /\ before[2] = o.beforeDate /\ before[3] = o.beforeScore
      /\ after[1] = o.afterID /\ after[2] = o.afterDate /\ after[3] = o.afterScore
  OBVIOUS
<1>4. /\ Bounded(before) # {} => LexLess(cols, before, Bounded(before))
      /\ Bounded(after) # {} => LexLess(after, cols, Bounded(after))
  BY DEF InRange
<1>5. \A b : \A n \in 1 .. 3 : n \in Bounded(b) <=> b[n] > 0
  BY DEF Bounded
<1>6. \A b : Bounded(b) \subseteq {1, 2, 3}
  BY DEF Bounded
<1> HIDE DEF before, after, cols
<1>7. ASSUME o.beforeID \in Int, o.beforeID > 0 PROVE i <= o.beforeID
  <2>1. 1 \in Bounded(before)
    BY <1>3, <1>5, <1>7
  <2>2. PICK n \in Bounded(before) : cols[n] < before[n] /\ \A m \in Bounded(before) : m < n => cols[m] = before[m]
    BY <1>4, <2>1 DEF LexLess
  <2>3. n = 1 \/ 1 < n
    BY <1>6
  <2> QED
    BY <1>1, <1>2, <1>3, <1>7, <2>1, <2>2, <2>3
<1>8. ASSUME o.beforeID \in Int, o.beforeScore \in Int, o.beforeDate \in Nat, o.beforeID <= 0, o.beforeDate > 0
      PROVE  articles[i].date < o.beforeDate \/ (o.beforeScore > 0 /\ articles[i].date = o.beforeDate)
  <2>1. 2 \in Bounded(before) /\ 1 \notin Bounded(before)
    BY <1>3, <1>5, <1>8
  <2>2. PICK n \in Bounded(before) : cols[n] < before[n] /\ \A m \in Bounded(before) : m < n => cols[m] = before[m]
    BY <1>4, <2>1 DEF LexLess
  <2>3. n = 2 \/ n = 3
    BY <1>6, <2>1
  <2>4. n = 3 => before[3] > 0
    BY <1>5
  <2> QED
    BY <1>1, <1>2, <1>3, <1>8, <2>1, <2>2, <2>3, <2>4
<1>9. ASSUME o.afterID = 0, o.afterScore = 0, o.afterDate \in Nat, o.afterDate > 0
      PROVE  articles[i].date > o.afterDate
  <2>1. 2 \in Bounded(after) /\ 1 \notin Bounded(after) /\ 3 \notin Bounded(after)
    BY <1>3, <1>5, <1>9
  <2>2. PICK n \in Bounded(after) : after[n] < cols[n]
    BY <1>4, <2>1 DEF LexLess
  <2>3. n = 2
    BY <1>6, <2>1
  <2> QED
    BY <1>1, <1>2, <1>3, <1>9, <2>2, <2>3
<1> QED
  BY <1>7, <1>8, <1>9

(* What a write of a request selects is what the request names. *)
LEMMA NamesFacts ==
  ASSUME articles \in Seq(RowsOf(Feeds)), NEW u \in Users, NEW r, Asked(u, r), r.tag = 0,
         NEW n \in DOMAIN r.writes, NEW i \in Selected(u, Apply(r.writes[n].opts))
  PROVE  i \in DOMAIN articles /\ <<u, articles[i].feed>> \in members /\ Names(r, i)
<1> DEFINE o == Apply(r.writes[n].opts)
           a == r.ask
           feed == articles[i].feed
<1>1. /\ i \in DOMAIN articles /\ <<u, articles[i].feed>> \in members
      /\ Matches(u, o, i) /\ u # Nobody
  BY NamesAssumption DEF Selected, Visible
<1>2. /\ Within(a, o) /\ a \in Requests /\ r.user = u
      /\ OfTag(a) => o.feedIDs = r.feeds
  BY DEF Asked, Fits
<1> HIDE DEF o
<1>3. /\ InRange(o, i)
      /\ o.ids # {} => i \in o.ids
      /\ o.feedIDs # {} => feed \in o.feedIDs
      /\ o.favoriteOnly => <<u, i>> \in favorite
      /\ o.untaggedOnly => \A t \in tagged : t[1] # u \/ t[2] # feed
  BY <1>1 DEF Matches
<1>4. articles[i].date \in Nat /\ i \in Nat
  <2>1. articles[i] \in RowsOf(Feeds) /\ i \in Nat
    BY <1>1
  <2> QED
    BY <2>1 DEF RowsOf
<1>5. OfTag(a) => r.feeds = {} \/ feed \in r.feeds
  BY <1>2, <1>3
<1>6. a.to \in {"article", "articles", "update", "catchup", "recent", "mark"}
  BY <1>2, AskFields
<1>7. CASE a.to = "article"
  BY <1>1, <1>2, <1>3, <1>7 DEF Names, Within
<1>8. CASE a.to = "articles"
  <2> DEFINE q == a.query
  <2>1. q \in Queries
    BY <1>2, <1>8, AskFields
  <2>2. q.beforeID \in Int /\ q.beforeScore \in Int /\ q.beforeTime \in Nat
    BY <2>1 DEF Queries
  <2>3. /\ a.type = "feed" => o.feedIDs = {a.id}
        /\ a.type = "favorite" => o.favoriteOnly
        /\ o.ids = q.id
        /\ Same(o.beforeID, q.beforeID) /\ Same(o.beforeScore, q.beforeScore)
        /\ o.beforeDate = q.beforeTime
    BY <1>2, <1>8 DEF Within
  <2>4. a.type = "tag" => OfTag(a)
    BY <1>8 DEF OfTag
  <2>5. q.beforeID > 0 => i <= q.beforeID
    BY <1>1, <1>3, <2>2, <2>3, RangeFacts DEF Same
  <2>6. q.beforeTime > 0 /\ q.beforeID <= 0 =>
          \/ articles[i].date < q.beforeTime
          \/ q.beforeScore > 0 /\ articles[i].date = q.beforeTime
    BY <1>1, <1>3, <2>2, <2>3, RangeFacts DEF Same
  <2>7. a.type = "feed" => feed = a.id
    BY <1>3, <2>3
  <2>8. a.type = "favorite" => <<r.user, i>> \in favorite
    BY <1>2, <1>3, <2>3
  <2>9. q.id # {} => i \in q.id
    BY <1>3, <2>3
  <2>10. a.type = "tag" => r.feeds = {} \/ feed \in r.feeds
    BY <1>5, <2>4
  <2> QED
    BY <1>1, <1>8, <2>5, <2>6, <2>7, <2>8, <2>9, <2>10 DEF Names
<1>9. CASE a.to = "update"
  BY <1>1, <1>2, <1>3, <1>9 DEF Names, Within
<1>10. CASE a.to = "catchup"
  <2>1. /\ OnlyDates(o) /\ o.beforeDate = Now
        /\ ~a.isCat => o.feedIDs = {a.id}
        /\ a.isCat /\ a.id = 0 => o.untaggedOnly
    BY <1>2, <1>10 DEF Within
  <2>2. articles[i].date < Now
    BY <1>1, <1>3, <2>1, DatesAssumption, RangeFacts DEF OnlyDates
  <2>3. ~a.isCat => feed = a.id
    BY <1>3, <2>1
  <2>4. a.isCat /\ a.id # CAT_UNCATEGORIZED => r.feeds = {} \/ feed \in r.feeds
    BY <1>5, <1>10 DEF OfTag, CAT_UNCATEGORIZED
  <2>5. a.isCat /\ a.id = CAT_UNCATEGORIZED => TagsForFeed(r.user, feed) = {}
    BY <1>2, <1>3, <2>1 DEF TagsForFeed, CAT_UNCATEGORIZED
  <2> QED
    BY <1>1, <1>10, <2>2, <2>3, <2>4, <2>5 DEF Names
<1>11. CASE a.to = "recent"
  <2>1. OnlyDates(o) /\ o.afterDate = DayAgo /\ o.beforeDate = Now
    BY <1>2, <1>11 DEF Within
  <2>2. articles[i].date < Now /\ articles[i].date > DayAgo
    BY <1>1, <1>3, <2>1, DatesAssumption, RangeFacts DEF OnlyDates
  <2>3. articles[i].date \in (DayAgo + 1) .. (Now - 1)
    BY <1>4, <2>2, DatesAssumption
  <2> QED
    BY <1>1, <1>11, <2>3 DEF Names
<1>12. CASE a.to = "mark"
  <2>1. /\ a.mark = "item" => o.ids = {a.id}
        /\ a.mark # "item" => OnlyDates(o) /\ o.beforeDate = a.before
        /\ a.mark = "feed" /\ a.id # 0 => o.feedIDs = {a.id}
    BY <1>2, <1>12 DEF Within
  <2>2. a.before \in Nat \ {0}
    BY <1>2, <1>12, AskFields
  <2>3. a.mark # "item" => articles[i].date < a.before
    BY <1>1, <1>3, <2>1, <2>2, RangeFacts DEF OnlyDates
  <2>4. a.mark = "group" /\ a.id # 0 => r.feeds = {} \/ feed \in r.feeds
    BY <1>5, <1>12 DEF OfTag
  <2>5. a.mark = "item" => i = a.id
    BY <1>3, <2>1
  <2>6. a.mark = "feed" /\ a.id # 0 => feed = a.id
    BY <1>3, <2>1
  <2> QED
    BY <1>1, <1>12, <2>3, <2>4, <2>5, <2>6 DEF Names
<1> QED
  BY <1>1, <1>6, <1>7, <1>8, <1>9, <1>10, <1>11, <1>12

-----------------------------------------------------------------------------
(* The invariant of the requests: each is as asked. *)
RInv ==
  /\ OInv /\ TagsKnown
  /\ DOMAIN requests = Users
  /\ \A u \in Users : requests[u] = NoRequest \/ Asked(u, requests[u])

(* The invariant of the requests holds at first. *)
LEMMA InitRInv == Init => RInv
<1> SUFFICES ASSUME Init PROVE RInv
  OBVIOUS
<1>1. OInv
  BY InitOInv
<1>2. TagsKnown
  BY TablesAssumption DEF Init, TagsKnown
<1>3. requests = [u \in Users |-> NoRequest]
  BY DEF Init
<1> QED
  BY <1>1, <1>2, <1>3 DEF RInv

(* A step that begins, goes on with or ends a request. *)
LEMMA ChangedRequest ==
  ASSUME RInv, NEW u \in Users, NEW r, r = NoRequest \/ Asked(u, r),
         requests' = [requests EXCEPT ![u] = r], UNCHANGED tagged, OInv'
  PROVE  RInv'
<1>1. DOMAIN requests' = Users
  BY DEF RInv
<1>2. ASSUME NEW v \in Users PROVE requests'[v] = NoRequest \/ Asked(v, requests'[v])
  <2>1. CASE v = u
    BY <2>1 DEF RInv
  <2>2. CASE v # u
    BY <2>2 DEF RInv
  <2> QED
    BY <2>1, <2>2
<1>3. TagsKnown'
  BY DEF RInv, TagsKnown
<1>4. \A v \in Users : requests'[v] = NoRequest \/ Asked(v, requests[v])'
  BY <1>2 DEF Asked, Fits
<1> QED
  BY <1>1, <1>3, <1>4 DEF RInv, NoRequest

(* The feeds of a tag are read once; the writes that follow use them. *)
LEMMA NextResolve ==
  ASSUME RInv, NEW u \in Users, ResolveTag(u), OInv'
  PROVE  RInv'
<1> DEFINE r == requests[u]
           feeds == FeedsForTag(u, r.tag)
           ws == [n \in DOMAIN r.writes |-> [r.writes[n] EXCEPT !.opts = Append(@, FeedIDs(feeds))]]
           q == [user |-> u, tag |-> 0, writes |-> ws, ask |-> r.ask, feeds |-> feeds]
<1>1. r.tag # 0 /\ requests' = [requests EXCEPT ![u] = [user |-> r.user, tag |-> 0, writes |-> ws, ask |-> r.ask, feeds |-> feeds]]
      /\ UNCHANGED tagged
  BY DEF ResolveTag, tables, others
<1>2. Asked(u, r)
  <2>1. NoRequest.tag = 0
    BY DEF NoRequest
  <2> QED
    BY <1>1, <2>1 DEF RInv
<1> HIDE DEF r
<1>3. /\ r = [user |-> u, tag |-> r.tag, writes |-> r.writes, ask |-> r.ask, feeds |-> r.feeds]
      /\ r.ask \in Requests /\ IsList(r.writes) /\ OfTag(r.ask)
      /\ \A n \in DOMAIN r.writes : Fits(r, r.writes[n])
  BY <1>1, <1>2 DEF Asked
<1> HIDE DEF feeds
<1>4. ASSUME NEW n \in DOMAIN r.writes
      PROVE  Fits(q, ws[n])
  <2> DEFINE w == r.writes[n]
             opts == Append(w.opts, FeedIDs(feeds))
  <2>1. /\ w = [state |-> w.state, value |-> w.value, opts |-> w.opts] /\ IsList(w.opts)
        /\ Within(r.ask, Apply(w.opts))
    BY <1>3 DEF Fits, Write
  <2>2. ws[n] = [w EXCEPT !.opts = opts]
    OBVIOUS
  <2> HIDE DEF w
  <2>3. ws[n] = [state |-> w.state, value |-> w.value, opts |-> opts]
    BY <2>1, <2>2
  <2>4. IsList(opts) /\ Apply(opts) = Override(Apply(w.opts), FeedIDs(feeds))
    BY <2>1, Lists
  <2> HIDE DEF opts
  <2>5. /\ Apply(opts).feedIDs = feeds
        /\ \A k \in Restriction \ {"feedIDs"} : Apply(opts)[k] = Apply(w.opts)[k]
    BY <2>4, SetsFeedIDs
  <2>6. Within(r.ask, Apply(opts))
    BY <1>3, <2>1, <2>5 DEF Within, OfTag, Restriction, OnlyDates
  <2> QED
    BY <2>3, <2>4, <2>5, <2>6 DEF Fits, Write
<1>5. IsList(ws)
  <2>1. PICK S : r.writes \in Seq(S)
    BY <1>3 DEF IsList
  <2>2. DOMAIN ws = 1 .. Len(r.writes) /\ Len(r.writes) \in Nat
    BY <2>1
  <2> DEFINE T == {ws[n] : n \in DOMAIN ws}
  <2>3. \A n \in DOMAIN ws : ws[n] \in T
    OBVIOUS
  <2>4. ws = [n \in 1 .. Len(r.writes) |-> ws[n]]
    BY <2>2
  <2> HIDE DEF ws, T
  <2>5. ws \in Seq(T)
    BY <2>2, <2>3, <2>4
  <2> QED
    BY <2>5 DEF IsList
<1>6. [user |-> r.user, tag |-> 0, writes |-> ws, ask |-> r.ask, feeds |-> feeds] = q
  <2> HIDE DEF ws
  <2> QED
    BY <1>3
<1>7. Asked(u, q)
  <2>1. DOMAIN ws = DOMAIN r.writes
    OBVIOUS
  <2> HIDE DEF ws
  <2> QED
    BY <1>3, <1>4, <1>5, <2>1 DEF Asked
<1> HIDE DEF q, ws
<1>8. requests' = [requests EXCEPT ![u] = q]
  BY <1>1, <1>6
<1> QED
  BY <1>1, <1>7, <1>8, ChangedRequest

(* A write changes the request, which was as asked. *)
LEMMA NextWrite ==
  ASSUME RInv, NEW u \in Users, WriteNext(u), OInv'
  PROVE  /\ RInv' /\ requests'[u] # requests[u] /\ Asked(u, requests[u])
         /\ requests[u].tag = 0 /\ 1 \in DOMAIN requests[u].writes
<1> DEFINE r == requests[u]
           q == IF Len(r.writes) = 1 THEN NoRequest
                ELSE [user |-> r.user, tag |-> 0, writes |-> Tail(r.writes), ask |-> r.ask, feeds |-> r.feeds]
<1>1. /\ r.tag = 0 /\ r.writes # <<>> /\ requests' = [requests EXCEPT ![u] = q]
      /\ UNCHANGED tagged
  BY DEF WriteNext, Read, Favor, others
<1>2. Asked(u, r)
  <2>1. NoRequest.writes = <<>>
    BY DEF NoRequest
  <2> QED
    BY <1>1, <2>1 DEF RInv
<1>3. /\ r = [user |-> u, tag |-> r.tag, writes |-> r.writes, ask |-> r.ask, feeds |-> r.feeds]
      /\ r.ask \in Requests /\ \A n \in DOMAIN r.writes : Fits(r, r.writes[n])
  BY <1>2 DEF Asked
<1>4. PICK S : r.writes \in Seq(S)
  BY <1>2 DEF Asked, IsList
<1>5. /\ Tail(r.writes) \in Seq(S) /\ Tail(r.writes) # r.writes
      /\ \A n \in DOMAIN Tail(r.writes) : n + 1 \in DOMAIN r.writes /\ Tail(r.writes)[n] = r.writes[n + 1]
      /\ 1 \in DOMAIN r.writes
  <2>1. Len(r.writes) \in Nat \ {0} /\ Len(Tail(r.writes)) = Len(r.writes) - 1
    BY <1>1, <1>4
  <2> HIDE DEF r
  <2>2. Tail(r.writes) # r.writes
    <3>1. Tail(r.writes) = r.writes => Len(Tail(r.writes)) = Len(r.writes)
      OBVIOUS
    <3> QED
      BY <2>1, <3>1
  <2> QED
    BY <1>1, <1>4, <2>1, <2>2
<1>6. r # q /\ (q = NoRequest \/ Asked(u, q))
  <2>1. CASE Len(r.writes) = 1
    <3>1. q = NoRequest
      BY <2>1
    <3>2. NoRequest.writes = <<>>
      BY DEF NoRequest
    <3> QED
      BY <1>1, <3>1, <3>2
  <2>2. CASE Len(r.writes) # 1
    <3> DEFINE t == [user |-> u, tag |-> r.tag, writes |-> Tail(r.writes), ask |-> r.ask, feeds |-> r.feeds]
    <3>1. q = t
      <4> HIDE DEF r
      <4> QED
        BY <1>1, <1>3, <2>2
    <3>2. /\ t = [user |-> u, tag |-> t.tag, writes |-> t.writes, ask |-> t.ask, feeds |-> t.feeds]
          /\ t.writes = Tail(r.writes) /\ t.ask = r.ask /\ t.feeds = r.feeds /\ t.tag = r.tag
      OBVIOUS
    <3> HIDE DEF t, r, q
    <3>3. \A w : Fits(r, w) <=> Fits(t, w)
      BY <3>2 DEF Fits
    <3>4. Asked(u, t)
      BY <1>1, <1>3, <1>5, <3>2, <3>3 DEF Asked, IsList
    <3> QED
      BY <1>5, <3>1, <3>2, <3>4
  <2> QED
    BY <2>1, <2>2
<1> HIDE DEF q
<1>7. RInv'
  BY <1>1, <1>6, ChangedRequest
<1>8. requests'[u] = q
  BY <1>1 DEF RInv
<1> QED
  BY <1>1, <1>2, <1>5, <1>6, <1>7, <1>8

(* Every step keeps the invariant. *)
LEMMA NextRInv == ASSUME RInv, [Next]_vars PROVE RInv'
<1>1. OInv'
  BY NextOInv DEF RInv
<1>2. ASSUME UNCHANGED requests, TagsKnown' PROVE RInv'
  <2>1. \A u \in Users : requests'[u] = NoRequest' \/ Asked(u, requests[u])'
    BY <1>2 DEF RInv, Asked, Fits, NoRequest
  <2> QED
    BY <1>1, <1>2, <2>1 DEF RInv
<1>3. ASSUME UNCHANGED <<requests, tagged>> PROVE RInv'
  BY <1>2, <1>3 DEF RInv, TagsKnown
<1>4. ASSUME NEW u \in Users, UserStep(u) PROVE RInv'
  <2>1. ASSUME NEW f \in Feeds, Edit(AttachTo(f, u)) \/ Edit(DetachFrom(f, u)) PROVE RInv'
    BY <1>3, <2>1 DEF Edit, AttachTo, DetachFrom, control
  <2>2. ASSUME NEW f \in Feeds, NEW ts \in SUBSET Tags, Edit(SetUserTags(f, u, ts)) PROVE RInv'
    <3>1. UNCHANGED requests /\ tagged' = {t \in tagged : t[1] # u \/ t[2] # f} \cup ({u} \X {f} \X ts)
      BY <2>2 DEF Edit, SetUserTags, control
    <3>2. {u} \X {f} \X ts \subseteq Users \X Feeds \X Tags
      OBVIOUS
    <3>3. TagsKnown'
      BY <3>1, <3>2 DEF RInv, TagsKnown
    <3> QED
      BY <1>2, <3>1, <3>3
  <2>3. ASSUME NEW fs, Edit(SetFilters(u, fs)) PROVE RInv'
    BY <1>3, <2>3 DEF Edit, SetFilters, control
  <2>4. ASSUME NEW a \in Asks[u], Begin(u, a) PROVE RInv'
    <3>1. PICK m \in Plans(u, a) : requests' = [requests EXCEPT ![u] = Begun(m, a)]
      BY <2>4 DEF Begin, Begun
    <3>2. a \in Requests
      BY InputsAssumption
    <3>3. Asked(u, Begun(m, a))
      BY <3>2, PlansAsked DEF RInv
    <3>4. UNCHANGED tagged
      BY <2>4 DEF Begin, tables, others
    <3> QED
      BY <1>1, <3>1, <3>3, <3>4, ChangedRequest
  <2>5. CASE ResolveTag(u)
    BY <1>1, <2>5, NextResolve
  <2>6. CASE WriteNext(u)
    BY <1>1, <2>6, NextWrite
  <2>7. CASE Answer(u)
    <3>1. requests' = [requests EXCEPT ![u] = NoRequest] /\ UNCHANGED tagged
      BY <2>7 DEF Answer, tables, others
    <3> QED
      BY <1>1, <3>1, ChangedRequest
  <2> QED
    BY <1>4, <2>1, <2>2, <2>3, <2>4, <2>5, <2>6, <2>7 DEF UserStep
<1>5. ASSUME NEW f \in Feeds, NEW doc \in Docs[f], Update(f, doc) PROVE RInv'
  BY <1>3, <1>5 DEF Update
<1>6. ASSUME NEW i \in DOMAIN articles, Scored(i) PROVE RInv'
  BY <1>3, <1>6 DEF Scored, control
<1>7. CASE MonitorStep
  BY <1>3, <1>7 DEF MonitorStep, MonitorTake, MonitorGivesUp, MonitorMark, MonitorSkip, MonitorDone, Read, tables, others
<1>8. CASE RemoveStaleUnreadRecords \/ UNCHANGED vars
  BY <1>3, <1>8 DEF RemoveStaleUnreadRecords, vars, tables, others, control
<1> QED
  BY <1>4, <1>5, <1>6, <1>7, <1>8 DEF Next

(* Marks change only as a request asks, as the monitor marks new articles, or
   as stale records are removed, however these steps interleave. *)
THEOREM MarkedAsAsked == Spec => MarksAreAsked
<1> DEFINE Changed(u, i) == \/ (<<u, i>> \in unread) # (<<u, i>> \in unread')
                            \/ (<<u, i>> \in favorite) # (<<u, i>> \in favorite')
           Granted(u, i) == \/ old' # old /\ <<u, i>> \in old
                            \/ /\ <<u, articles[i].feed>> \in members
                               /\ \/ monitor' # monitor /\ u \in monitor.todo /\ i \in monitor.ids
                                  \/ requests' # requests /\ requests[u] # requests'[u] /\ Names(requests[u], i)
<1>1. ASSUME RInv, [Next]_vars, NEW u \in Users, NEW i \in DOMAIN articles, Changed(u, i)
      PROVE  Granted(u, i)
  <2>1. unread' # unread \/ favorite' # favorite
    BY <1>1
  <2> HIDE DEF Changed, Granted
  <2>2. \/ \E v \in Users : MonitorMark(v) \/ WriteNext(v)
        \/ RemoveStaleUnreadRecords
    <3>1. ASSUME NEW f \in Feeds, NEW doc \in Docs[f] PROVE ~Update(f, doc)
      BY <2>1 DEF Update
    <3>2. ASSUME NEW j \in DOMAIN articles PROVE ~Scored(j)
      BY <2>1 DEF Scored
    <3>3. ~MonitorTake /\ ~MonitorGivesUp /\ \A v \in Users : ~MonitorSkip(v)
      BY <2>1 DEF MonitorTake, MonitorGivesUp, MonitorSkip, tables
    <3>4. ~UNCHANGED vars
      BY <2>1 DEF vars, tables
    <3>5. ASSUME NEW v \in Users, UserStep(v) PROVE WriteNext(v)
      BY <2>1, <3>5 DEF UserStep, Edit, AttachTo, DetachFrom, SetUserTags, SetFilters, Begin, ResolveTag, Answer, tables
    <3> QED
      BY <1>1, <3>1, <3>2, <3>3, <3>4, <3>5 DEF Next, MonitorStep
  <2>3. CASE RemoveStaleUnreadRecords
    <3>1. unread' = unread \ old /\ old' = {} /\ old # {} /\ favorite' = favorite
      BY <2>3 DEF RemoveStaleUnreadRecords
    <3>2. <<u, i>> \in old
      BY <1>1, <3>1 DEF Changed
    <3> QED
      BY <3>1, <3>2 DEF Granted
  <2>4. ASSUME NEW v \in Users, MonitorMark(v) PROVE Granted(u, i)
    <3> DEFINE o == Apply(<<IDs(monitor.ids), Filters(monitor.filters[v])>>)
    <3>1. /\ v \in monitor.todo /\ favorite' = favorite
          /\ unread' = unread \cup ({v} \X Selected(v, o))
          /\ monitor' = IF monitor.todo = {v} THEN Idle ELSE [monitor EXCEPT !.todo = @ \ {v}]
      BY <2>4 DEF MonitorMark, MonitorDone, Read
    <3>2. v = u /\ i \in Selected(v, o)
      BY <1>1, <3>1 DEF Changed
    <3>3. i \in Visible(v) /\ (o.ids # {} => i \in o.ids)
      BY <3>2, NamesAssumption DEF Selected, Matches
    <3>4. o.ids = monitor.ids /\ monitor.ids # {}
      BY <1>1, <3>1, MonitorOptions DEF RInv, OInv, Once
    <3>5. v \notin monitor'.todo
      <4>1. monitor = [ids |-> monitor.ids, todo |-> monitor.todo, filters |-> monitor.filters]
        BY <1>1 DEF RInv, OInv, TInv, IsMonitor
      <4> QED
        BY <3>1, <4>1 DEF Idle
    <3> HIDE DEF o
    <3> QED
      BY <3>1, <3>2, <3>3, <3>4, <3>5 DEF Granted, Visible
  <2>5. ASSUME NEW v \in Users, WriteNext(v) PROVE Granted(u, i)
    <3> DEFINE r == requests[v]
               S == Selected(v, Apply(r.writes[1].opts))
    <3>1. requests'[v] # r /\ Asked(v, r) /\ r.tag = 0 /\ 1 \in DOMAIN r.writes
      BY <1>1, <2>5, NextWrite, NextOInv DEF RInv
    <3>2. Head(r.writes) = r.writes[1]
      BY <3>1 DEF Asked, IsList
    <3>3. \A x : Read(r.writes[1].value, v, r.writes[1].opts) \/ Favor(r.writes[1].value, v, r.writes[1].opts)
            => /\ unread' \in {unread, unread \ ({v} \X S), unread \cup ({v} \X S)}
               /\ favorite' \in {favorite, favorite \ ({v} \X S), favorite \cup ({v} \X S)}
      BY DEF Read, Favor, others
    <3>4. /\ unread' \in {unread, unread \ ({v} \X S), unread \cup ({v} \X S)}
          /\ favorite' \in {favorite, favorite \ ({v} \X S), favorite \cup ({v} \X S)}
      BY <2>5, <3>2, <3>3 DEF WriteNext
    <3> HIDE DEF S
    <3>5. v = u /\ i \in S
      BY <1>1, <3>4 DEF Changed
    <3> HIDE DEF r
    <3>6. <<v, articles[i].feed>> \in members /\ Names(r, i)
      BY <1>1, <3>1, <3>5, NamesFacts DEF S, RInv, OInv, TInv
    <3> QED
      BY <3>1, <3>5, <3>6 DEF Granted, r
  <2> QED
    BY <2>2, <2>3, <2>4, <2>5
<1>2. RInv /\ [Next]_vars => RInv'
  BY NextRInv
<1>3. RInv /\ [Next]_vars =>
        [\A u \in Users : \A i \in DOMAIN articles :
           (<<u, i>> \in unread) # (<<u, i>> \in unread') \/ (<<u, i>> \in favorite) # (<<u, i>> \in favorite')
           => \/ old' # old /\ <<u, i>> \in old
              \/ /\ <<u, articles[i].feed>> \in members
                 /\ \/ monitor' # monitor /\ u \in monitor.todo /\ i \in monitor.ids
                    \/ requests' # requests /\ requests[u] # requests'[u] /\ Names(requests[u], i)]_vars
  BY <1>1
<1> QED
  BY InitRInv, <1>2, <1>3, PTL DEF Spec, MarksAreAsked

-----------------------------------------------------------------------------
(* The sizes of the parts of a set, with the value that g has on the part *)
Parts(S, g, K) == {e \in {<<k, Cardinality({i \in S : g[i] = k})>> : k \in K} : e[2] > 0}

(* The sizes of the parts of a set add up to its size. *)
LEMMA Partition ==
  ASSUME NEW S, IsFiniteSet(S), NEW K, NEW g, \A i \in S : g[i] \in K
  PROVE  SumOf(Parts(S, g, K)) = Cardinality(S)
<1> DEFINE Part(k) == {i \in S : g[i] = k}
           Size(k) == Cardinality(Part(k))
           T == {p \in K \X Nat : p[2] \in 1 .. Size(p[1])}
           b == [k \in K |-> CHOOSE f : f \in Bijection(Part(k), 1 .. Size(k))]
           h == [i \in S |-> <<g[i], b[g[i]][i]>>]
<1>1. ASSUME NEW k \in K PROVE Size(k) \in Nat /\ b[k] \in Bijection(Part(k), 1 .. Size(k))
  <2>1. IsFiniteSet(Part(k))
    BY FS_Subset
  <2> HIDE DEF Part
  <2>2. Size(k) \in Nat /\ ExistsBijection(1 .. Size(k), Part(k))
    BY <2>1, FS_CardinalityType
  <2>3. ExistsBijection(Part(k), 1 .. Size(k))
    BY <2>2, Fun_ExistsBijSymmetric
  <2>4. \E f : f \in Bijection(Part(k), 1 .. Size(k))
    BY <2>3 DEF ExistsBijection
  <2> QED
    BY <2>2, <2>4
<1> HIDE DEF b
<1>2. ASSUME NEW k \in K
      PROVE  /\ \A i \in S : g[i] = k => b[k][i] \in 1 .. Size(k)
             /\ \A i, j \in S : g[i] = k /\ g[j] = k /\ b[k][i] = b[k][j] => i = j
             /\ \A m \in 1 .. Size(k) : \E i \in S : g[i] = k /\ b[k][i] = m
  <2>1. /\ b[k] \in [Part(k) -> 1 .. Size(k)]
        /\ \A i, j \in Part(k) : b[k][i] = b[k][j] => i = j
        /\ \A m \in 1 .. Size(k) : \E i \in Part(k) : b[k][i] = m
    <3>1. b[k] \in Bijection(Part(k), 1 .. Size(k))
      BY <1>1
    <3> HIDE DEF Part, Size
    <3>2. b[k] \in Injection(Part(k), 1 .. Size(k)) /\ b[k] \in Surjection(Part(k), 1 .. Size(k))
      BY <3>1 DEF Bijection
    <3>3. \A m \in 1 .. Size(k) : \E i \in Part(k) : b[k][i] = m
      BY <3>2 DEF Surjection
    <3> QED
      BY <3>2, <3>3 DEF Injection, IsInjective
  <2> HIDE DEF Size
  <2> QED
    BY <2>1
<1> HIDE DEF Size
<1>3. h \in [S -> T]
  BY <1>1, <1>2
<1>4. h \in Injection(S, T)
  <2>1. \A i, j \in S : h[i] = h[j] => i = j
    BY <1>2
  <2> HIDE DEF h, T
  <2> QED
    BY <1>3, <2>1 DEF Injection, IsInjective
<1>5. h \in Surjection(S, T)
  <2>1. \A t \in T : \E i \in S : h[i] = t
    BY <1>2
  <2> HIDE DEF h, T
  <2> QED
    BY <1>3, <2>1 DEF Surjection
<1>6. Cardinality(T) = Cardinality(S)
  <2> HIDE DEF h, T
  <2>1. ExistsBijection(S, T)
    BY <1>4, <1>5 DEF ExistsBijection, Bijection
  <2> QED
    BY <2>1, FS_Bijection
<1>7. UNION {{e[1]} \X (1 .. e[2]) : e \in {e \in {<<k, Size(k)>> : k \in K} : e[2] > 0}} = T
  <2> DEFINE E == {e \in {<<k, Size(k)>> : k \in K} : e[2] > 0}
             U == UNION {{e[1]} \X (1 .. e[2]) : e \in E}
  <2>1. ASSUME NEW p \in U PROVE p \in T
    <3>1. PICK e \in E : p \in {e[1]} \X (1 .. e[2])
      OBVIOUS
    <3>2. PICK k \in K : e = <<k, Size(k)>>
      BY <3>1
    <3>3. p[1] = k /\ p[2] \in 1 .. Size(k) /\ p = <<p[1], p[2]>>
      BY <3>1, <3>2
    <3> QED
      BY <1>1, <3>3
  <2>2. ASSUME NEW p \in T PROVE p \in U
    <3>1. p[1] \in K /\ p[2] \in 1 .. Size(p[1]) /\ p = <<p[1], p[2]>>
      OBVIOUS
    <3> DEFINE e == <<p[1], Size(p[1])>>
    <3>2. e \in E
      <4>1. Size(p[1]) \in Nat
        BY <1>1, <3>1
      <4>2. e[2] > 0
        BY <3>1, <4>1
      <4> QED
        BY <3>1, <4>2
    <3>3. p \in {e[1]} \X (1 .. e[2])
      BY <3>1
    <3> HIDE DEF e, E
    <3> QED
      BY <3>2, <3>3
  <2> QED
    BY <2>1, <2>2
<1> QED
  BY <1>6, <1>7 DEF SumOf, Size, Parts

(* Lists of three options, and of two with nothing between them. *)
LEMMA Triples ==
  ASSUME NEW a, NEW b, NEW c
  PROVE  /\ <<a>> \o <<b>> \o <<c>> = <<a, b, c>>
         /\ <<a>> \o <<>> \o <<b>> = <<a, b>>
         /\ <<a>> \o <<>> = <<a>>
<1> DEFINE s == <<a>> \o <<b>>
           t == <<a, b>> \o <<c>>
<1>1. s = <<a, b>> /\ <<a>> \o <<>> = <<a>>
  BY Pair, Lists, ShortLists
<1>2. t = <<a, b, c>>
  <2>1. <<a, b>> \in Seq({a, b, c}) /\ <<c>> \in Seq({a, b, c})
    OBVIOUS
  <2>2. Len(t) = 3
    BY <2>1
  <2>3. t[1] = a /\ t[2] = b /\ t[3] = c
    BY <2>1
  <2> HIDE DEF t
  <2>4. t \in Seq({a, b, c})
    BY <2>1 DEF t
  <2> QED
    BY <2>2, <2>3, <2>4
<1> QED
  BY <1>1, <1>2, Pair

(* The fields that one, two and three options decide. *)
LEMMA OptionFields ==
  ASSUME NEW a, NEW k \in Keys
  PROVE  /\ Apply(<<a>>)[k] = IF k \in DOMAIN a THEN a[k] ELSE DefaultOptions[k]
         /\ \A b : Apply(<<a, b>>)[k] = IF k \in DOMAIN b THEN b[k]
                                        ELSE IF k \in DOMAIN a THEN a[k] ELSE DefaultOptions[k]
         /\ \A b, c : Apply(<<a, b, c>>)[k] = IF k \in DOMAIN c THEN c[k]
                                              ELSE IF k \in DOMAIN b THEN b[k]
                                              ELSE IF k \in DOMAIN a THEN a[k] ELSE DefaultOptions[k]
<1> DEFINE Of(opt, x) == IF k \in DOMAIN opt THEN opt[k] ELSE x
<1>1. Apply(<<a>>)[k] = Of(a, DefaultOptions[k])
  BY ShortLists, OverrideField
<1>2. ASSUME NEW b PROVE Apply(<<a, b>>)[k] = Of(b, Of(a, DefaultOptions[k]))
  <2>1. Apply(<<a, b>>) = Override(Apply(<<a>>), b)
    BY ShortLists
  <2> QED
    BY <1>1, <2>1, OverrideField
<1>3. ASSUME NEW b, NEW c PROVE Apply(<<a, b, c>>)[k] = Of(c, Of(b, Of(a, DefaultOptions[k])))
  <2>1. <<a, b, c>> = Append(<<a, b>>, c)
    OBVIOUS
  <2>2. IsList(<<a, b>>)
    BY ShortLists
  <2>3. Apply(<<a, b, c>>) = Override(Apply(<<a, b>>), c)
    BY <2>1, <2>2, Lists
  <2>4. Apply(<<a, b, c>>)[k] = Of(c, Apply(<<a, b>>)[k])
    BY <2>3, OverrideField
  <2> HIDE DEF Of
  <2> QED
    BY <1>2, <2>4
<1> QED
  BY <1>1, <1>2, <1>3

(* A query for IDs or a number goes without scores. *)
LEMMA Unscored ==
  ASSUME NEW opts
  PROVE  LET o == [Apply(opts) EXCEPT !.includeScores = FALSE]
         IN  /\ o.includeScores = FALSE
             /\ \A k \in Keys \ {"includeScores"} : o[k] = Apply(opts)[k]
<1>1. Apply(opts) = [k \in Keys |-> Apply(opts)[k]]
  BY KeysOfOptions DEF Apply
<1>2. "includeScores" \in Keys
  BY DEF Keys
<1> HIDE DEF Keys
<1> QED
  BY <1>1, <1>2

-----------------------------------------------------------------------------
(* Filters that are not inverted hide the same articles in every list.     *)
LEMMA PlainHides ==
  ASSUME NEW f, ~f.notFeeds, NEW o, NEW i, o.feedIDs # {} => articles[i].feed \in o.feedIDs
  PROVE  Hides(o, f, i) <=> Hides(DefaultOptions, f, i)
<1> DEFINE feed == articles[i].feed
           Texts == /\ Valid(f)
                    /\ f.url # NoWord => Like(LinkWords[articles[i].link], f.url) # f.notUrl
                    /\ f.title # NoWord => Like(articles[i].title, f.title) # f.notTitle
<1>1. \A S : WhereMultipleORs(feed, S, ~f.notFeeds) <=> feed \in S
  BY DEF WhereMultipleORs
<1>2. /\ FilteredFeeds(DefaultOptions, f) = f.feeds
      /\ FilteredFeeds(o, f) = IF o.feedIDs # {} THEN f.feeds \cap o.feedIDs ELSE f.feeds
  BY DefaultFields DEF FilteredFeeds
<1>3. ASSUME NEW x
      PROVE  Hides(x, f, i) <=> /\ Texts
                                /\ f.feeds # {} => FilteredFeeds(x, f) # {}
                                /\ FilteredFeeds(x, f) # {} => feed \in FilteredFeeds(x, f)
  BY <1>1 DEF Hides
<1> HIDE DEF feed, Texts
<1>4. f.feeds # {} /\ FilteredFeeds(o, f) # {} /\ feed \in FilteredFeeds(o, f) => feed \in f.feeds
  BY <1>2
<1>5. feed \in f.feeds => feed \in FilteredFeeds(o, f)
  BY <1>2 DEF feed
<1> QED
  BY <1>2, <1>3, <1>4, <1>5

(* No filter of the user is inverted. *)
Plain(u) == \A n \in DOMAIN filters[u] : ~filters[u][n].notFeeds
(* An article that a filter of the user hides *)
Hidden(u, i) == \E n \in DOMAIN filters[u] : Hides(DefaultOptions, filters[u][n], i)

(* The options of a query without bounds *)
Unbounded(o) ==
  /\ o.beforeID = 0 /\ o.beforeDate = 0 /\ o.beforeScore = 0
  /\ o.afterID = 0 /\ o.afterDate = 0 /\ o.afterScore = 0
  /\ o.ids = {} /\ o.includeScores = FALSE

(* What options without bounds select. *)
LEMMA SelectedUnbounded ==
  ASSUME NEW u \in Users, Plain(u), NEW o, Unbounded(o), o.filters = filters[u],
         o.readOnly = FALSE, o.favoriteOnly = FALSE
  PROVE  Selected(u, o) = {i \in Visible(u) : /\ o.unreadOnly => <<u, i>> \in unread
                                              /\ o.untaggedOnly => TagsForFeed(u, articles[i].feed) = {}
                                              /\ o.feedIDs # {} => articles[i].feed \in o.feedIDs
                                              /\ ~Hidden(u, i)}
<1>1. u # Nobody /\ ~Malformed(o)
  BY NamesAssumption DEF Malformed, Unbounded
<1>2. Bounded(<<o.beforeID, o.beforeDate, o.beforeScore>>) = {} /\ Bounded(<<o.afterID, o.afterDate, o.afterScore>>) = {}
  BY DEF Bounded, Unbounded
<1>3. \A i : InRange(o, i)
  BY <1>2 DEF InRange
<1>4. ASSUME NEW i, o.feedIDs # {} => articles[i].feed \in o.feedIDs
      PROVE  (\A n \in DOMAIN o.filters : ~Hides(o, o.filters[n], i)) <=> ~Hidden(u, i)
  <2>1. \A n \in DOMAIN filters[u] : Hides(o, filters[u][n], i) <=> Hides(DefaultOptions, filters[u][n], i)
    BY <1>4, PlainHides DEF Plain
  <2> QED
    BY <2>1 DEF Hidden
<1>5. \A i : (\A t \in tagged : t[1] # u \/ t[2] # articles[i].feed) <=> TagsForFeed(u, articles[i].feed) = {}
  BY DEF TagsForFeed
<1>6. ASSUME NEW i
      PROVE  Matches(u, o, i) <=> /\ o.unreadOnly => <<u, i>> \in unread
                                  /\ o.untaggedOnly => TagsForFeed(u, articles[i].feed) = {}
                                  /\ o.feedIDs # {} => articles[i].feed \in o.feedIDs
                                  /\ ~Hidden(u, i)
  <2>1. o.ids = {} /\ ~o.includeScores /\ ~(o.beforeScore > 0) /\ ~(o.afterScore > 0) /\ ~o.readOnly /\ ~o.favoriteOnly
    BY DEF Unbounded
  <2> QED
    BY <1>1, <1>3, <1>4, <1>5, <2>1 DEF Matches
<1> QED
  BY <1>1, <1>6 DEF Selected

(* What a query for unread articles sets *)
Counted == {"unreadOnly", "untaggedOnly", "feedIDs", "filters", "includeScores"}

(* Options that count are without bounds. *)
LEMMA CountedOptions ==
  ASSUME NEW opts, \A k \in Keys \ Counted : Apply(opts)[k] = DefaultOptions[k]
  PROVE  LET o == [Apply(opts) EXCEPT !.includeScores = FALSE]
         IN  /\ Unbounded(o) /\ o.readOnly = FALSE /\ o.favoriteOnly = FALSE
             /\ \A k \in Counted \ {"includeScores"} : o[k] = Apply(opts)[k]
<1> DEFINE o == [Apply(opts) EXCEPT !.includeScores = FALSE]
<1>1. /\ o.includeScores = FALSE
      /\ \A k \in Keys \ {"includeScores"} : o[k] = Apply(opts)[k]
  BY Unscored
<1> HIDE DEF o
<1>2. \A k \in Keys \ Counted : o[k] = DefaultOptions[k]
  BY <1>1 DEF Counted
<1>3. {"beforeID", "afterID", "beforeDate", "afterDate", "beforeScore", "afterScore", "ids", "readOnly", "favoriteOnly"}
        \subseteq Keys \ Counted
  BY DEF Keys, Counted
<1>4. DefaultOptions.readOnly = FALSE
  BY DEF DefaultOptions
<1>5. /\ o.beforeID = 0 /\ o.beforeDate = 0 /\ o.beforeScore = 0
      /\ o.afterID = 0 /\ o.afterDate = 0 /\ o.afterScore = 0 /\ o.ids = {}
      /\ o.readOnly = FALSE /\ o.favoriteOnly = FALSE
  BY <1>2, <1>3, <1>4, DefaultFields
<1>6. Counted \subseteq Keys
  BY DEF Keys, Counted
<1> QED
  BY <1>1, <1>5, <1>6 DEF Unbounded, o

(* The unread articles that the filters of the user leave *)
Shown(u) == {i \in Visible(u) : <<u, i>> \in unread /\ ~Hidden(u, i)}

(* What options that count unread articles select. *)
LEMMA UnreadSelected ==
  ASSUME NEW u \in Users, Plain(u), NEW opts, \A k \in Keys \ Counted : Apply(opts)[k] = DefaultOptions[k],
         Apply(opts).unreadOnly = TRUE, Apply(opts).filters = filters[u]
  PROVE  Selected(u, [Apply(opts) EXCEPT !.includeScores = FALSE])
           = {i \in Shown(u) : /\ Apply(opts).untaggedOnly => TagsForFeed(u, articles[i].feed) = {}
                               /\ Apply(opts).feedIDs # {} => articles[i].feed \in Apply(opts).feedIDs}
<1> DEFINE o == [Apply(opts) EXCEPT !.includeScores = FALSE]
<1>1. /\ Unbounded(o) /\ o.readOnly = FALSE /\ o.favoriteOnly = FALSE
      /\ \A k \in Counted \ {"includeScores"} : o[k] = Apply(opts)[k]
  BY CountedOptions
<1> HIDE DEF o
<1>2. /\ o.unreadOnly = TRUE /\ o.filters = filters[u] /\ o.untaggedOnly = Apply(opts).untaggedOnly
      /\ o.feedIDs = Apply(opts).feedIDs
  BY <1>1 DEF Counted
<1>3. Selected(u, o) = {i \in Visible(u) : /\ o.unreadOnly => <<u, i>> \in unread
                                           /\ o.untaggedOnly => TagsForFeed(u, articles[i].feed) = {}
                                           /\ o.feedIDs # {} => articles[i].feed \in o.feedIDs
                                           /\ ~Hidden(u, i)}
  BY <1>1, <1>2, SelectedUnbounded
<1>4. o.unreadOnly
  BY <1>2
<1>5. \A i : i \in Selected(u, o) <=>
             /\ i \in Shown(u)
             /\ Apply(opts).untaggedOnly => TagsForFeed(u, articles[i].feed) = {}
             /\ Apply(opts).feedIDs # {} => articles[i].feed \in Apply(opts).feedIDs
  BY <1>2, <1>3, <1>4 DEF Shown
<1>6. Selected(u, o) = {i \in Shown(u) :
             /\ Apply(opts).untaggedOnly => TagsForFeed(u, articles[i].feed) = {}
             /\ Apply(opts).feedIDs # {} => articles[i].feed \in Apply(opts).feedIDs}
  BY <1>5
<1> QED
  BY <1>6 DEF o

(* The numbers of unread articles: of all, of no tag, of some feeds. *)
LEMMA UnreadCounts ==
  ASSUME NEW u \in Users, Plain(u)
  PROVE  /\ Unread(u, <<>>) = Cardinality(Shown(u))
         /\ Unread(u, <<UntaggedOnly>>)
              = Cardinality({i \in Shown(u) : TagsForFeed(u, articles[i].feed) = {}})
         /\ \A F : F # {} => Unread(u, <<FeedIDs(F)>>) = Cardinality({i \in Shown(u) : articles[i].feed \in F})
<1> DEFINE fs == filters[u]
           last == Filters(fs)
           o(opts) == [Apply(opts) EXCEPT !.includeScores = FALSE]
           all == <<UnreadOnly, last>>
           untagged == <<UnreadOnly, UntaggedOnly, last>>
           of(F) == <<UnreadOnly, FeedIDs(F), last>>
<1>1. /\ Unread(u, <<>>) = Cardinality(Selected(u, o(all)))
      /\ Unread(u, <<UntaggedOnly>>) = Cardinality(Selected(u, o(untagged)))
      /\ \A F : Unread(u, <<FeedIDs(F)>>) = Cardinality(Selected(u, o(of(F))))
  BY Triples DEF Unread, Count, Own, GetUserFilters
<1>2. /\ DOMAIN UnreadOnly = {"unreadOnly"} /\ UnreadOnly["unreadOnly"] = TRUE
      /\ DOMAIN UntaggedOnly = {"untaggedOnly"} /\ UntaggedOnly["untaggedOnly"] = TRUE
      /\ DOMAIN last = {"filters"} /\ last["filters"] = fs
      /\ \A F : DOMAIN FeedIDs(F) = {"feedIDs"} /\ FeedIDs(F)["feedIDs"] = F
  BY DEF UnreadOnly, UntaggedOnly, Filters, FeedIDs
<1> HIDE DEF fs, last
<1>3. /\ DefaultOptions.untaggedOnly = FALSE /\ DefaultOptions.feedIDs = {}
      /\ {"unreadOnly", "filters", "untaggedOnly", "feedIDs"} \subseteq Keys \cap Counted
  BY DefaultFields DEF Keys, Counted
<1>4. Selected(u, o(all)) = Shown(u)
  <2>1. \A k \in Keys : Apply(all)[k] = IF k \in DOMAIN last THEN last[k]
                                        ELSE IF k \in DOMAIN UnreadOnly THEN UnreadOnly[k] ELSE DefaultOptions[k]
    BY OptionFields
  <2> HIDE DEF all
  <2>2. /\ Apply(all).unreadOnly = TRUE /\ Apply(all).filters = fs /\ Apply(all).feedIDs = {}
        /\ Apply(all).untaggedOnly = FALSE /\ \A k \in Keys \ Counted : Apply(all)[k] = DefaultOptions[k]
    BY <1>2, <1>3, <2>1
  <2>3. Selected(u, o(all)) = {i \in Shown(u) :
               /\ Apply(all).untaggedOnly => TagsForFeed(u, articles[i].feed) = {}
               /\ Apply(all).feedIDs # {} => articles[i].feed \in Apply(all).feedIDs}
    BY <2>2, UnreadSelected DEF fs
  <2> QED
    BY <2>2, <2>3
<1>5. Selected(u, o(untagged)) = {i \in Shown(u) : TagsForFeed(u, articles[i].feed) = {}}
  <2>1. \A k \in Keys : Apply(untagged)[k] =
           IF k \in DOMAIN last THEN last[k] ELSE IF k \in DOMAIN UntaggedOnly THEN UntaggedOnly[k]
           ELSE IF k \in DOMAIN UnreadOnly THEN UnreadOnly[k] ELSE DefaultOptions[k]
    BY OptionFields
  <2> HIDE DEF untagged
  <2>2. /\ Apply(untagged).unreadOnly = TRUE /\ Apply(untagged).filters = fs /\ Apply(untagged).feedIDs = {}
        /\ Apply(untagged).untaggedOnly = TRUE /\ \A k \in Keys \ Counted : Apply(untagged)[k] = DefaultOptions[k]
    BY <1>2, <1>3, <2>1
  <2> QED
    BY <2>2, UnreadSelected DEF fs
<1>6. ASSUME NEW F, F # {}
      PROVE  Selected(u, o(of(F))) = {i \in Shown(u) : articles[i].feed \in F}
  <2>1. \A k \in Keys : Apply(of(F))[k] =
           IF k \in DOMAIN last THEN last[k] ELSE IF k \in DOMAIN FeedIDs(F) THEN FeedIDs(F)[k]
           ELSE IF k \in DOMAIN UnreadOnly THEN UnreadOnly[k] ELSE DefaultOptions[k]
    BY OptionFields
  <2> HIDE DEF of
  <2>2. /\ Apply(of(F)).unreadOnly = TRUE /\ Apply(of(F)).filters = fs /\ Apply(of(F)).feedIDs = F
        /\ Apply(of(F)).untaggedOnly = FALSE /\ \A k \in Keys \ Counted : Apply(of(F))[k] = DefaultOptions[k]
    BY <1>2, <1>3, <2>1
  <2> QED
    BY <1>6, <2>2, UnreadSelected DEF fs
<1> HIDE DEF o, all, untagged, of
<1> QED
  BY <1>1, <1>4, <1>5, <1>6

-----------------------------------------------------------------------------
(* What is counted for the feeds of a tag adds up.                         *)
LEMMA FeedEntries ==
  ASSUME NEW u \in Users, Plain(u)
  PROVE  \A f : FeedEntry(u, f) = <<f, Cardinality({i \in Shown(u) : articles[i].feed = f})>>
<1>1. ASSUME NEW f PROVE Unread(u, <<FeedIDs({f})>>) = Cardinality({i \in Shown(u) : articles[i].feed = f})
  <2>1. Unread(u, <<FeedIDs({f})>>) = Cardinality({i \in Shown(u) : articles[i].feed \in {f}})
    BY UnreadCounts
  <2>2. {i \in Shown(u) : articles[i].feed \in {f}} = {i \in Shown(u) : articles[i].feed = f}
    OBVIOUS
  <2> QED
    BY <2>1, <2>2
<1> QED
  BY <1>1 DEF FeedEntry

(* The numbers of some feeds add up to the number of their unread articles. *)
LEMMA EntriesAddUp ==
  ASSUME NEW u \in Users, Plain(u), IsFiniteSet(Shown(u)), NEW K
  PROVE  SumOf({e \in {FeedEntry(u, f) : f \in K} : e[2] > 0}) = Cardinality({i \in Shown(u) : articles[i].feed \in K})
<1> DEFINE S == {i \in Shown(u) : articles[i].feed \in K}
           g == [i \in S |-> articles[i].feed]
           Size(f) == Cardinality({i \in S : g[i] = f})
<1>1. IsFiniteSet(S) /\ \A i \in S : g[i] \in K
  BY FS_Subset
<1>2. SumOf(Parts(S, g, K)) = Cardinality(S)
  <2> HIDE DEF g, S
  <2> QED
    BY <1>1, Partition
<1>3. ASSUME NEW f \in K PROVE FeedEntry(u, f) = <<f, Size(f)>>
  <2>1. {i \in S : g[i] = f} = {i \in Shown(u) : articles[i].feed = f}
    OBVIOUS
  <2> QED
    BY <2>1, FeedEntries
<1> HIDE DEF Size, S
<1>4. {FeedEntry(u, f) : f \in K} = {<<f, Size(f)>> : f \in K}
  BY <1>3
<1>5. Parts(S, g, K) = {e \in {FeedEntry(u, f) : f \in K} : e[2] > 0}
  BY <1>4 DEF Parts, Size
<1> QED
  BY <1>2, <1>5 DEF S

(* The feeds of a category: a tag or no tag *)
Category(u, c) == {f \in FeedsForUser(u) : IF c = 0 THEN TagsForFeed(u, f) = {} ELSE c \in TagsForFeed(u, f)}

(* What the tree and the list of feeds show for a category. *)
LEMMA CategoryFeeds ==
  ASSUME NEW u \in Users, Plain(u), NEW c \in TagsForUser(u) \cup {CAT_UNCATEGORIZED}, TagsForUser(u) \subseteq Nat \ {0}
  PROVE  /\ c \in DOMAIN GetFeedTree(u)
         /\ GetFeedTree(u)[c] = {FeedEntry(u, f) : f \in Category(u, c)}
         /\ GetFeeds(u, c, 0, 0, TRUE) = {e \in {FeedEntry(u, f) : f \in Category(u, c)} : e[2] > 0}
<1>1. c \in Nat /\ c # CAT_SPECIAL /\ c # CAT_ALL /\ c # CAT_ALL_EXCEPT_VIRTUAL
      /\ (c = 0 \/ c > 0) /\ CAT_UNCATEGORIZED = 0 /\ (c # 0 => c \in TagsForUser(u))
  BY DEF CAT_SPECIAL, CAT_ALL, CAT_ALL_EXCEPT_VIRTUAL, CAT_UNCATEGORIZED
<1>2. c \in DOMAIN GetFeedTree(u)
  BY DEF GetFeedTree
<1>3. GetFeedTree(u)[c] = {FeedEntry(u, f) : f \in Category(u, c)}
  <2>1. CASE c = 0
    BY <1>1, <2>1 DEF GetFeedTree, Category
  <2>2. CASE c # 0
    BY <1>1, <2>2 DEF GetFeedTree, Category
  <2> QED
    BY <2>1, <2>2
<1> DEFINE feeds == IF c = 0 THEN Category(u, c) ELSE FeedsForTag(u, c)
<1>4. GetFeeds(u, c, 0, 0, TRUE) = {e \in {FeedEntry(u, f) : f \in feeds} : e[2] > 0}
  <2>1. CASE c = 0
    BY <1>1, <2>1 DEF GetFeeds, Category
  <2>2. CASE c # 0
    BY <1>1, <2>2 DEF GetFeeds
  <2> QED
    BY <2>1, <2>2
<1>5. Category(u, c) \subseteq feeds
  BY DEF Category, FeedsForTag, TagsForFeed
<1>6. ASSUME NEW f \in feeds \ Category(u, c) PROVE ~(FeedEntry(u, f)[2] > 0)
  <2>1. f \notin FeedsForUser(u)
    BY <1>6 DEF Category, FeedsForTag, TagsForFeed
  <2>2. \A i \in Shown(u) : articles[i].feed \in FeedsForUser(u)
    BY DEF Shown, Visible, FeedsForUser
  <2>3. {i \in Shown(u) : articles[i].feed = f} = {}
    BY <2>1, <2>2
  <2>4. FeedEntry(u, f) = <<f, Cardinality({})>>
    BY <2>3, FeedEntries
  <2> QED
    BY <2>4, FS_EmptySet
<1> HIDE DEF feeds
<1>7. {e \in {FeedEntry(u, f) : f \in feeds} : e[2] > 0} = {e \in {FeedEntry(u, f) : f \in Category(u, c)} : e[2] > 0}
  BY <1>5, <1>6
<1> QED
  BY <1>2, <1>3, <1>4, <1>7

(* The sets that are counted are finite. *)
LEMMA ShownFinite ==
  ASSUME articles \in Seq(RowsOf(Feeds)), NEW u
  PROVE  IsFiniteSet(DOMAIN articles) /\ IsFiniteSet(Shown(u)) /\ \A o : IsFiniteSet(Selected(u, o))
<1>1. DOMAIN articles = 1 .. Len(articles) /\ Len(articles) \in Nat
  OBVIOUS
<1>2. IsFiniteSet(DOMAIN articles)
  BY <1>1, FS_Interval
<1>3. Shown(u) \subseteq DOMAIN articles /\ \A o : Selected(u, o) \subseteq DOMAIN articles
  BY DEF Shown, Visible, Selected
<1> QED
  BY <1>2, <1>3, FS_Subset

(* The number of a category is the sum of what is shown under it. *)
LEMMA AddsUp ==
  ASSUME articles \in Seq(RowsOf(Feeds)), members \subseteq Users \X Feeds, TagsKnown, NEW u \in Users, Plain(u),
         NEW e \in GetCategories(u, FALSE), e[1] # CAT_SPECIAL
  PROVE  /\ e[1] \in DOMAIN GetFeedTree(u)
         /\ e[2] = SumOf({x \in GetFeedTree(u)[e[1]] : x[2] > 0})
         /\ GetFeeds(u, e[1], 0, 0, TRUE) = {x \in GetFeedTree(u)[e[1]] : x[2] > 0}
<1> DEFINE c == e[1]
<1>1. TagsForUser(u) \subseteq Nat \ {0}
  BY NamesAssumption DEF TagsForUser, TagsKnown
<1>2. IsFiniteSet(Shown(u))
  BY ShownFinite
<1> DEFINE number(t) == Unread(u, <<FeedIDs(FeedsForTag(u, t))>>)
           none == Unread(u, <<UntaggedOnly>>)
           special == Unread(u, <<FavoriteOnly>>)
<1>0. \/ e[1] \in TagsForUser(u) /\ e[2] = number(e[1])
      \/ e[1] = CAT_UNCATEGORIZED /\ e[2] = none
  <2>1. /\ GetCategories(u, FALSE) = TagEntries(u) \cup {<<CAT_UNCATEGORIZED, none>>, <<CAT_SPECIAL, special>>}
        /\ TagEntries(u) = {<<t, number(t)>> : t \in TagsForUser(u)}
    BY DEF GetCategories, TagEntries
  <2> HIDE DEF number, none, special
  <2>2. e # <<CAT_SPECIAL, special>>
    OBVIOUS
  <2>3. CASE e \in TagEntries(u)
    BY <2>1, <2>3
  <2>4. CASE e = <<CAT_UNCATEGORIZED, none>>
    BY <2>4
  <2> QED
    BY <2>1, <2>2, <2>3, <2>4
<1>3. c \in TagsForUser(u) \cup {CAT_UNCATEGORIZED}
  BY <1>0
<1>4. e[2] = Cardinality({i \in Shown(u) : articles[i].feed \in Category(u, c)})
  <2>1. \A i \in Shown(u) : articles[i].feed \in FeedsForUser(u)
    BY DEF Shown, Visible, FeedsForUser
  <2>2. CASE c \in TagsForUser(u)
    <3>1. e[2] = Unread(u, <<FeedIDs(FeedsForTag(u, c))>>)
      <4>1. c # CAT_UNCATEGORIZED
        BY <1>1, <2>2 DEF CAT_UNCATEGORIZED
      <4> QED
        BY <1>0, <4>1
    <3>2. FeedsForTag(u, c) # {}
      BY <2>2 DEF TagsForUser, FeedsForTag
    <3>3. \A i \in Shown(u) : articles[i].feed \in FeedsForTag(u, c) <=> articles[i].feed \in Category(u, c)
      BY <1>1, <2>1, <2>2 DEF Category, FeedsForTag, TagsForFeed
    <3>4. {i \in Shown(u) : articles[i].feed \in FeedsForTag(u, c)} = {i \in Shown(u) : articles[i].feed \in Category(u, c)}
      BY <3>3
    <3> DEFINE F == FeedsForTag(u, c)
    <3>5. F # {} => Unread(u, <<FeedIDs(F)>>) = Cardinality({i \in Shown(u) : articles[i].feed \in F})
      BY UnreadCounts
    <3> QED
      BY <3>1, <3>2, <3>4, <3>5
  <2>3. CASE c \notin TagsForUser(u)
    <3>1. c = 0 /\ e[2] = Unread(u, <<UntaggedOnly>>)
      BY <1>0, <2>3 DEF CAT_UNCATEGORIZED
    <3>2. \A i \in Shown(u) : TagsForFeed(u, articles[i].feed) = {} <=> articles[i].feed \in Category(u, c)
      BY <2>1, <3>1 DEF Category
    <3>3. {i \in Shown(u) : TagsForFeed(u, articles[i].feed) = {}} = {i \in Shown(u) : articles[i].feed \in Category(u, c)}
      BY <3>2
    <3> QED
      BY <3>1, <3>3, UnreadCounts
  <2> QED
    BY <2>2, <2>3
<1>5. /\ c \in DOMAIN GetFeedTree(u)
      /\ GetFeedTree(u)[c] = {FeedEntry(u, f) : f \in Category(u, c)}
      /\ GetFeeds(u, c, 0, 0, TRUE) = {x \in {FeedEntry(u, f) : f \in Category(u, c)} : x[2] > 0}
  BY <1>1, <1>3, CategoryFeeds
<1>6. SumOf({x \in {FeedEntry(u, f) : f \in Category(u, c)} : x[2] > 0})
        = Cardinality({i \in Shown(u) : articles[i].feed \in Category(u, c)})
  BY <1>2, EntriesAddUp
<1> QED
  BY <1>4, <1>5, <1>6

(* The invariant of the lists and numbers *)
LInv == RInv /\ members \subseteq Users \X Feeds

(* Rows of subscriptions are of users and feeds, at first *)
LEMMA InitLInv == Init => LInv
BY InitRInv, TablesAssumption DEF Init, LInv

(* and after every step. *)
LEMMA NextLInv == ASSUME LInv, [Next]_vars PROVE LInv'
<1>1. RInv'
  BY NextRInv DEF LInv
<1>2. members' \subseteq Users \X Feeds
  <2>1. ASSUME UNCHANGED members PROVE members' \subseteq Users \X Feeds
    BY <2>1 DEF LInv
  <2>2. ASSUME NEW u \in Users, UserStep(u) PROVE members' \subseteq Users \X Feeds
    <3>1. ASSUME NEW f \in Feeds, Edit(AttachTo(f, u)) \/ Edit(DetachFrom(f, u)) PROVE members' \subseteq Users \X Feeds
      BY <3>1 DEF LInv, Edit, AttachTo, DetachFrom
    <3>2. ASSUME \/ \E f \in Feeds, ts \in SUBSET Tags : Edit(SetUserTags(f, u, ts))
                 \/ \E fs : Edit(SetFilters(u, fs))
                 \/ \E a \in Asks[u] : Begin(u, a)
                 \/ ResolveTag(u) \/ WriteNext(u) \/ Answer(u)
          PROVE  UNCHANGED members
      BY <3>2 DEF Edit, SetUserTags, SetFilters, Begin, ResolveTag, WriteNext, Answer, Read, Favor, tables, others
    <3> QED
      BY <2>1, <2>2, <3>1, <3>2 DEF UserStep
  <2>3. ASSUME NEW f \in Feeds, NEW doc \in Docs[f], Update(f, doc) PROVE UNCHANGED members
    BY <2>3 DEF Update
  <2>4. ASSUME NEW i \in DOMAIN articles, Scored(i) PROVE UNCHANGED members
    BY <2>4 DEF Scored
  <2>5. ASSUME MonitorStep PROVE UNCHANGED members
    BY <2>5 DEF MonitorStep, MonitorTake, MonitorGivesUp, MonitorMark, MonitorSkip, Read, tables, others
  <2>6. ASSUME RemoveStaleUnreadRecords \/ UNCHANGED vars PROVE UNCHANGED members
    BY <2>6 DEF RemoveStaleUnreadRecords, vars, tables, others
  <2> QED
    BY <2>1, <2>2, <2>3, <2>4, <2>5, <2>6 DEF Next
<1> QED
  BY <1>1, <1>2 DEF LInv

(* So it is always. *)
LEMMA LInvariant == Spec => []LInv
<1>1. LInv /\ [Next]_vars => LInv'
  BY NextLInv
<1> QED
  BY InitLInv, <1>1, PTL DEF Spec

-----------------------------------------------------------------------------
(* Induction up to a bound *)
LEMMA UpTo ==
  ASSUME NEW n \in Nat, NEW S, 0 \in S, \A k \in 1 .. n : k - 1 \in S => k \in S
  PROVE  0 .. n \subseteq S
<1> DEFINE T == {k \in Nat : k <= n => k \in S}
<1>1. 0 \in T /\ \A k \in Nat : k \in T => k + 1 \in T
  <2>1. ASSUME NEW k \in Nat, k \in T, k + 1 <= n PROVE k + 1 \in S
    <3>1. k + 1 \in 1 .. n /\ k + 1 - 1 = k /\ k \in S
      BY <2>1
    <3> QED
      BY <3>1
  <2> QED
    BY <2>1
<1> HIDE DEF T
<1>2. Nat \subseteq T
  BY <1>1, SetInduction
<1> QED
  BY <1>2 DEF T

(* A function on 0 .. n that is defined by recursion exists.               *)
Recursive(f, D, base, step, n) ==
  /\ f \in [0 .. n -> D] /\ f[0] = base
  /\ \A k \in 1 .. n : f[k] = step[<<k, f[k - 1]>>]

(* A function that is defined by recursion up to n exists. *)
LEMMA Recursion ==
  ASSUME NEW D, NEW base \in D, NEW step \in [Nat \X D -> D], NEW n \in Nat
  PROVE  \E f : Recursive(f, D, base, step, n)
<1> DEFINE Defines(f, m) == Recursive(f, D, base, step, m)
           Done == {m \in Nat : \E f : Defines(f, m)}
<1>1. 0 \in Done
  <2> DEFINE f == [k \in 0 .. 0 |-> base]
  <2>1. Defines(f, 0)
    BY DEF Recursive
  <2> HIDE DEF f
  <2> QED
    BY <2>1
<1>2. ASSUME NEW m \in Nat, m \in Done PROVE m + 1 \in Done
  <2>1. PICK f : Defines(f, m)
    BY <1>2
  <2> DEFINE x == step[<<m + 1, f[m]>>]
             g == [k \in 0 .. m + 1 |-> IF k = m + 1 THEN x ELSE f[k]]
  <2>2. x \in D
    BY <2>1 DEF Recursive
  <2>3. g \in [0 .. m + 1 -> D] /\ g[0] = base /\ g[m + 1] = x /\ \A k \in 0 .. m : g[k] = f[k]
    BY <2>1, <2>2 DEF Recursive
  <2> HIDE DEF g
  <2>4. ASSUME NEW k \in 1 .. m + 1 PROVE g[k] = step[<<k, g[k - 1]>>]
    <3>1. CASE k = m + 1
      BY <2>3, <3>1
    <3>2. CASE k # m + 1
      <4>1. k \in 1 .. m /\ k - 1 \in 0 .. m /\ k \in 0 .. m
        BY <3>2
      <4> QED
        BY <2>1, <2>3, <4>1 DEF Recursive
    <3> QED
      BY <3>1, <3>2
  <2>5. Defines(g, m + 1)
    BY <2>3, <2>4 DEF Recursive
  <2> HIDE DEF Defines
  <2> QED
    BY <2>5
<1> HIDE DEF Done
<1>3. n \in Done
  BY <1>1, <1>2, SetInduction
<1> QED
  BY <1>3 DEF Done

-----------------------------------------------------------------------------
(* What ORDER BY returns                                                   *)
Keyed(key, S) == \A i \in S : key[i][1] \in Int /\ key[i][2] \in Int /\ key[i][3] \in Int

(* The key of a row is less, in three columns. *)
Less(s, t) == LexLess(s, t, 1 .. 3)

(* The order of three columns. *)
LEMMA LessCases ==
  ASSUME NEW s, NEW t
  PROVE  Less(s, t) <=> \/ s[1] < t[1]
                        \/ s[1] = t[1] /\ s[2] < t[2]
                        \/ s[1] = t[1] /\ s[2] = t[2] /\ s[3] < t[3]
<1>1. 1 .. 3 = {1, 2, 3}
  OBVIOUS
<1>2. \A n \in {1, 2, 3} : (\A m \in {1, 2, 3} : m < n => s[m] = t[m])
                           <=> /\ n = 2 => s[1] = t[1]
                               /\ n = 3 => s[1] = t[1] /\ s[2] = t[2]
  OBVIOUS
<1> QED
  BY <1>1, <1>2 DEF Less, LexLess

(* It is an order of the rows. *)
LEMMA LessOrder ==
  ASSUME NEW S, NEW key, Keyed(key, S)
  PROVE  /\ \A i, j, k \in S : ~Less(key[j], key[i]) /\ ~Less(key[k], key[j]) => ~Less(key[k], key[i])
         /\ \A i, j \in S : Less(key[j], key[i]) => ~Less(key[i], key[j])
         /\ \A i \in S : ~Less(key[i], key[i])
BY LessCases DEF Keyed

(* There is a row with the least key.                                      *)
LEMMA First ==
  ASSUME NEW n \in Nat, NEW S, S \subseteq 1 .. n, NEW key, Keyed(key, S), NEW T, T \subseteq S, T # {}
  PROVE  \E i \in T : \A j \in T : ~Less(key[j], key[i])
<1> DEFINE Has(U) == \E i \in U : \A j \in U : ~Less(key[j], key[i])
           Done == {m \in Nat : \A U \in SUBSET S : U \subseteq 1 .. m /\ U # {} => Has(U)}
<1>1. 0 \in Done
  <2>1. 1 .. 0 = {}
    OBVIOUS
  <2> QED
    BY <2>1
<1>2. ASSUME NEW m \in Nat, m \in Done PROVE m + 1 \in Done
  <2> SUFFICES ASSUME NEW U \in SUBSET S, U \subseteq 1 .. m + 1, U # {} PROVE Has(U)
    BY <1>2
  <2> DEFINE V == U \ {m + 1}
  <2>1. V \subseteq 1 .. m /\ V \in SUBSET S
    OBVIOUS
  <2>2. CASE V = {}
    <3>1. U = {m + 1}
      BY <2>2
    <3> QED
      BY <3>1, LessOrder
  <2>3. CASE V # {}
    <3>1. PICK i \in V : \A j \in V : ~Less(key[j], key[i])
      BY <1>2, <2>1, <2>3
    <3>2. CASE m + 1 \notin U \/ ~Less(key[m + 1], key[i])
      <4>1. \A j \in U : j \in V \/ j = m + 1
        OBVIOUS
      <4> HIDE DEF V
      <4> QED
        BY <3>1, <3>2, <4>1 DEF V
    <3>3. CASE m + 1 \in U /\ Less(key[m + 1], key[i])
      <4>1. \A j \in U : ~Less(key[j], key[m + 1])
        <5>1. \A j \in V : ~Less(key[j], key[m + 1])
          BY <3>1, <3>3, LessOrder
        <5> QED
          BY <3>3, <5>1, LessOrder
      <4> QED
        BY <3>3, <4>1
    <3> QED
      BY <3>2, <3>3
  <2> QED
    BY <2>2, <2>3
<1>3. n \in Done
  <2> HIDE DEF Done
  <2> QED
    BY <1>1, <1>2, SetInduction
<1> QED
  BY <1>3

(* The lists that begin an order of S                                      *)
Begins(s, S, key) ==
  /\ s \in Seq(S)
  /\ \A m, n \in 1 .. Len(s) : s[m] = s[n] => m = n
  /\ \A n \in 1 .. Len(s) : \A j \in S : Less(key[j], key[s[n]]) => \E m \in 1 .. Len(s) : m < n /\ s[m] = j

(* The lists that are one row longer *)
Nexts(s, S, key) == {Append(s, i) : i \in {i \in S \ ToSet(s) : \A j \in S \ ToSet(s) : ~Less(key[j], key[i])}}

(* A list that begins an order and a row with the least key among the rest *)
LEMMA NextBegins ==
  ASSUME NEW S, NEW key, Keyed(key, S), NEW s, Begins(s, S, key), NEW t \in Nexts(s, S, key)
  PROVE  Begins(t, S, key) /\ Len(t) = Len(s) + 1
<1>1. PICK i \in S : i \notin ToSet(s) /\ t = Append(s, i) /\ \A j \in S \ ToSet(s) : ~Less(key[j], key[i])
  BY DEF Nexts
<1>2. s \in Seq(S) /\ Len(s) \in Nat
  BY DEF Begins
<1>3. t \in Seq(S) /\ Len(t) = Len(s) + 1 /\ t[Len(s) + 1] = i /\ \A n \in 1 .. Len(s) : t[n] = s[n]
  BY <1>1, <1>2
<1>4. \A j : j \in ToSet(s) <=> \E m \in 1 .. Len(s) : s[m] = j
  BY <1>2 DEF ToSet
<1>5. \A n \in 1 .. Len(t) : n \in 1 .. Len(s) \/ n = Len(s) + 1
  BY <1>2, <1>3
<1>6. \A m, n \in 1 .. Len(t) : t[m] = t[n] => m = n
  BY <1>1, <1>3, <1>4, <1>5 DEF Begins
<1>7. ASSUME NEW n \in 1 .. Len(t), NEW j \in S, Less(key[j], key[t[n]])
      PROVE  \E m \in 1 .. Len(t) : m < n /\ t[m] = j
  <2>1. \E m \in 1 .. Len(s) : m < n /\ s[m] = j
    <3>1. CASE n \in 1 .. Len(s)
      BY <1>3, <1>7, <3>1 DEF Begins
    <3>2. CASE n = Len(s) + 1
      <4>1. j \in ToSet(s)
        BY <1>1, <1>3, <1>7, <3>2
      <4> QED
        BY <1>2, <1>4, <3>2, <4>1
    <3> QED
      BY <1>5, <3>1, <3>2
  <2> QED
    BY <1>2, <1>3, <2>1
<1> QED
  BY <1>3, <1>6, <1>7 DEF Begins

(* and there is such a row as long as rows are left. *)
LEMMA NextExists ==
  ASSUME NEW n \in Nat, NEW S, S \subseteq 1 .. n, NEW key, Keyed(key, S),
         NEW s, Begins(s, S, key), Len(s) < Cardinality(S)
  PROVE  Nexts(s, S, key) # {}
<1> DEFINE left == S \ ToSet(s)
<1>1. s \in Seq(S) /\ Len(s) \in Nat /\ DOMAIN s = 1 .. Len(s)
  BY DEF Begins
<1>2. left # {}
  <2> SUFFICES ASSUME S \subseteq ToSet(s) PROVE FALSE
    OBVIOUS
  <2>1. s \in Surjection(1 .. Len(s), S)
    BY <1>1 DEF Surjection, ToSet
  <2>2. Cardinality(S) <= Len(s)
    BY <1>1, <2>1, FS_SurjCardinalityBound DEF ExistsSurjection
  <2>3. Cardinality(S) \in Nat
    <3>1. IsFiniteSet(1 .. n)
      BY FS_Interval
    <3>2. IsFiniteSet(S)
      BY <3>1, FS_Subset
    <3> QED
      BY <3>2, FS_CardinalityType
  <2> QED
    BY <1>1, <2>2, <2>3
<1>3. PICK i \in left : \A j \in left : ~Less(key[j], key[i])
  <2> HIDE DEF left
  <2>1. left \subseteq S
    BY DEF left
  <2> QED
    BY <1>2, <2>1, First
<1> QED
  BY <1>3 DEF Nexts

(* f[n] has the beginnings of length n. *)
Starting(f, S, key) ==
  f = [n \in 0 .. Cardinality(S) |-> IF n = 0 THEN {<<>>} ELSE UNION {Nexts(s, S, key) : s \in f[n - 1]}]

(* The beginnings of the orders of each length exist. *)
LEMMA StartingExists ==
  ASSUME NEW S, NEW key, Cardinality(S) \in Nat
  PROVE  \E f : Starting(f, S, key)
<1> DEFINE N == Cardinality(S)
           D == SUBSET Seq(S)
           more(X) == UNION {Nexts(s, S, key) : s \in X}
           step == [p \in Nat \X D |-> more(p[2])]
<1>1. ASSUME NEW X \in D PROVE more(X) \in D
  BY DEF Nexts
<1>2. step \in [Nat \X D -> D]
  BY <1>1
<1>3. {<<>>} \in D
  OBVIOUS
<1> HIDE DEF more, D, N
<1>4. PICK f : Recursive(f, D, {<<>>}, step, N)
  <2> HIDE DEF step
  <2>1. N \in Nat
    BY DEF N
  <2> QED
    BY <1>2, <1>3, <2>1, Recursion
<1>5. ASSUME NEW k \in 1 .. N PROVE f[k] = more(f[k - 1])
  <2>1. k \in Nat /\ k - 1 \in 0 .. N
    BY DEF N
  <2>2. f[k - 1] \in D
    BY <1>4, <2>1 DEF Recursive
  <2> QED
    BY <1>4, <2>1, <2>2 DEF Recursive
<1>6. \A k \in 0 .. N : f[k] = IF k = 0 THEN {<<>>} ELSE more(f[k - 1])
  BY <1>4, <1>5 DEF N, Recursive
<1>7. f = [n \in 0 .. N |-> IF n = 0 THEN {<<>>} ELSE more(f[n - 1])]
  BY <1>4, <1>6 DEF Recursive
<1> QED
  BY <1>7 DEF Starting, N, more

(* There is an order, and every one has each row once. *)
LEMMA OrdersFacts ==
  ASSUME NEW n \in Nat, NEW S, S \subseteq 1 .. n, NEW key, Keyed(key, S)
  PROVE  /\ Orders(S, key) # {}
         /\ \A s \in Orders(S, key) : Begins(s, S, key) /\ Len(s) = Cardinality(S) /\ ToSet(s) = S
<1> DEFINE f == CHOOSE g : Starting(g, S, key)
           N == Cardinality(S)
<1>1. IsFiniteSet(S) /\ N \in Nat
  <2>1. IsFiniteSet(1 .. n)
    BY FS_Interval
  <2>2. IsFiniteSet(S)
    BY <2>1, FS_Subset
  <2> QED
    BY <2>2, FS_CardinalityType
<1>2. Starting(f, S, key)
  BY <1>1, StartingExists
<1>3. Orders(S, key) = f[N]
  BY DEF Orders, Starting, Nexts, Less
<1> HIDE DEF f, N
<1>4. \A k \in 0 .. N : f[k] = IF k = 0 THEN {<<>>} ELSE UNION {Nexts(s, S, key) : s \in f[k - 1]}
  BY <1>2 DEF Starting, N
<1> DEFINE Done == {k \in 0 .. N : f[k] # {} /\ \A s \in f[k] : Begins(s, S, key) /\ Len(s) = k}
<1>5. 0 \in Done
  <2>1. f[0] = {<<>>}
    <3>1. 0 \in 0 .. N
      BY <1>1
    <3> QED
      BY <1>4, <3>1, Zenon
  <2>2. Begins(<<>>, S, key) /\ Len(<<>>) = 0
    BY DEF Begins
  <2> QED
    BY <1>1, <2>1, <2>2
<1>6. ASSUME NEW k \in 1 .. N, k - 1 \in Done PROVE k \in Done
  <2>1. f[k] = UNION {Nexts(s, S, key) : s \in f[k - 1]}
    <3>1. k \in 0 .. N /\ k # 0
      BY <1>1
    <3> QED
      BY <1>4, <3>1, Zenon
  <2>2. PICK s \in f[k - 1] : Begins(s, S, key) /\ Len(s) = k - 1
    BY <1>6
  <2>3. Nexts(s, S, key) # {}
    BY <1>1, <2>2, NextExists DEF N
  <2>4. ASSUME NEW t \in f[k] PROVE Begins(t, S, key) /\ Len(t) = k
    <3>1. PICK r \in f[k - 1] : t \in Nexts(r, S, key)
      BY <2>1
    <3>2. Begins(r, S, key) /\ Len(r) = k - 1
      BY <1>6
    <3> QED
      BY <1>1, <3>1, <3>2, NextBegins
  <2>5. f[k] # {}
    BY <2>1, <2>2, <2>3
  <2> QED
    BY <2>4, <2>5
<1>7. N \in Done
  <2> HIDE DEF Done
  <2>1. 0 .. N \subseteq Done
    BY <1>1, <1>5, <1>6, UpTo
  <2> QED
    BY <1>1, <2>1
<1>8. ASSUME NEW s, Begins(s, S, key), Len(s) = N PROVE ToSet(s) = S
  <2>1. s \in [1 .. N -> S]
    BY <1>8 DEF Begins
  <2>2. s \in Injection(1 .. N, S)
    BY <1>8, <2>1 DEF Injection, IsInjective, Begins
  <2>3. Cardinality(1 .. N) = N
    BY <1>1, FS_Interval
  <2>4. s \in Surjection(1 .. N, S)
    BY <1>1, <2>2, <2>3, FS_Injection DEF N
  <2> QED
    BY <2>1, <2>4 DEF Surjection, ToSet
<1> QED
  BY <1>3, <1>7, <1>8 DEF N

-----------------------------------------------------------------------------
(* The options of a query for what is older than a date, in the order of dates *)
Dated(o, u, b) ==
  /\ o.beforeID = 0 /\ o.beforeDate = b /\ o.beforeScore = 0
  /\ o.afterID = 0 /\ o.afterDate = 0 /\ o.afterScore = 0
  /\ o.ids = {} /\ o.feedIDs = {} /\ o.filters = filters[u]
  /\ o.unreadOnly = FALSE /\ o.readOnly = FALSE /\ o.untaggedOnly = FALSE
  /\ o.favoriteOnly = FALSE /\ o.includeScores = FALSE /\ o.unreadFirst = FALSE

DatedKeys == {"beforeID", "beforeDate", "beforeScore", "afterID", "afterDate", "afterScore", "ids", "feedIDs",
              "filters", "unreadOnly", "readOnly", "untaggedOnly", "favoriteOnly", "includeScores", "unreadFirst"}

(* Options that set the date and the filters only. *)
LEMMA DatedDefaults ==
  ASSUME NEW u, NEW b, NEW o, o.beforeDate = b, o.filters = filters[u],
         \A k \in DatedKeys \ {"beforeDate", "filters"} : o[k] = DefaultOptions[k]
  PROVE  Dated(o, u, b)
<1>1. /\ o.beforeID = 0 /\ o.beforeScore = 0 /\ o.afterID = 0 /\ o.afterDate = 0 /\ o.afterScore = 0
      /\ o.ids = {} /\ o.feedIDs = {} /\ o.untaggedOnly = FALSE /\ o.favoriteOnly = FALSE
  BY DefaultFields DEF DatedKeys
<1>2. /\ o.unreadOnly = FALSE /\ o.readOnly = FALSE /\ o.includeScores = FALSE /\ o.unreadFirst = FALSE
  BY DEF DatedKeys, DefaultOptions
<1> QED
  BY <1>1, <1>2 DEF Dated

(* What the user sees of what is older than a date *)
Older(u, b) == {i \in Visible(u) : ~Hidden(u, i) /\ (b > 0 => articles[i].date < b)}

(* They select what is older. *)
LEMMA DatedSelected ==
  ASSUME NEW u \in Users, NEW b, NEW o, Dated(o, u, b)
  PROVE  Selected(u, o) = Older(u, b)
<1>1. u # Nobody /\ ~Malformed(o)
  BY NamesAssumption DEF Malformed, Dated
<1>2. ASSUME NEW i PROVE InRange(o, i) <=> (b > 0 => articles[i].date < b)
  <2> DEFINE before == <<o.beforeID, o.beforeDate, o.beforeScore>>
             after == <<o.afterID, o.afterDate, o.afterScore>>
  <2>1. before[1] = 0 /\ before[2] = b /\ before[3] = 0 /\ Columns(i)[2] = articles[i].date
    BY DEF Dated, Columns
  <2>2. Bounded(after) = {}
    BY DEF Dated, Bounded
  <2>3. InRange(o, i) <=> (Bounded(before) # {} => LexLess(Columns(i), before, Bounded(before)))
    BY <2>2 DEF InRange
  <2> HIDE DEF before, after
  <2>4. Bounded(before) = IF b > 0 THEN {2} ELSE {}
    BY <2>1 DEF Bounded
  <2>5. LexLess(Columns(i), before, {2}) <=> articles[i].date < b
    BY <2>1 DEF LexLess
  <2> QED
    BY <2>3, <2>4, <2>5
<1>3. ASSUME NEW i PROVE (\A n \in DOMAIN o.filters : ~Hides(o, o.filters[n], i)) <=> ~Hidden(u, i)
  <2>1. \A f : FilteredFeeds(o, f) = FilteredFeeds(DefaultOptions, f)
    BY DefaultFields DEF FilteredFeeds, Dated
  <2>2. \A f : Hides(o, f, i) <=> Hides(DefaultOptions, f, i)
    BY <2>1 DEF Hides
  <2> QED
    BY <2>2 DEF Hidden, Dated
<1>4. ASSUME NEW i PROVE Matches(u, o, i) <=> ~Hidden(u, i) /\ (b > 0 => articles[i].date < b)
  <2>1. /\ o.ids = {} /\ o.feedIDs = {} /\ ~o.includeScores /\ ~(o.beforeScore > 0) /\ ~(o.afterScore > 0)
        /\ ~o.readOnly /\ ~o.favoriteOnly /\ ~o.unreadOnly /\ ~o.untaggedOnly
    BY DEF Dated
  <2> QED
    BY <1>2, <1>3, <2>1 DEF Matches
<1> QED
  BY <1>1, <1>4 DEF Selected, Older

(* The list that a page is a part of. *)
LEMMA ListedOlder ==
  ASSUME NEW u \in Users
  PROVE  Selected(u, Apply(<<Own(u)>>)) = Older(u, 0)
<1> DEFINE o == Apply(<<Own(u)>>)
<1>1. DOMAIN Own(u) = {"filters"} /\ Own(u)["filters"] = filters[u]
  BY DEF Own, Filters, GetUserFilters
<1>2. \A k \in Keys : o[k] = IF k \in {"filters"} THEN filters[u] ELSE DefaultOptions[k]
  BY <1>1, OptionFields
<1>3. DatedKeys \subseteq Keys
  BY DEF DatedKeys, Keys
<1> HIDE DEF o
<1>4. o["filters"] = filters[u] /\ \A k \in DatedKeys \ {"filters"} : o[k] = DefaultOptions[k]
  BY <1>2, <1>3 DEF DatedKeys
<1>5. o.beforeDate = 0
  BY <1>4, DefaultFields DEF DatedKeys
<1>6. Dated(o, u, 0)
  BY <1>4, <1>5, DatedDefaults
<1> QED
  BY <1>6, DatedSelected DEF o

-----------------------------------------------------------------------------
(* The request of the client for a page *)
PageQuery(b) == [[NoQuery EXCEPT !.limit = 1] EXCEPT !.beforeTime = b]

(* What a request for a page amounts to. *)
LEMMA PageOptions ==
  ASSUME NEW u \in Users, NEW b \in Nat
  PROVE  \E opts : /\ GetArticles(u, "user", 0, PageQuery(b)) = ForUser(u, opts)
                   /\ Dated(Apply(opts), u, b)
                   /\ Apply(opts).limit = 1 /\ Apply(opts).offset = 0
                   /\ Apply(opts).sortField = "date" /\ Apply(opts).descending = TRUE
<1> DEFINE q == PageQuery(b)
           s1 == <<Paging(1, 0)>>
           s2 == IF b > 0 THEN s1 \o <<TimeRange(0, b)>> ELSE s1
           s3 == s2 \o <<Sorting("date", TRUE)>>
           s4 == s3 \o <<Own(u)>>
<1>1. /\ q.limit = 1 /\ q.afterID = 0 /\ q.beforeID = 0 /\ q.afterTime = 0 /\ q.beforeTime = b
      /\ q.afterScore = 0 /\ q.beforeScore = 0 /\ q.id = {} /\ q.unreadOnly = FALSE
      /\ q.readOnly = FALSE /\ q.unreadFirst = FALSE /\ q.olderFirst = FALSE
  BY DEF PageQuery, NoQuery
<1> HIDE DEF q
<1>2. IsList(s1) /\ IsList(s2) /\ IsList(s3) /\ IsList(s4)
  <2>1. IsList(s1)
    BY ShortLists
  <2>2. IsList(s2)
    BY <2>1, Lists
  <2>3. IsList(s3)
    BY <2>2, Lists
  <2>4. IsList(s4)
    BY <2>3, Lists
  <2> QED
    BY <2>1, <2>2, <2>3, <2>4
<1>3. /\ Apply(s1) = Override(DefaultOptions, Paging(1, 0))
      /\ Apply(s2) = IF b > 0 THEN Override(Apply(s1), TimeRange(0, b)) ELSE Apply(s1)
      /\ Apply(s3) = Override(Apply(s2), Sorting("date", TRUE))
      /\ Apply(s4) = Override(Apply(s3), Own(u))
  BY <1>2, ShortLists, Lists
<1>4. ArticleQueryOptions(q, ArticlesLimit) = s3
  <2> DEFINE max == ArticlesLimit
             when(c, opt) == IF c THEN <<opt>> ELSE <<>>
             t1 == <<Paging(IF max > 0 /\ (q.limit = 0 \/ q.limit > max) THEN max ELSE q.limit, 0)>>
             t2 == t1 \o when(q.afterID > 0 \/ q.beforeID > 0, IDRange(q.afterID, q.beforeID))
             t3 == t2 \o when(q.afterTime > 0 \/ q.beforeTime > 0, TimeRange(q.afterTime, q.beforeTime))
             t4 == t3 \o when(q.afterScore > 0 \/ q.beforeScore > 0, ScoreRange(q.afterScore, q.beforeScore))
             t5 == t4 \o when(q.id # {}, IDs(q.id))
             t6 == t5 \o when(q.unreadOnly, UnreadOnly)
             t7 == t6 \o when(q.readOnly, ReadOnly)
             t8 == t7 \o when(q.unreadFirst, UnreadFirst)
             t9 == t8 \o <<Sorting("date", ~q.olderFirst)>>
  <2>0. ArticleQueryOptions(q, max) = t9
    BY DEF ArticleQueryOptions
  <2>1. t1 = s1
    <3>1. ~(max > 0 /\ (q.limit = 0 \/ q.limit > max))
      BY <1>1, LimitAssumption
    <3> QED
      BY <1>1, <3>1
  <2>2. s1 \o <<>> = s1 /\ s2 \o <<>> = s2
    BY <1>2, Lists
  <2> HIDE DEF s1, s2, t1
  <2>3. t2 = s1
    BY <1>1, <2>1, <2>2
  <2> HIDE DEF t2
  <2>4. t3 = s2
    <3>1. t3 = t2 \o (IF b > 0 THEN <<TimeRange(0, b)>> ELSE <<>>)
      BY <1>1
    <3>2. s2 = IF b > 0 THEN s1 \o <<TimeRange(0, b)>> ELSE s1
      BY DEF s2
    <3> HIDE DEF t3
    <3> QED
      BY <2>2, <2>3, <3>1, <3>2
  <2> HIDE DEF t3
  <2>5. t4 = s2
    BY <1>1, <2>2, <2>4
  <2> HIDE DEF t4
  <2>6. t5 = s2
    BY <1>1, <2>2, <2>5
  <2> HIDE DEF t5
  <2>7. t6 = s2
    BY <1>1, <2>2, <2>6
  <2> HIDE DEF t6
  <2>8. t7 = s2
    BY <1>1, <2>2, <2>7
  <2> HIDE DEF t7
  <2>9. t8 = s2
    BY <1>1, <2>2, <2>8
  <2> HIDE DEF t8
  <2> QED
    BY <1>1, <2>0, <2>9
<1>5. GetArticles(u, "user", 0, q) = ForUser(u, s4)
  <2>1. RouteFeeds(u, "user", 0) = {{}}
    BY Zenon DEF RouteFeeds
  <2>2. RepoTypeOptions("user", {}, QuarterAgo) = <<>>
    BY Zenon DEF RepoTypeOptions
  <2>3. s4 \o <<>> = s4
    BY <1>2, Lists
  <2> HIDE DEF s3
  <2>4. GetArticles(u, "user", 0, q)
          = UNION {ForUser(u, s3 \o <<Own(u)>> \o RepoTypeOptions("user", feeds, QuarterAgo)) : feeds \in {{}}}
    BY <1>4, <2>1 DEF GetArticles
  <2> QED
    BY <2>2, <2>3, <2>4
<1>6. /\ DOMAIN Paging(1, 0) = {"limit", "offset"} /\ Paging(1, 0)["limit"] = 1 /\ Paging(1, 0)["offset"] = 0
      /\ DOMAIN TimeRange(0, b) = {"afterDate", "beforeDate"}
      /\ TimeRange(0, b)["afterDate"] = 0 /\ TimeRange(0, b)["beforeDate"] = b
      /\ DOMAIN Sorting("date", TRUE) = {"sortField", "descending"}
      /\ Sorting("date", TRUE)["sortField"] = "date" /\ Sorting("date", TRUE)["descending"] = TRUE
      /\ DOMAIN Own(u) = {"filters"} /\ Own(u)["filters"] = filters[u]
  BY DEF Paging, TimeRange, Sorting, Own, Filters, GetUserFilters
<1> HIDE DEF s1, s2, s3, s4
<1>7. \A k \in Keys : Apply(s1)[k] = IF k \in {"limit", "offset"} THEN Paging(1, 0)[k] ELSE DefaultOptions[k]
  BY <1>3, <1>6, OverrideField
<1>8. \A k \in Keys : Apply(s2)[k] = IF b > 0 /\ k \in {"afterDate", "beforeDate"} THEN TimeRange(0, b)[k] ELSE Apply(s1)[k]
  <2>1. CASE b > 0
    <3>1. Apply(s2) = Override(Apply(s1), TimeRange(0, b))
      BY <1>3, <2>1
    <3>2. \A k \in Keys : Apply(s2)[k] = IF k \in {"afterDate", "beforeDate"} THEN TimeRange(0, b)[k] ELSE Apply(s1)[k]
      BY <1>6, <3>1, OverrideField
    <3> QED
      BY <2>1, <3>2
  <2>2. CASE ~(b > 0)
    BY <1>3, <2>2
  <2> QED
    BY <2>1, <2>2
<1>9. \A k \in Keys : Apply(s3)[k] = IF k \in {"sortField", "descending"} THEN Sorting("date", TRUE)[k] ELSE Apply(s2)[k]
  <2> DEFINE opt == Sorting("date", TRUE)
  <2>1. DOMAIN opt = {"sortField", "descending"} /\ Apply(s3) = Override(Apply(s2), opt)
    BY <1>3, <1>6
  <2> HIDE DEF opt
  <2>2. \A k \in Keys : Apply(s3)[k] = IF k \in {"sortField", "descending"} THEN opt[k] ELSE Apply(s2)[k]
    BY <2>1, OverrideField
  <2> QED
    BY <2>2 DEF opt
<1>10. \A k \in Keys : Apply(s4)[k] = IF k \in {"filters"} THEN filters[u] ELSE Apply(s3)[k]
  <2> DEFINE opt == Own(u)
  <2>1. DOMAIN opt = {"filters"} /\ opt["filters"] = filters[u] /\ Apply(s4) = Override(Apply(s3), opt)
    BY <1>3, <1>6
  <2> HIDE DEF opt
  <2> QED
    BY <2>1, OverrideField
<1>11. Apply(s2)["beforeDate"] = b /\ Apply(s2)["afterDate"] = 0
  <2>1. {"beforeDate", "afterDate"} \subseteq Keys
    BY DEF Keys
  <2>2. Apply(s1)["beforeDate"] = 0 /\ Apply(s1)["afterDate"] = 0
    BY <1>7, <2>1, DefaultFields
  <2> QED
    BY <1>6, <1>8, <2>1, <2>2
<1>12. \A k \in DatedKeys \ {"beforeDate", "filters"} : Apply(s4)[k] = DefaultOptions[k]
  <2> SUFFICES ASSUME NEW k \in DatedKeys \ {"beforeDate", "filters"} PROVE Apply(s4)[k] = DefaultOptions[k]
    OBVIOUS
  <2>1. k \in Keys /\ k \notin {"limit", "offset", "sortField", "descending", "filters", "beforeDate"}
    BY DEF DatedKeys, Keys
  <2>2. Apply(s4)[k] = Apply(s2)[k]
    BY <1>9, <1>10, <2>1
  <2>3. CASE k = "afterDate"
    BY <1>11, <2>2, <2>3, DefaultFields
  <2>4. CASE k # "afterDate"
    BY <1>7, <1>8, <2>1, <2>2, <2>4
  <2> QED
    BY <2>3, <2>4
<1>13. Apply(s4)["beforeDate"] = b /\ Apply(s4)["filters"] = filters[u]
  <2>1. {"beforeDate", "filters"} \subseteq Keys
    BY DEF Keys
  <2> QED
    BY <1>9, <1>10, <1>11, <2>1
<1>14. Dated(Apply(s4), u, b)
  BY <1>12, <1>13, DatedDefaults
<1>15. /\ Apply(s4)["limit"] = 1 /\ Apply(s4)["offset"] = 0
       /\ Apply(s4)["sortField"] = "date" /\ Apply(s4)["descending"] = TRUE
  <2>1. {"limit", "offset", "sortField", "descending"} \subseteq Keys
    BY DEF Keys
  <2>2. Apply(s4)["limit"] = Apply(s1)["limit"] /\ Apply(s4)["offset"] = Apply(s1)["offset"]
    BY <1>8, <1>9, <1>10, <2>1
  <2>3. Apply(s1)["limit"] = 1 /\ Apply(s1)["offset"] = 0
    BY <1>6, <1>7, <2>1
  <2>4. Apply(s4)["sortField"] = Apply(s3)["sortField"] /\ Apply(s4)["descending"] = Apply(s3)["descending"]
    BY <1>10, <2>1
  <2>5. Apply(s3)["sortField"] = Sorting("date", TRUE)["sortField"] /\ Apply(s3)["descending"] = Sorting("date", TRUE)["descending"]
    BY <1>9, <2>1
  <2> HIDE DEF PageQuery
  <2> QED
    BY <1>6, <2>2, <2>3, <2>4, <2>5
<1> QED
  BY <1>5, <1>14, <1>15 DEF q

(* A page shows the newest of the articles that are older than the last.   *)
Newest(R, i) == i \in R /\ \A j \in R : articles[j].date <= articles[i].date

(* A page shows a newest of the older articles, or nothing if there is none. *)
LEMMA PageShows ==
  ASSUME articles \in Seq(RowsOf(Feeds)), NEW u \in Users, NEW b \in Nat
  PROVE  /\ GetArticles(u, "user", 0, PageQuery(b)) # {}
         /\ \A s \in GetArticles(u, "user", 0, PageQuery(b)) :
              \/ Older(u, b) = {} /\ s = <<>>
              \/ \E i : Newest(Older(u, b), i) /\ s = <<i>>
<1>1. PICK opts : /\ GetArticles(u, "user", 0, PageQuery(b)) = ForUser(u, opts)
                  /\ Dated(Apply(opts), u, b)
                  /\ Apply(opts).limit = 1 /\ Apply(opts).offset = 0
                  /\ Apply(opts).sortField = "date" /\ Apply(opts).descending = TRUE
  BY PageOptions
<1> DEFINE o == Apply(opts)
           S == Older(u, b)
           N == Len(articles)
           key == [i \in S |-> SortKey(u, o, i)]
<1>2. Selected(u, o) = S
  BY <1>1, DatedSelected
<1>3. S \subseteq 1 .. N /\ N \in Nat /\ \A i \in S : articles[i].date \in Nat
  <2>1. DOMAIN articles = 1 .. N /\ N \in Nat /\ \A i \in 1 .. N : articles[i] \in RowsOf(Feeds)
    OBVIOUS
  <2>2. \A r \in RowsOf(Feeds) : r.date \in Nat
    BY DEF RowsOf
  <2>3. S \subseteq DOMAIN articles
    BY DEF Older, Visible
  <2> HIDE DEF S, N
  <2> QED
    BY <2>1, <2>2, <2>3
<1>4. ASSUME NEW i \in S PROVE key[i] = <<0, 0, -articles[i].date>>
  <2>1. /\ ~o.includeScores /\ ~o.unreadFirst /\ o.descending
        /\ o.sortField = "date"
    BY <1>1 DEF Dated
  <2>2. /\ o.includeScores = FALSE /\ o.unreadFirst = FALSE
    BY <1>1 DEF Dated
  <2> HIDE DEF o, S
  <2>3. SortKey(u, o, i) = <<0, 0, Directed(o, articles[i].date)>>
    BY <2>1, <2>2 DEF SortKey
  <2>4. Directed(o, articles[i].date) = -articles[i].date
    BY <2>1 DEF Directed
  <2> QED
    BY <2>3, <2>4
<1>5. Keyed(key, S)
  <2>1. ASSUME NEW i \in S PROVE key[i][1] \in Int /\ key[i][2] \in Int /\ key[i][3] \in Int
    <3>1. key[i] = <<0, 0, -articles[i].date>> /\ articles[i].date \in Nat
      BY <1>3, <1>4
    <3> HIDE DEF key, S
    <3> QED
      BY <3>1
  <2> HIDE DEF key, S
  <2> QED
    BY <2>1 DEF Keyed
<1>6. ForUser(u, opts) = {Page(s, o) : s \in Orders(S, key)}
  BY <1>2 DEF ForUser
<1>7. ASSUME NEW i \in S, NEW j \in S, ~Less(key[j], key[i]) PROVE articles[j].date <= articles[i].date
  <2>1. key[i] = <<0, 0, -articles[i].date>> /\ key[j] = <<0, 0, -articles[j].date>>
    BY <1>4
  <2>2. articles[i].date \in Nat /\ articles[j].date \in Nat
    BY <1>3
  <2>3. ~(key[j][3] < key[i][3])
    <3>1. key[j][1] = key[i][1] /\ key[j][2] = key[i][2]
      <4> HIDE DEF key, S
      <4> QED
        BY <2>1
    <3> HIDE DEF key, S
    <3> QED
      BY <1>7, <3>1, LessCases
  <2> HIDE DEF key, S
  <2> QED
    BY <2>1, <2>2, <2>3
<1> HIDE DEF key, S, N
<1>8. /\ Orders(S, key) # {}
      /\ \A s \in Orders(S, key) : Begins(s, S, key) /\ Len(s) = Cardinality(S) /\ ToSet(s) = S
  BY <1>3, <1>5, OrdersFacts
<1>9. ASSUME NEW s \in Orders(S, key)
      PROVE  \/ S = {} /\ Page(s, o) = <<>>
             \/ \E i : Newest(S, i) /\ Page(s, o) = <<i>>
  <2>1. s \in Seq(S) /\ ToSet(s) = S /\ Len(s) \in Nat
    BY <1>8 DEF Begins
  <2>2. Page(s, o) = SubSeq(s, 1, IF 1 < Len(s) THEN 1 ELSE Len(s))
    BY <1>1, <2>1 DEF Page
  <2>3. CASE Len(s) = 0
    <3>1. S = {}
      BY <2>1, <2>3 DEF ToSet
    <3>2. Page(s, o) = <<>>
      BY <2>1, <2>2, <2>3
    <3> QED
      BY <3>1, <3>2
  <2>4. CASE Len(s) > 0
    <3>1. s[1] \in S /\ 1 \in 1 .. Len(s)
      BY <2>1, <2>4
    <3>2. Page(s, o) = SubSeq(s, 1, 1)
      BY <2>1, <2>2, <2>4
    <3>3. SubSeq(s, 1, 1) = <<s[1]>>
      <4> DEFINE t == SubSeq(s, 1, 1)
      <4>1. t \in Seq(S) /\ Len(t) = 1 /\ t[1] = s[1]
        BY <2>1, <2>4, <3>1
      <4> HIDE DEF t
      <4>2. t = <<s[1]>>
        BY <4>1
      <4> QED
        BY <4>2 DEF t
    <3>4. \A j \in S : ~Less(key[j], key[s[1]])
      <4>1. \A j \in S : Less(key[j], key[s[1]]) => \E m \in 1 .. Len(s) : m < 1 /\ s[m] = j
        BY <1>8, <3>1 DEF Begins
      <4> QED
        BY <2>1, <4>1
    <3>5. Newest(S, s[1])
      BY <1>7, <3>1, <3>4 DEF Newest
    <3> QED
      BY <3>2, <3>3, <3>5
  <2> QED
    BY <2>1, <2>3, <2>4
<1>10. GetArticles(u, "user", 0, PageQuery(b)) = {Page(s, o) : s \in Orders(S, key)}
  BY <1>1, <1>6
<1> HIDE DEF o
<1> QED
  BY <1>8, <1>9, <1>10 DEF S

-----------------------------------------------------------------------------
(* The client *)
PageFrom(u, b) == CHOOSE s \in GetArticles(u, "user", 0, PageQuery(b)) : TRUE

(* What the client knows after one page more *)
Turned(u, c) ==
  LET s == PageFrom(u, c.before)
  IN  IF s = <<>> THEN c
      ELSE [before |-> articles[Last(s)].date, seen |-> c.seen \cup ToSet(s)]

(* and at first *)
Start == [before |-> 0, seen |-> {}]

(* f[k] is what it knows after k pages. *)
Turning(f, u) ==
  f = [k \in 0 .. Cardinality(DOMAIN articles) |-> IF k = 0 THEN Start ELSE Turned(u, f[k - 1])]

(* What the client has seen after all pages. *)
LEMMA PagesTurned ==
  ASSUME NEW u
  PROVE  Pages(u, [NoQuery EXCEPT !.limit = 1]) = (CHOOSE f : Turning(f, u))[Cardinality(DOMAIN articles)].seen
BY DEF Pages, Turning, Turned, Start, PageFrom, PageQuery

(* One page more *)
LEMMA TurnedFacts ==
  ASSUME articles \in Seq(RowsOf(Feeds)), NEW u \in Users, NEW c, c.before \in Nat
  PROVE  \/ Older(u, c.before) = {} /\ Turned(u, c) = c
         \/ \E i : /\ Newest(Older(u, c.before), i)
                   /\ Turned(u, c) = [before |-> articles[i].date, seen |-> c.seen \cup {i}]
<1> DEFINE s == PageFrom(u, c.before)
<1>1. \/ Older(u, c.before) = {} /\ s = <<>>
      \/ \E i : Newest(Older(u, c.before), i) /\ s = <<i>>
  BY PageShows DEF PageFrom
<1>2. \A i : <<i>> # <<>> /\ Last(<<i>>) = i /\ ToSet(<<i>>) = {i}
  BY DEF Last, ToSet
<1>3. Turned(u, c) = IF s = <<>> THEN c ELSE [before |-> articles[Last(s)].date, seen |-> c.seen \cup ToSet(s)]
  BY DEF Turned
<1> HIDE DEF s
<1> QED
  BY <1>1, <1>2, <1>3

(* What the client can know *)
Cursors == [before : Nat, seen : SUBSET DOMAIN articles]

(* What is older than a date, and the numbers of articles. *)
LEMMA OlderFacts ==
  ASSUME articles \in Seq(RowsOf(Feeds)), NEW u \in Users
  PROVE  /\ \A b : Older(u, b) = {i \in Older(u, 0) : b > 0 => articles[i].date < b}
         /\ Older(u, 0) \subseteq DOMAIN articles
         /\ \A i \in DOMAIN articles : articles[i].date \in Nat
         /\ DOMAIN articles = 1 .. Len(articles) /\ Len(articles) \in Nat
<1>1. DOMAIN articles = 1 .. Len(articles) /\ Len(articles) \in Nat
  OBVIOUS
<1>2. \A i \in DOMAIN articles : articles[i].date \in Nat
  <2>1. \A r \in RowsOf(Feeds) : r.date \in Nat
    BY DEF RowsOf
  <2>2. \A i \in DOMAIN articles : articles[i] \in RowsOf(Feeds)
    OBVIOUS
  <2> QED
    BY <2>1, <2>2
<1>3. ~(0 > 0)
  OBVIOUS
<1>4. \A b : Older(u, b) = {i \in Older(u, 0) : b > 0 => articles[i].date < b}
  BY <1>3 DEF Older
<1>5. Older(u, 0) \subseteq DOMAIN articles
  BY DEF Older, Visible
<1> QED
  BY <1>1, <1>2, <1>4, <1>5

(* The pages exist. *)
LEMMA TurningExists ==
  ASSUME articles \in Seq(RowsOf(Feeds)), NEW u \in Users
  PROVE  \E f : Turning(f, u)
<1> DEFINE N == Cardinality(DOMAIN articles)
           step == [p \in Nat \X Cursors |-> Turned(u, p[2])]
<1>1. N \in Nat
  <2>1. DOMAIN articles = 1 .. Len(articles) /\ Len(articles) \in Nat
    OBVIOUS
  <2>2. IsFiniteSet(1 .. Len(articles))
    BY <2>1, FS_Interval
  <2> QED
    BY <2>1, <2>2, FS_CardinalityType
<1>2. ASSUME NEW c \in Cursors PROVE Turned(u, c) \in Cursors
  <2>1. c.before \in Nat /\ c.seen \subseteq DOMAIN articles
    BY DEF Cursors
  <2>2. CASE Turned(u, c) = c
    BY <2>2
  <2>3. ASSUME NEW i, Newest(Older(u, c.before), i),
               Turned(u, c) = [before |-> articles[i].date, seen |-> c.seen \cup {i}]
        PROVE  Turned(u, c) \in Cursors
    <3>1. i \in DOMAIN articles /\ articles[i].date \in Nat
      BY <2>3, OlderFacts DEF Newest
    <3> QED
      BY <2>1, <2>3, <3>1 DEF Cursors
  <2> QED
    BY <2>1, <2>2, <2>3, TurnedFacts
<1>3. step \in [Nat \X Cursors -> Cursors]
  BY <1>2
<1>4. Start \in Cursors
  BY DEF Start, Cursors
<1> HIDE DEF N
<1>5. PICK f : Recursive(f, Cursors, Start, step, N)
  <2> HIDE DEF step
  <2> QED
    BY <1>1, <1>3, <1>4, Recursion
<1>6. ASSUME NEW k \in 1 .. N PROVE f[k] = Turned(u, f[k - 1])
  <2>1. k \in Nat /\ k - 1 \in 0 .. N
    BY <1>1
  <2>2. f[k - 1] \in Cursors
    BY <1>5, <2>1 DEF Recursive
  <2> QED
    BY <1>5, <2>1, <2>2 DEF Recursive
<1>7. \A k \in 0 .. N : f[k] = IF k = 0 THEN Start ELSE Turned(u, f[k - 1])
  BY <1>1, <1>5, <1>6 DEF Recursive
<1>8. f = [k \in 0 .. N |-> IF k = 0 THEN Start ELSE Turned(u, f[k - 1])]
  BY <1>5, <1>7 DEF Recursive
<1> QED
  BY <1>8 DEF Turning, N

(* Of the articles that are listed, the client has seen the newest ones:
   as many as pages were asked for, or all of them.                        *)
Seen(u, c, k) ==
  /\ c.before \in Nat
  /\ \/ c.seen = Older(u, 0)
     \/ k = 0 /\ c = Start
     \/ /\ c.before > 0 /\ Cardinality(c.seen) = k
        /\ c.seen = {i \in Older(u, 0) : articles[i].date >= c.before}

(* A page more shows one article more, the newest of those not seen. *)
LEMMA TurnedSeen ==
  ASSUME articles \in Seq(RowsOf(Feeds)), NEW u \in Users,
         \A i, j \in Older(u, 0) : articles[i].date = articles[j].date => i = j,
         NEW k \in Nat, NEW c, Seen(u, c, k)
  PROVE  Seen(u, Turned(u, c), k + 1)
<1> DEFINE L == Older(u, 0)
           R == Older(u, c.before)
           d == Turned(u, c)
<1>1. c.before \in Nat
  BY DEF Seen
<1>2. R = {i \in L : c.before > 0 => articles[i].date < c.before} /\ \A i \in L : articles[i].date \in Nat
  BY OlderFacts
<1>3. \/ R = {} /\ d = c
      \/ \E i : Newest(R, i) /\ d = [before |-> articles[i].date, seen |-> c.seen \cup {i}]
  BY <1>1, TurnedFacts
<1>4. IsFiniteSet(L)
  <2>1. IsFiniteSet(DOMAIN articles)
    BY OlderFacts, FS_Interval
  <2> QED
    BY <2>1, OlderFacts, FS_Subset
<1>5. \A i, j \in L : articles[i].date = articles[j].date => i = j
  OBVIOUS
<1> HIDE DEF L, R, d
<1>6. CASE R = {} /\ d = c
  <2>1. c.seen = L
    <3>1. CASE c = Start
      <4>1. c.before = 0 /\ c.seen = {}
        BY <3>1 DEF Start
      <4> QED
        BY <1>2, <1>6, <4>1
    <3>2. CASE c.before > 0 /\ c.seen = {i \in L : articles[i].date >= c.before}
      BY <1>1, <1>2, <1>6, <3>2
    <3> QED
      BY <3>1, <3>2 DEF Seen, L
  <2> QED
    BY <1>1, <1>6, <2>1 DEF Seen, L, d
<1>7. ASSUME NEW i, Newest(R, i), d = [before |-> articles[i].date, seen |-> c.seen \cup {i}]
      PROVE  Seen(u, d, k + 1)
  <2>1. i \in R /\ i \in L /\ articles[i].date \in Nat /\ \A j \in R : articles[j].date <= articles[i].date
    BY <1>2, <1>7 DEF Newest
  <2>2. d.before = articles[i].date /\ d.seen = c.seen \cup {i}
    BY <1>7
  <2>3. CASE c.seen = L
    BY <2>1, <2>2, <2>3 DEF Seen, L
  <2>4. ASSUME c.seen # L, IsFiniteSet(c.seen), Cardinality(c.seen) = k, i \notin c.seen,
               c.seen \cup {i} = {j \in L : articles[j].date >= articles[i].date}
        PROVE  Seen(u, d, k + 1)
    <3>1. Cardinality(d.seen) = k + 1
      BY <2>2, <2>4, FS_AddElement
    <3>2. CASE articles[i].date > 0
      BY <2>1, <2>2, <2>4, <3>1, <3>2 DEF Seen, L
    <3>3. CASE articles[i].date = 0
      <4>1. d.seen = L
        BY <1>2, <2>2, <2>4, <3>3
      <4> QED
        BY <2>1, <2>2, <4>1 DEF Seen, L
    <3> QED
      BY <2>1, <3>2, <3>3
  <2>5. CASE c.seen # L /\ k = 0 /\ c = Start
    <3>1. c.before = 0 /\ c.seen = {} /\ R = L
      BY <1>2, <2>5 DEF Start
    <3>2. IsFiniteSet(c.seen) /\ Cardinality(c.seen) = 0
      BY <3>1, FS_EmptySet
    <3>3. \A j \in L : articles[j].date >= articles[i].date <=> j = i
      BY <1>2, <1>5, <2>1, <3>1
    <3> QED
      BY <2>1, <2>4, <2>5, <3>1, <3>2, <3>3
  <2>6. CASE c.seen # L /\ c.before > 0 /\ Cardinality(c.seen) = k
             /\ c.seen = {j \in L : articles[j].date >= c.before}
    <3>1. IsFiniteSet(c.seen)
      BY <1>4, <2>6, FS_Subset
    <3>2. i \notin c.seen
      BY <1>1, <1>2, <2>1, <2>6
    <3>3. \A j \in L : articles[j].date >= articles[i].date <=> j \in c.seen \/ j = i
      <4> SUFFICES ASSUME NEW j \in L PROVE articles[j].date >= articles[i].date <=> j \in c.seen \/ j = i
        OBVIOUS
      <4>1. articles[j].date \in Nat
        BY <1>2
      <4>2. CASE articles[j].date >= c.before
        BY <1>1, <1>2, <2>1, <2>6, <4>1, <4>2
      <4>3. CASE articles[j].date < c.before
        <5>1. j \in R /\ articles[j].date <= articles[i].date
          BY <1>2, <2>1, <4>3
        <5>2. j \notin c.seen
          BY <1>1, <2>6, <4>1, <4>3
        <5> QED
          BY <1>5, <2>1, <4>1, <5>1, <5>2
      <4> QED
        BY <1>1, <4>1, <4>2, <4>3
    <3>4. c.seen \cup {i} = {j \in L : articles[j].date >= articles[i].date}
      BY <2>1, <2>6, <3>3
    <3> QED
      BY <2>4, <2>6, <3>1, <3>2, <3>4
  <2> QED
    BY <2>3, <2>5, <2>6 DEF Seen, L
<1> QED
  BY <1>3, <1>6, <1>7 DEF d

(* After as many pages as there are articles all have been seen. *)
LEMMA AllSeen ==
  ASSUME articles \in Seq(RowsOf(Feeds)), NEW u \in Users,
         \A i, j \in Older(u, 0) : articles[i].date = articles[j].date => i = j
  PROVE  Pages(u, [NoQuery EXCEPT !.limit = 1]) = Older(u, 0)
<1> DEFINE f == CHOOSE g : Turning(g, u)
           N == Cardinality(DOMAIN articles)
<1>1. IsFiniteSet(DOMAIN articles) /\ N \in Nat
  <2>1. IsFiniteSet(DOMAIN articles)
    BY OlderFacts, FS_Interval
  <2> QED
    BY <2>1, FS_CardinalityType
<1>2. Turning(f, u)
  BY TurningExists
<1>3. Pages(u, [NoQuery EXCEPT !.limit = 1]) = f[N].seen
  BY PagesTurned
<1> HIDE DEF f, N
<1>4. \A k \in 0 .. N : f[k] = IF k = 0 THEN Start ELSE Turned(u, f[k - 1])
  BY <1>2 DEF Turning, N
<1> DEFINE Done == {k \in 0 .. N : Seen(u, f[k], k)}
<1>5. 0 \in Done
  <2>1. 0 \in 0 .. N
    BY <1>1
  <2>2. f[0] = Start
    BY <1>4, <2>1, Zenon
  <2>3. Start.before = 0
    BY DEF Start
  <2> QED
    BY <2>1, <2>2, <2>3 DEF Seen
<1>6. ASSUME NEW k \in 1 .. N, k - 1 \in Done PROVE k \in Done
  <2>1. k \in 0 .. N /\ k # 0 /\ k - 1 \in Nat /\ k - 1 + 1 = k
    BY <1>1
  <2>2. f[k] = Turned(u, f[k - 1])
    BY <1>4, <2>1, Zenon
  <2>3. Seen(u, f[k - 1], k - 1)
    BY <1>6
  <2>4. Seen(u, Turned(u, f[k - 1]), k - 1 + 1)
    BY <2>1, <2>3, TurnedSeen
  <2> QED
    BY <2>1, <2>2, <2>4
<1>7. Seen(u, f[N], N)
  <2> HIDE DEF Done
  <2>1. 0 .. N \subseteq Done
    BY <1>1, <1>5, <1>6, UpTo
  <2> QED
    BY <1>1, <2>1 DEF Done
<1>8. f[N].seen = Older(u, 0)
  <2> DEFINE c == f[N]
  <2> HIDE DEF c
  <2>1. CASE N = 0 /\ c = Start
    <3>1. DOMAIN articles = {}
      BY <1>1, <2>1, FS_EmptySet DEF N
    <3>2. Older(u, 0) = {}
      BY <3>1, OlderFacts
    <3> QED
      BY <2>1, <3>2 DEF Start, c
  <2>2. CASE Cardinality(c.seen) = N /\ c.seen = {i \in Older(u, 0) : articles[i].date >= c.before}
    <3>1. c.seen \subseteq DOMAIN articles /\ c.seen \subseteq Older(u, 0) /\ Older(u, 0) \subseteq DOMAIN articles
      BY <2>2, OlderFacts
    <3>2. c.seen = DOMAIN articles
      BY <1>1, <2>2, <3>1, FS_Subset DEF N
    <3> QED
      BY <3>1, <3>2 DEF c
  <2> QED
    BY <1>7, <2>1, <2>2 DEF Seen, c
<1> QED
  BY <1>3, <1>8

(* A client that pages by the date of the last article sees every article of
   its list when no two have the same date. *)
THEOREM PagesShowAll == Spec => []PagesComplete
<1>1. ASSUME LInv, NEW u \in Users,
             \A i, j \in Selected(u, Apply(<<Own(u)>>)) : articles[i].date = articles[j].date => i = j
      PROVE  Pages(u, [NoQuery EXCEPT !.limit = 1]) = Selected(u, Apply(<<Own(u)>>))
  <2>1. articles \in Seq(RowsOf(Feeds))
    BY <1>1 DEF LInv, RInv, OInv, TInv
  <2>2. Selected(u, Apply(<<Own(u)>>)) = Older(u, 0)
    BY ListedOlder
  <2> QED
    BY <1>1, <2>1, <2>2, AllSeen
<1>2. LInv => PagesComplete
  BY <1>1 DEF PagesComplete
<1> QED
  BY LInvariant, <1>2, PTL

-----------------------------------------------------------------------------
(* The options on which the articles of a query depend *)
SelectKeys == Restriction \cup {"readOnly", "unreadOnly", "includeScores", "filters"}

(* The options have the same values. *)
Agree(o, p, K) == \A k \in K : o[k] = p[k]

(* What is selected depends on some of the options only. *)
LEMMA SelectedSame ==
  ASSUME NEW u, NEW o, NEW p, Agree(o, p, SelectKeys)
  PROVE  Selected(u, o) = Selected(u, p)
<1>1. /\ o.beforeID = p.beforeID /\ o.beforeDate = p.beforeDate /\ o.beforeScore = p.beforeScore
      /\ o.afterID = p.afterID /\ o.afterDate = p.afterDate /\ o.afterScore = p.afterScore
      /\ o.ids = p.ids /\ o.feedIDs = p.feedIDs /\ o.filters = p.filters
  BY DEF Agree, SelectKeys, Restriction
<1>2. /\ o.favoriteOnly = p.favoriteOnly /\ o.untaggedOnly = p.untaggedOnly /\ o.readOnly = p.readOnly
      /\ o.unreadOnly = p.unreadOnly /\ o.includeScores = p.includeScores
  BY DEF Agree, SelectKeys, Restriction
<1>3. \A f, i : Hides(o, f, i) <=> Hides(p, f, i)
  BY <1>1 DEF Hides, FilteredFeeds
<1>4. \A i : InRange(o, i) <=> InRange(p, i)
  BY <1>1 DEF InRange
<1>5. Malformed(o) <=> Malformed(p)
  BY <1>1 DEF Malformed
<1>6. ASSUME NEW i PROVE Matches(u, o, i) <=> Matches(u, p, i)
  BY <1>1, <1>2, <1>3, <1>4 DEF Matches
<1> QED
  BY <1>5, <1>6 DEF Selected

(* Bounds on the date that are no wider select no more.                    *)
LEMMA Narrower ==
  ASSUME articles \in Seq(RowsOf(Feeds)), NEW u \in Users, NEW o, NEW p,
         Agree(o, p, SelectKeys \ {"includeScores", "beforeDate", "afterDate"}),
         p.includeScores = FALSE,
         p.beforeID = 0, p.afterID = 0, p.beforeScore = 0, p.afterScore = 0,
         o.beforeDate \in Nat, p.beforeDate \in Nat, p.afterDate \in Nat,
         p.beforeDate > 0 => o.beforeDate > 0 /\ o.beforeDate <= p.beforeDate,
         p.afterDate > 0 => o.afterDate = p.afterDate
  PROVE  Selected(u, o) \subseteq Selected(u, p)
<1>1. /\ o.beforeID = 0 /\ o.beforeScore = 0 /\ o.afterID = 0 /\ o.afterScore = 0
      /\ o.ids = p.ids /\ o.feedIDs = p.feedIDs /\ o.filters = p.filters
  BY DEF Agree, SelectKeys, Restriction
<1>2. /\ o.favoriteOnly = p.favoriteOnly /\ o.untaggedOnly = p.untaggedOnly /\ o.readOnly = p.readOnly
      /\ o.unreadOnly = p.unreadOnly
  BY DEF Agree, SelectKeys, Restriction
<1>3. \A f, i : Hides(o, f, i) <=> Hides(p, f, i)
  BY <1>1 DEF Hides, FilteredFeeds
<1>4. ~Malformed(o) /\ ~Malformed(p) /\ u # Nobody
  BY <1>1, NamesAssumption DEF Malformed
<1>5. ASSUME NEW x, x.beforeID = 0, x.beforeScore = 0, x.afterID = 0, x.afterScore = 0, NEW i
      PROVE  InRange(x, i) <=> /\ x.beforeDate > 0 => articles[i].date < x.beforeDate
                               /\ x.afterDate > 0 => x.afterDate < articles[i].date
  <2> DEFINE before == <<x.beforeID, x.beforeDate, x.beforeScore>>
             after == <<x.afterID, x.afterDate, x.afterScore>>
  <2>1. /\ before[1] = 0 /\ before[2] = x.beforeDate /\ before[3] = 0
        /\ after[1] = 0 /\ after[2] = x.afterDate /\ after[3] = 0 /\ Columns(i)[2] = articles[i].date
    BY <1>5 DEF Columns
  <2>2. InRange(x, i) <=> /\ Bounded(before) # {} => LexLess(Columns(i), before, Bounded(before))
                          /\ Bounded(after) # {} => LexLess(after, Columns(i), Bounded(after))
    BY DEF InRange
  <2> HIDE DEF before, after
  <2>3. Bounded(before) = (IF x.beforeDate > 0 THEN {2} ELSE {}) /\ Bounded(after) = (IF x.afterDate > 0 THEN {2} ELSE {})
    BY <2>1 DEF Bounded
  <2>4. /\ LexLess(Columns(i), before, {2}) <=> articles[i].date < x.beforeDate
        /\ LexLess(after, Columns(i), {2}) <=> x.afterDate < articles[i].date
    BY <2>1 DEF LexLess
  <2> QED
    BY <2>2, <2>3, <2>4
<1>6. ASSUME NEW i \in Visible(u), InRange(o, i) PROVE InRange(p, i)
  <2>1. articles[i].date \in Nat
    BY OlderFacts DEF Visible
  <2>2. /\ o.beforeDate > 0 => articles[i].date < o.beforeDate
        /\ o.afterDate > 0 => o.afterDate < articles[i].date
    BY <1>1, <1>5, <1>6
  <2>3. /\ p.beforeDate > 0 => articles[i].date < p.beforeDate
        /\ p.afterDate > 0 => p.afterDate < articles[i].date
    BY <2>1, <2>2
  <2> QED
    BY <1>5, <2>3
<1>7. ASSUME NEW i \in Visible(u), Matches(u, o, i) PROVE Matches(u, p, i)
  <2>1. InRange(p, i)
    BY <1>6, <1>7 DEF Matches
  <2>2. ~p.includeScores /\ ~(p.beforeScore > 0) /\ ~(p.afterScore > 0)
    OBVIOUS
  <2> QED
    BY <1>1, <1>2, <1>3, <1>7, <2>1, <2>2 DEF Matches
<1> QED
  BY <1>4, <1>7 DEF Selected

-----------------------------------------------------------------------------
(* What a limit leaves *)
LEMMA KeysOfRows ==
  ASSUME articles \in Seq(RowsOf(Feeds)), NEW u, NEW o, NEW S, S \subseteq DOMAIN articles
  PROVE  Keyed([i \in S |-> SortKey(u, o, i)], S)
<1>1. ASSUME NEW i \in S
      PROVE  SortKey(u, o, i)[1] \in Int /\ SortKey(u, o, i)[2] \in Int /\ SortKey(u, o, i)[3] \in Int
  <2>1. i \in Int /\ articles[i].date \in Int /\ articles[i].score \in Int
    <3>1. articles[i] \in RowsOf(Feeds) /\ i \in 1 .. Len(articles)
      OBVIOUS
    <3>2. articles[i].date \in Nat /\ articles[i].score \in Nat
      BY <3>1 DEF RowsOf
    <3> QED
      BY <3>1, <3>2
  <2>2. \A n \in Int : Directed(o, n) \in Int
    BY DEF Directed
  <2> DEFINE read == IF <<u, i>> \in unread THEN 0 ELSE 1
             a == IF o.includeScores /\ o.highScoredFirst THEN Directed(o, articles[i].score) ELSE 0
             b == IF o.unreadFirst /\ u # Nobody
                  THEN IF o.sortField = "default" THEN Directed(o, read) ELSE read
                  ELSE 0
             c == CASE o.sortField = "id"   -> Directed(o, i)
                    [] o.sortField = "date" -> Directed(o, articles[i].date)
                    [] OTHER                -> 0
  <2>3. SortKey(u, o, i) = <<a, b, c>>
    BY DEF SortKey
  <2>4. a \in Int
    BY <2>1, <2>2
  <2>5. b \in Int
    <3>1. read \in Int /\ 0 \in Int
      OBVIOUS
    <3> HIDE DEF read
    <3> QED
      BY <2>2, <3>1
  <2>6. c \in Int
    <3>1. CASE o.sortField = "id"
      <4>1. c = Directed(o, i)
        BY <3>1
      <4> QED
        BY <2>1, <2>2, <4>1
    <3>2. CASE o.sortField = "date"
      <4>1. c = Directed(o, articles[i].date)
        BY <3>2
      <4> QED
        BY <2>1, <2>2, <4>1
    <3>3. CASE o.sortField # "id" /\ o.sortField # "date"
      <4>1. c = 0
        BY <3>3
      <4> QED
        BY <4>1
    <3> QED
      BY <3>1, <3>2, <3>3
  <2> HIDE DEF a, b, c
  <2> QED
    BY <2>3, <2>4, <2>5, <2>6
<1> QED
  BY <1>1 DEF Keyed

(* A list without repetitions is as long as its set is large. *)
LEMMA DistinctCount ==
  ASSUME NEW S, NEW t \in Seq(S), \A m, n \in 1 .. Len(t) : t[m] = t[n] => m = n
  PROVE  Cardinality(ToSet(t)) = Len(t)
<1>1. Len(t) \in Nat /\ t \in [1 .. Len(t) -> ToSet(t)]
  BY DEF ToSet
<1>2. t \in Bijection(1 .. Len(t), ToSet(t))
  BY <1>1 DEF Bijection, Injection, IsInjective, Surjection, ToSet
<1>3. IsFiniteSet(1 .. Len(t)) /\ Cardinality(1 .. Len(t)) = Len(t)
  BY <1>1, FS_Interval
<1> QED
  BY <1>2, <1>3, FS_Bijection DEF ExistsBijection

(* The keys of some rows, the number of them that a limit leaves *)
KeyOf(u, o, S) == [i \in S |-> SortKey(u, o, i)]

Cut(o, S) == IF o.limit <= 0 \/ Cardinality(S) <= o.limit THEN Cardinality(S) ELSE o.limit

(* What is left of an order by the limit. *)
LEMMA PageFacts ==
  ASSUME articles \in Seq(RowsOf(Feeds)), NEW u, NEW o, o.limit \in Int, o.offset = 0,
         NEW S, S \subseteq DOMAIN articles
  PROVE  /\ Cardinality(S) \in Nat
         /\ Orders(S, KeyOf(u, o, S)) # {}
         /\ \A s \in Orders(S, KeyOf(u, o, S)) :
              /\ ToSet(Page(s, o)) \subseteq S
              /\ Cardinality(ToSet(Page(s, o))) = Cut(o, S)
              /\ o.limit <= 0 \/ Cardinality(S) <= o.limit => ToSet(Page(s, o)) = S
<1> DEFINE key == KeyOf(u, o, S)
<1>1. Keyed(key, S)
  BY KeysOfRows DEF KeyOf
<1>2. S \subseteq 1 .. Len(articles) /\ Len(articles) \in Nat
  OBVIOUS
<1> HIDE DEF key
<1>3. /\ Orders(S, key) # {}
      /\ \A s \in Orders(S, key) : Begins(s, S, key) /\ Len(s) = Cardinality(S) /\ ToSet(s) = S
  BY <1>1, <1>2, OrdersFacts
<1>4. Cardinality(S) \in Nat
  <2>1. IsFiniteSet(1 .. Len(articles))
    BY <1>2, FS_Interval
  <2> QED
    BY <1>2, <2>1, FS_Subset, FS_CardinalityType
<1>5. ASSUME NEW s \in Orders(S, key)
      PROVE  /\ ToSet(Page(s, o)) \subseteq S
             /\ Cardinality(ToSet(Page(s, o))) = Cut(o, S)
             /\ o.limit <= 0 \/ Cardinality(S) <= o.limit => ToSet(Page(s, o)) = S
  <2>1. s \in Seq(S) /\ Len(s) = Cardinality(S) /\ ToSet(s) = S /\ \A m, n \in 1 .. Len(s) : s[m] = s[n] => m = n
    BY <1>3, <1>5 DEF Begins
  <2>2. Page(s, o) = IF o.limit <= 0 THEN s ELSE SubSeq(s, 1, IF o.limit < Len(s) THEN o.limit ELSE Len(s))
    BY DEF Page
  <2>3. CASE o.limit <= 0 \/ Cardinality(S) <= o.limit
    <3>1. SubSeq(s, 1, Len(s)) = s
      BY <2>1
    <3>2. Page(s, o) = s
      BY <1>4, <2>1, <2>2, <2>3, <3>1
    <3> QED
      BY <2>1, <2>3, <3>2 DEF Cut
  <2>4. CASE o.limit > 0 /\ o.limit < Cardinality(S)
    <3> DEFINE t == SubSeq(s, 1, o.limit)
    <3>1. Page(s, o) = t
      BY <2>1, <2>2, <2>4
    <3>2. t \in Seq(S) /\ Len(t) = o.limit /\ \A n \in 1 .. Len(t) : t[n] = s[n] /\ n \in 1 .. Len(s)
      BY <1>4, <2>1, <2>4
    <3> HIDE DEF t
    <3>3. \A m, n \in 1 .. Len(t) : t[m] = t[n] => m = n
      BY <2>1, <3>2
    <3>4. Cardinality(ToSet(t)) = o.limit
      BY <3>2, <3>3, DistinctCount
    <3>5. ToSet(t) \subseteq S
      BY <3>2 DEF ToSet
    <3>6. ~(o.limit <= 0 \/ Cardinality(S) <= o.limit)
      BY <1>4, <2>4
    <3> QED
      BY <3>1, <3>4, <3>5, <3>6 DEF Cut
  <2> QED
    BY <1>4, <2>3, <2>4
<1> QED
  BY <1>3, <1>4, <1>5 DEF key

(* What is selected is stored. *)
LEMMA SelectedRows ==
  ASSUME NEW u, NEW o
  PROVE  Selected(u, o) \subseteq DOMAIN articles
BY DEF Selected, Visible

(* The articles that a query answers: selected ones, and all unless the limit cuts them
   off. *)
LEMMA ForUserFacts ==
  ASSUME articles \in Seq(RowsOf(Feeds)), NEW u, NEW opts, Apply(opts).limit \in Int, Apply(opts).offset = 0
  PROVE  LET o == Apply(opts)
             S == Selected(u, o)
         IN  /\ ForUser(u, opts) # {}
             /\ \A s \in ForUser(u, opts) :
                  /\ ToSet(s) \subseteq S
                  /\ o.limit <= 0 \/ Cardinality(S) <= o.limit => ToSet(s) = S
<1> DEFINE o == Apply(opts)
           S == Selected(u, o)
<1>1. o.limit \in Int /\ o.offset = 0
  OBVIOUS
<1>2. ForUser(u, opts) = {Page(s, o) : s \in Orders(S, KeyOf(u, o, S))}
  BY DEF ForUser, KeyOf
<1>3. S \subseteq DOMAIN articles
  BY SelectedRows
<1> HIDE DEF o, S
<1>4. /\ Orders(S, KeyOf(u, o, S)) # {}
      /\ \A s \in Orders(S, KeyOf(u, o, S)) :
              /\ ToSet(Page(s, o)) \subseteq S
              /\ o.limit <= 0 \/ Cardinality(S) <= o.limit => ToSet(Page(s, o)) = S
  BY <1>1, <1>3, PageFacts
<1>5. /\ ForUser(u, opts) # {}
      /\ \A s \in ForUser(u, opts) :
           /\ ToSet(s) \subseteq S
           /\ o.limit <= 0 \/ Cardinality(S) <= o.limit => ToSet(s) = S
  BY <1>2, <1>4
<1> QED
  BY <1>5 DEF o, S

(* The IDs that a query answers: all that are selected, or as many as the limit says. *)
LEMMA IDsFacts ==
  ASSUME articles \in Seq(RowsOf(Feeds)), NEW u, NEW opts, Apply(opts).limit \in Int, Apply(opts).offset = 0
  PROVE  LET o == [Apply(opts) EXCEPT !.includeScores = FALSE]
             S == Selected(u, o)
         IN  /\ IDsForUser(u, opts) # {}
             /\ \A ids \in IDsForUser(u, opts) :
                  /\ ids \subseteq S
                  /\ \/ ids = S
                     \/ Apply(opts).limit > 0 /\ Cardinality(ids) = Apply(opts).limit
<1> DEFINE o == [Apply(opts) EXCEPT !.includeScores = FALSE]
           S == Selected(u, o)
<1>1. o.limit = Apply(opts).limit /\ o.limit \in Int /\ o.offset = 0
  <2>1. {"limit", "offset"} \subseteq Keys \ {"includeScores"}
    BY DEF Keys
  <2>2. \A k \in Keys \ {"includeScores"} : o[k] = Apply(opts)[k]
    BY Unscored
  <2> HIDE DEF o
  <2> QED
    BY <2>1, <2>2
<1>2. IDsForUser(u, opts) = {ToSet(Page(s, o)) : s \in Orders(S, KeyOf(u, o, S))}
  BY DEF IDsForUser, KeyOf
<1>3. S \subseteq DOMAIN articles
  BY SelectedRows
<1> HIDE DEF o, S
<1>4. /\ Cardinality(S) \in Nat
      /\ Orders(S, KeyOf(u, o, S)) # {}
      /\ \A s \in Orders(S, KeyOf(u, o, S)) :
              /\ ToSet(Page(s, o)) \subseteq S
              /\ Cardinality(ToSet(Page(s, o))) = Cut(o, S)
              /\ o.limit <= 0 \/ Cardinality(S) <= o.limit => ToSet(Page(s, o)) = S
  BY <1>1, <1>3, PageFacts
<1>5. ~(o.limit <= 0 \/ Cardinality(S) <= o.limit) => o.limit > 0 /\ Cut(o, S) = o.limit
  BY <1>1 DEF Cut
<1>6. /\ IDsForUser(u, opts) # {}
      /\ \A ids \in IDsForUser(u, opts) :
           /\ ids \subseteq S
           /\ ids = S \/ (o.limit > 0 /\ Cardinality(ids) = o.limit)
  BY <1>2, <1>4, <1>5
<1> QED
  BY <1>1, <1>6 DEF o, S

(* Options that are appended. *)
LEMMA Appends ==
  ASSUME NEW s, IsList(s)
  PROVE  /\ s \o <<>> = s
         /\ \A a : IsList(s \o <<a>>) /\ Apply(s \o <<a>>) = Override(Apply(s), a)
BY Lists

(* Appending two options is appending one and then the other, *)
LEMMA TwoByTwo ==
  ASSUME NEW s, IsList(s), NEW a, NEW b
  PROVE  s \o <<a, b>> = (s \o <<a>>) \o <<b>>
<1>1. PICK S : s \in Seq(S)
  BY DEF IsList
<1> DEFINE T == S \cup {a, b}
<1>2. s \in Seq(T) /\ <<a>> \in Seq(T) /\ <<b>> \in Seq(T) /\ <<a, b>> \in Seq(T)
  BY <1>1
<1> DEFINE v == s \o <<a>>
           w == v \o <<b>>
           x == s \o <<a, b>>
<1> HIDE DEF T
<1>3. v \in Seq(T) /\ Len(v) = Len(s) + 1 /\ v[Len(s) + 1] = a /\ \A n \in 1 .. Len(s) : v[n] = s[n]
  BY <1>2
<1> HIDE DEF v
<1>4. w \in Seq(T) /\ Len(w) = Len(v) + 1 /\ w[Len(v) + 1] = b /\ \A n \in 1 .. Len(v) : w[n] = v[n]
  BY <1>2, <1>3
<1>5. x \in Seq(T) /\ Len(x) = Len(s) + 2 /\ x[Len(s) + 1] = a /\ x[Len(s) + 2] = b /\ \A n \in 1 .. Len(s) : x[n] = s[n]
  BY <1>2
<1> HIDE DEF w, x
<1>6. Len(s) \in Nat /\ \A n \in 1 .. Len(x) : n \in 1 .. Len(s) \/ n = Len(s) + 1 \/ n = Len(s) + 2
  BY <1>2, <1>5
<1>7. Len(w) = Len(x) /\ \A n \in 1 .. Len(x) : w[n] = x[n]
  BY <1>3, <1>4, <1>5, <1>6
<1>8. w = x
  BY <1>4, <1>5, <1>7
<1> QED
  BY <1>8 DEF v, w, x

(* and so it is for three. *)
LEMMA OneByOne ==
  ASSUME NEW s, IsList(s), NEW a, NEW b, NEW c
  PROVE  s \o <<a, b, c>> = ((s \o <<a>>) \o <<b>>) \o <<c>>
<1>1. PICK S : s \in Seq(S)
  BY DEF IsList
<1> DEFINE T == S \cup {a, b, c}
<1>2. s \in Seq(T) /\ <<a>> \in Seq(T) /\ <<b>> \in Seq(T) /\ <<c>> \in Seq(T) /\ <<a, b, c>> \in Seq(T)
  BY <1>1
<1> DEFINE v == s \o <<a>>
           w == v \o <<b>>
           x == w \o <<c>>
           y == s \o <<a, b, c>>
<1> HIDE DEF T
<1>3. v \in Seq(T) /\ Len(v) = Len(s) + 1 /\ v[Len(s) + 1] = a /\ \A n \in 1 .. Len(s) : v[n] = s[n]
  BY <1>2
<1> HIDE DEF v
<1>4. w \in Seq(T) /\ Len(w) = Len(v) + 1 /\ w[Len(v) + 1] = b /\ \A n \in 1 .. Len(v) : w[n] = v[n]
  BY <1>2, <1>3
<1> HIDE DEF w
<1>5. x \in Seq(T) /\ Len(x) = Len(w) + 1 /\ x[Len(w) + 1] = c /\ \A n \in 1 .. Len(w) : x[n] = w[n]
  BY <1>2, <1>4
<1>6. y \in Seq(T) /\ Len(y) = Len(s) + 3 /\ y[Len(s) + 1] = a /\ y[Len(s) + 2] = b /\ y[Len(s) + 3] = c
      /\ \A n \in 1 .. Len(s) : y[n] = s[n]
  BY <1>2
<1> HIDE DEF x, y
<1>7. Len(s) \in Nat /\ \A n \in 1 .. Len(y) : n \in 1 .. Len(s) \/ n = Len(s) + 1 \/ n = Len(s) + 2 \/ n = Len(s) + 3
  BY <1>2, <1>6
<1>8. Len(x) = Len(y) /\ \A n \in 1 .. Len(y) : x[n] = y[n]
  BY <1>3, <1>4, <1>5, <1>6, <1>7
<1>9. x = y
  BY <1>5, <1>6, <1>8
<1> QED
  BY <1>9 DEF v, w, x, y

(* Options that say which articles are selected, and those that do not     *)
Selecting(opt) == "limit" \notin DOMAIN opt /\ "offset" \notin DOMAIN opt
Neutral(opt) == Selecting(opt) /\ DOMAIN opt \cap SelectKeys = {}

(* Which options only order or page the result. *)
LEMMA OptionKinds ==
  /\ \A x, y : Neutral(Sorting(x, y))
  /\ Neutral(UnreadFirst) /\ Neutral(HighScoredFirst)
  /\ \A x, y : Selecting(TimeRange(x, y)) /\ Selecting(IDRange(x, y))
  /\ \A F : Selecting(FeedIDs(F)) /\ Selecting(IDs(F)) /\ Selecting(Filters(F))
  /\ Selecting(UnreadOnly) /\ Selecting(FavoriteOnly) /\ Selecting(IncludeScores)
<1>1. /\ \A x, y : DOMAIN Sorting(x, y) = {"sortField", "descending"}
      /\ DOMAIN UnreadFirst = {"unreadFirst"} /\ DOMAIN HighScoredFirst = {"highScoredFirst"}
      /\ \A x, y : DOMAIN TimeRange(x, y) = {"afterDate", "beforeDate"} /\ DOMAIN IDRange(x, y) = {"afterID", "beforeID"}
      /\ \A F : DOMAIN FeedIDs(F) = {"feedIDs"} /\ DOMAIN IDs(F) = {"ids"} /\ DOMAIN Filters(F) = {"filters"}
      /\ DOMAIN UnreadOnly = {"unreadOnly"} /\ DOMAIN FavoriteOnly = {"favoriteOnly"}
      /\ DOMAIN IncludeScores = {"includeScores"}
  BY DEF Sorting, UnreadFirst, HighScoredFirst, TimeRange, IDRange, FeedIDs, IDs, Filters, UnreadOnly,
         FavoriteOnly, IncludeScores
<1>2. {"sortField", "descending", "unreadFirst", "highScoredFirst"} \cap SelectKeys = {}
  BY DEF SelectKeys, Restriction
<1> QED
  BY <1>1, <1>2 DEF Neutral, Selecting

(* The options select what the options p do, up to n articles.             *)
Amounts(o, p, n) == Agree(o, p, SelectKeys) /\ o.limit = n /\ o.offset = 0

(* The options that select are options. *)
LEMMA KnownKeys == SelectKeys \subseteq Keys /\ {"limit", "offset"} \subseteq Keys
BY DEF SelectKeys, Restriction, Keys

(* An option more. *)
LEMMA AmountsMore ==
  ASSUME NEW o, NEW p, NEW n, Amounts(o, p, n), NEW opt, Selecting(opt)
  PROVE  /\ Amounts(Override(o, opt), Override(p, opt), n)
         /\ Neutral(opt) => Amounts(Override(o, opt), p, n)
<1>1. \A x : \A k \in Keys : Override(x, opt)[k] = IF k \in DOMAIN opt THEN opt[k] ELSE x[k]
  BY OverrideField
<1>2. Override(o, opt).limit = n /\ Override(o, opt).offset = 0
  BY <1>1, KnownKeys DEF Selecting, Amounts
<1>3. Agree(Override(o, opt), Override(p, opt), SelectKeys)
  BY <1>1, KnownKeys DEF Agree, Amounts
<1>4. Neutral(opt) => Agree(Override(o, opt), p, SelectKeys)
  BY <1>1, KnownKeys DEF Agree, Amounts, Neutral
<1> QED
  BY <1>2, <1>3, <1>4 DEF Amounts

(* A limit changes nothing but the amount. *)
LEMMA AmountsPaging ==
  ASSUME NEW n
  PROVE  Amounts(Override(DefaultOptions, Paging(n, 0)), DefaultOptions, n)
<1>1. DOMAIN Paging(n, 0) = {"limit", "offset"} /\ Paging(n, 0)["limit"] = n /\ Paging(n, 0)["offset"] = 0
  BY DEF Paging
<1>2. {"limit", "offset"} \cap SelectKeys = {}
  BY DEF SelectKeys, Restriction
<1>3. \A k \in Keys : Override(DefaultOptions, Paging(n, 0))[k]
                        = IF k \in DOMAIN Paging(n, 0) THEN Paging(n, 0)[k] ELSE DefaultOptions[k]
  BY OverrideField
<1> DEFINE opt == Paging(n, 0)
<1> HIDE DEF opt
<1>4. \A k \in Keys : Override(DefaultOptions, opt)[k] = IF k \in {"limit", "offset"} THEN opt[k] ELSE DefaultOptions[k]
  BY <1>1, <1>3 DEF opt
<1>5. Agree(Override(DefaultOptions, opt), DefaultOptions, SelectKeys)
  BY <1>2, <1>4, KnownKeys DEF Agree
<1>6. Override(DefaultOptions, opt)["limit"] = opt["limit"] /\ Override(DefaultOptions, opt)["offset"] = opt["offset"]
  BY <1>4, KnownKeys
<1> QED
  BY <1>1, <1>5, <1>6 DEF Amounts, opt

(* Nothing amounts to the defaults. *)
LEMMA AmountsDefault == Amounts(DefaultOptions, DefaultOptions, 0)
BY DEF Amounts, Agree, DefaultOptions

(* Options that set different things may be swapped.                       *)
LEMMA Swap ==
  ASSUME NEW o, NEW a, NEW b, DOMAIN a \cap DOMAIN b = {}
  PROVE  Override(Override(o, a), b) = Override(Override(o, b), a)
<1>1. \A k \in Keys : Override(Override(o, a), b)[k] = Override(Override(o, b), a)[k]
  BY OverrideField
<1>2. \A x, opt : Override(x, opt) = [k \in Keys |-> Override(x, opt)[k]]
  BY KeysOfOptions DEF Override
<1> QED
  BY <1>1, <1>2

(* The options of a user *)
Base(u) == Override(DefaultOptions, Own(u))

(* The swaps that the handlers need. *)
LEMMA Swaps ==
  ASSUME NEW u, NEW F, NEW x, NEW y
  PROVE  /\ Override(Override(DefaultOptions, UnreadOnly), Own(u)) = Override(Base(u), UnreadOnly)
         /\ Override(Override(DefaultOptions, FavoriteOnly), Own(u)) = Override(Base(u), FavoriteOnly)
         /\ Override(Override(Base(u), UnreadOnly), FeedIDs(F)) = Override(Override(Base(u), FeedIDs(F)), UnreadOnly)
         /\ Override(Override(Override(DefaultOptions, TimeRange(x, y)), IncludeScores), Own(u))
              = Override(Override(Base(u), TimeRange(x, y)), IncludeScores)
<1>1. /\ DOMAIN UnreadOnly = {"unreadOnly"} /\ DOMAIN FavoriteOnly = {"favoriteOnly"} /\ DOMAIN Own(u) = {"filters"}
      /\ DOMAIN FeedIDs(F) = {"feedIDs"} /\ DOMAIN TimeRange(x, y) = {"afterDate", "beforeDate"}
      /\ DOMAIN IncludeScores = {"includeScores"}
  BY DEF UnreadOnly, FavoriteOnly, Own, Filters, FeedIDs, TimeRange, IncludeScores
<1>2. /\ DOMAIN UnreadOnly \cap DOMAIN Own(u) = {} /\ DOMAIN FavoriteOnly \cap DOMAIN Own(u) = {}
      /\ DOMAIN UnreadOnly \cap DOMAIN FeedIDs(F) = {} /\ DOMAIN TimeRange(x, y) \cap DOMAIN Own(u) = {}
      /\ DOMAIN IncludeScores \cap DOMAIN Own(u) = {}
  BY <1>1
<1>3. Override(Override(DefaultOptions, TimeRange(x, y)), Own(u)) = Override(Base(u), TimeRange(x, y))
  BY <1>2, Swap DEF Base
<1>4. Override(Override(Override(DefaultOptions, TimeRange(x, y)), IncludeScores), Own(u))
        = Override(Override(Override(DefaultOptions, TimeRange(x, y)), Own(u)), IncludeScores)
  BY <1>2, Swap
<1>5. /\ Override(Override(DefaultOptions, UnreadOnly), Own(u)) = Override(Base(u), UnreadOnly)
      /\ Override(Override(DefaultOptions, FavoriteOnly), Own(u)) = Override(Base(u), FavoriteOnly)
  BY <1>2, Swap DEF Base
<1>6. Override(Override(Base(u), UnreadOnly), FeedIDs(F)) = Override(Override(Base(u), FeedIDs(F)), UnreadOnly)
  BY <1>2, Swap
<1>7. Override(Override(Override(DefaultOptions, TimeRange(x, y)), IncludeScores), Own(u))
        = Override(Override(Base(u), TimeRange(x, y)), IncludeScores)
  BY <1>3, <1>4
<1> QED
  BY <1>5, <1>6, <1>7

(* The fields of what a query amounts to                                   *)
LEMMA BaseFields ==
  ASSUME NEW u
  PROVE  /\ Base(u).filters = filters[u]
         /\ \A k \in Keys \ {"filters"} : Base(u)[k] = DefaultOptions[k]
         /\ Base(u).includeScores = FALSE
<1>1. DOMAIN Own(u) = {"filters"} /\ Own(u)["filters"] = filters[u]
  BY DEF Own, Filters, GetUserFilters
<1> DEFINE opt == Own(u)
<1> HIDE DEF opt
<1>2. \A k \in Keys : Base(u)[k] = IF k \in {"filters"} THEN opt[k] ELSE DefaultOptions[k]
  BY <1>1, OverrideField DEF Base, opt
<1>3. "filters" \in Keys /\ "includeScores" \in Keys \ {"filters"}
  BY DEF Keys
<1>4. DefaultOptions.includeScores = FALSE
  BY DEF DefaultOptions
<1> QED
  BY <1>1, <1>2, <1>3, <1>4 DEF opt

-----------------------------------------------------------------------------
(* What a query answers when its options are known                         *)
LEMMA AnswersRows ==
  ASSUME articles \in Seq(RowsOf(Feeds)), NEW u, NEW opts, NEW p, NEW n \in Int, Amounts(Apply(opts), p, n)
  PROVE  /\ ForUser(u, opts) # {}
         /\ \A s \in ForUser(u, opts) :
              /\ ToSet(s) \subseteq Selected(u, p)
              /\ n <= 0 \/ Cardinality(Selected(u, p)) <= n => ToSet(s) = Selected(u, p)
<1>1. Selected(u, Apply(opts)) = Selected(u, p)
  BY SelectedSame DEF Amounts
<1>2. Apply(opts).limit = n /\ Apply(opts).offset = 0
  BY DEF Amounts
<1> QED
  BY <1>1, <1>2, ForUserFacts

(* The same for the IDs, which are selected without scores. *)
LEMMA AnswersIDs ==
  ASSUME articles \in Seq(RowsOf(Feeds)), NEW u, NEW opts, NEW p, NEW n \in Int, Amounts(Apply(opts), p, n),
         NEW q, Agree(p, q, SelectKeys \ {"includeScores"}), q.includeScores = FALSE
  PROVE  /\ IDsForUser(u, opts) # {}
         /\ \A ids \in IDsForUser(u, opts) :
              ids \subseteq Selected(u, q) /\ (ids = Selected(u, q) \/ (n > 0 /\ Cardinality(ids) = n))
<1> DEFINE o == [Apply(opts) EXCEPT !.includeScores = FALSE]
<1>1. o.includeScores = FALSE /\ \A k \in Keys \ {"includeScores"} : o[k] = Apply(opts)[k]
  BY Unscored
<1> HIDE DEF o
<1>2. Agree(o, q, SelectKeys)
  BY <1>1, KnownKeys DEF Agree, Amounts
<1>3. Selected(u, o) = Selected(u, q)
  BY <1>2, SelectedSame
<1>4. Apply(opts).limit = n /\ Apply(opts).offset = 0
  BY DEF Amounts
<1>5. /\ IDsForUser(u, opts) # {}
      /\ \A ids \in IDsForUser(u, opts) :
           /\ ids \subseteq Selected(u, o)
           /\ ids = Selected(u, o) \/ (Apply(opts).limit > 0 /\ Cardinality(ids) = Apply(opts).limit)
  BY <1>4, IDsFacts DEF o
<1> QED
  BY <1>3, <1>4, <1>5

-----------------------------------------------------------------------------
(* The lists of Fever and TT-RSS *)
Unreads(u) == Override(Base(u), UnreadOnly)
Favorites(u) == Override(Base(u), FavoriteOnly)

(* The lists of IDs go without scores. *)
LEMMA NoScores ==
  ASSUME NEW u, NEW F
  PROVE  /\ Base(u).includeScores = FALSE
         /\ Unreads(u).includeScores = FALSE /\ Favorites(u).includeScores = FALSE
         /\ Override(Base(u), FeedIDs(F)).includeScores = FALSE
         /\ Override(Unreads(u), FeedIDs(F)).includeScores = FALSE
<1>1. "includeScores" \in Keys
  BY DEF Keys
<1>2. "includeScores" \notin DOMAIN UnreadOnly /\ "includeScores" \notin DOMAIN FavoriteOnly /\ "includeScores" \notin DOMAIN FeedIDs(F)
  BY DEF UnreadOnly, FavoriteOnly, FeedIDs
<1>3. \A o, opt : "includeScores" \notin DOMAIN opt => Override(o, opt)["includeScores"] = o["includeScores"]
  BY <1>1, OverrideField
<1>4. Base(u)["includeScores"] = FALSE
  BY BaseFields
<1>5. Unreads(u)["includeScores"] = FALSE /\ Favorites(u)["includeScores"] = FALSE
  BY <1>2, <1>3, <1>4 DEF Unreads, Favorites
<1>6. Override(Base(u), FeedIDs(F))["includeScores"] = FALSE /\ Override(Unreads(u), FeedIDs(F))["includeScores"] = FALSE
  BY <1>2, <1>3, <1>4, <1>5
<1> QED
  BY <1>4, <1>5, <1>6

(* Options agree with themselves. *)
LEMMA Sames == \A o, K : Agree(o, o, K)
BY DEF Agree

(* Fever lists all unread articles and all favourites. *)
LEMMA FeverLists ==
  ASSUME articles \in Seq(RowsOf(Feeds)), NEW u
  PROVE  UnreadItemIDs(u) = {Selected(u, Unreads(u))} /\ SavedItemIDs(u) = {Selected(u, Favorites(u))}
<1>1. ASSUME NEW a, Selecting(a), NEW q, q.includeScores = FALSE,
             Override(Override(DefaultOptions, a), Own(u)) = q
      PROVE  IDsForUser(u, <<a, Own(u)>>) = {Selected(u, q)}
  <2>1. Apply(<<a, Own(u)>>) = q
    BY <1>1, ShortLists
  <2>2. Amounts(Override(DefaultOptions, a), Override(DefaultOptions, a), 0)
    BY <1>1, AmountsMore, AmountsDefault
  <2>3. Selecting(Own(u))
    BY OptionKinds DEF Own
  <2>4. Amounts(q, q, 0)
    BY <1>1, <2>2, <2>3, AmountsMore
  <2>5. /\ IDsForUser(u, <<a, Own(u)>>) # {}
        /\ \A ids \in IDsForUser(u, <<a, Own(u)>>) : ids = Selected(u, q)
    <3>1. Amounts(Apply(<<a, Own(u)>>), q, 0) /\ 0 \in Int /\ ~(0 > 0)
      BY <2>1, <2>4
    <3> QED
      BY <1>1, <3>1, AnswersIDs, Sames
  <2> QED
    BY <2>5
<1>2. Selecting(UnreadOnly) /\ Selecting(FavoriteOnly)
  BY OptionKinds
<1>3. /\ Override(Override(DefaultOptions, UnreadOnly), Own(u)) = Unreads(u)
      /\ Override(Override(DefaultOptions, FavoriteOnly), Own(u)) = Favorites(u)
  BY Swaps DEF Unreads, Favorites
<1>4. UnreadItemIDs(u) = IDsForUser(u, <<UnreadOnly, Own(u)>>) /\ SavedItemIDs(u) = IDsForUser(u, <<FavoriteOnly, Own(u)>>)
  BY DEF UnreadItemIDs, SavedItemIDs
<1>5. IDsForUser(u, <<UnreadOnly, Own(u)>>) = {Selected(u, Unreads(u))}
  BY <1>1, <1>2, <1>3, NoScores
<1>6. IDsForUser(u, <<FavoriteOnly, Own(u)>>) = {Selected(u, Favorites(u))}
  BY <1>1, <1>2, <1>3, NoScores
<1> QED
  BY <1>4, <1>5, <1>6

(* A request for headlines, the sets that it may answer and its first options *)
HeadlineRequest(id, mode) ==
  [feedID |-> id, isCat |-> FALSE, viewMode |-> mode, limit |-> 0, skip |-> 0,
   sinceID |-> 0, search |-> NoWord, orderBy |-> "feed_dates"]

Headlines(u, id, mode) == {ToSet(s) : s \in GetHeadlines(u, HeadlineRequest(id, mode))}

HeadlineOptions(u) == <<Paging(200, 0), UnreadFirst, Own(u), Sorting("date", TRUE)>>

(* What the headlines of every feed have in common. *)
LEMMA HeadlinePrefix ==
  ASSUME NEW u
  PROVE  IsList(HeadlineOptions(u)) /\ Amounts(Apply(HeadlineOptions(u)), Base(u), 200)
<1> DEFINE s1 == <<Paging(200, 0)>>
           s2 == <<Paging(200, 0), UnreadFirst>>
           s3 == Append(s2, Own(u))
           s4 == Append(s3, Sorting("date", TRUE))
<1>1. s4 = HeadlineOptions(u)
  <2> DEFINE a == Paging(200, 0)
             c == Own(u)
             d == Sorting("date", TRUE)
  <2>1. HeadlineOptions(u) = <<a, UnreadFirst, c, d>>
    BY DEF HeadlineOptions
  <2> HIDE DEF a, c, d
  <2>2. <<a, UnreadFirst, c>> = Append(<<a, UnreadFirst>>, c)
    OBVIOUS
  <2>3. <<a, UnreadFirst, c, d>> = Append(<<a, UnreadFirst, c>>, d)
    OBVIOUS
  <2>4. s4 = Append(Append(<<a, UnreadFirst>>, c), d)
    BY DEF a, c, d
  <2> QED
    BY <2>1, <2>2, <2>3, <2>4
<1>2. IsList(s1) /\ Amounts(Apply(s1), DefaultOptions, 200)
  BY ShortLists, AmountsPaging
<1>3. IsList(s2) /\ Amounts(Apply(s2), DefaultOptions, 200)
  <2>1. Apply(s2) = Override(Apply(s1), UnreadFirst) /\ IsList(s2)
    BY ShortLists
  <2>2. Neutral(UnreadFirst) /\ Selecting(UnreadFirst)
    BY OptionKinds DEF Neutral
  <2> HIDE DEF s1, s2
  <2> QED
    BY <1>2, <2>1, <2>2, AmountsMore
<1> HIDE DEF s1, s2
<1>4. IsList(s3) /\ Amounts(Apply(s3), Base(u), 200)
  <2>1. Apply(s3) = Override(Apply(s2), Own(u)) /\ IsList(s3)
    BY <1>3, Lists
  <2>2. Selecting(Own(u))
    BY OptionKinds DEF Own
  <2> HIDE DEF s3
  <2> QED
    BY <1>3, <2>1, <2>2, AmountsMore DEF Base
<1> HIDE DEF s3
<1>5. IsList(s4) /\ Amounts(Apply(s4), Base(u), 200)
  <2>1. Apply(s4) = Override(Apply(s3), Sorting("date", TRUE)) /\ IsList(s4)
    BY <1>4, Lists
  <2>2. Neutral(Sorting("date", TRUE)) /\ Selecting(Sorting("date", TRUE))
    BY OptionKinds DEF Neutral
  <2> HIDE DEF s4
  <2> QED
    BY <1>4, <2>1, <2>2, AmountsMore
<1> HIDE DEF s4
<1> QED
  BY <1>1, <1>5

(* The headlines of a scope and a view are one query. *)
LEMMA HeadlineQuery ==
  ASSUME NEW u, NEW id, id # 0, NEW mode, NEW scope, NEW view,
         HeadlineScope(u, HeadlineRequest(id, mode)) = {scope}, HeadlineView(mode) = {view}
  PROVE  GetHeadlines(u, HeadlineRequest(id, mode)) = ForUser(u, HeadlineOptions(u) \o scope \o view)
<1> DEFINE r == HeadlineRequest(id, mode)
           opts == <<Paging(IF r.limit = 0 THEN 200 ELSE r.limit, r.skip), UnreadFirst, Own(u),
                     Sorting("date", r.orderBy # "date_reverse")>>
                   \o IF r.sinceID > 0 THEN <<IDRange(0, r.sinceID)>> ELSE <<>>
<1>1. /\ r.feedID = id /\ r.viewMode = mode /\ r.limit = 0 /\ r.skip = 0 /\ r.sinceID = 0 /\ r.search = NoWord
      /\ r.orderBy = "feed_dates"
  BY DEF HeadlineRequest
<1> HIDE DEF r
<1>2. opts = HeadlineOptions(u)
  <2>1. ~(r.sinceID > 0) /\ (r.orderBy # "date_reverse") = TRUE
    BY <1>1
  <2>2. opts = HeadlineOptions(u) \o <<>>
    BY <1>1, <2>1 DEF HeadlineOptions
  <2> QED
    BY <2>2, HeadlinePrefix, Lists
<1>3. GetHeadlines(u, r) = UNION {ForUser(u, opts \o sc \o vi) : sc \in HeadlineScope(u, r), vi \in HeadlineView(r.viewMode)}
  BY <1>1 DEF GetHeadlines
<1> HIDE DEF opts
<1>4. GetHeadlines(u, r) = UNION {ForUser(u, opts \o sc \o vi) : sc \in {scope}, vi \in {view}}
  BY <1>1, <1>3 DEF r
<1> QED
  BY <1>2, <1>4 DEF r

(* Headlines that fit the limit are all that is selected. *)
LEMMA HeadlineAnswer ==
  ASSUME articles \in Seq(RowsOf(Feeds)), NEW u, NEW id, NEW mode, NEW opts, NEW p,
         GetHeadlines(u, HeadlineRequest(id, mode)) = ForUser(u, opts), Amounts(Apply(opts), p, 200),
         Cardinality(Selected(u, p)) <= 200
  PROVE  Headlines(u, id, mode) = {Selected(u, p)}
<1>1. /\ ForUser(u, opts) # {}
      /\ \A s \in ForUser(u, opts) : ToSet(s) = Selected(u, p)
  BY AnswersRows
<1> QED
  BY <1>1 DEF Headlines

(* The headlines of all feeds, of the favourites and of one feed. *)
LEMMA HeadlineLists ==
  ASSUME articles \in Seq(RowsOf(Feeds)), NEW u
  PROVE  /\ Cardinality(Selected(u, Unreads(u))) <= 200 => Headlines(u, ALL_ID, "unread") = {Selected(u, Unreads(u))}
         /\ Cardinality(Selected(u, Favorites(u))) <= 200
              => Headlines(u, FAVORITE_ID, "adaptive") = {Selected(u, Favorites(u))}
         /\ \A f \in Nat \ {0} :
              /\ <<u, f>> \in members
              /\ Cardinality(Selected(u, Override(Unreads(u), FeedIDs({f})))) <= 200
              => Headlines(u, f, "unread") = {Selected(u, Override(Unreads(u), FeedIDs({f})))}
<1> DEFINE h == HeadlineOptions(u)
<1>1. IsList(h) /\ Amounts(Apply(h), Base(u), 200)
  BY HeadlinePrefix
<1>2. HeadlineView("unread") = {<<UnreadOnly>>} /\ HeadlineView("adaptive") = {<<>>}
  <2>1. HeadlineView("unread") = {<<UnreadOnly>>}
    BY Zenon DEF HeadlineView
  <2>2. HeadlineView("adaptive") = {<<>>}
    BY Zenon DEF HeadlineView
  <2> QED
    BY <2>1, <2>2
<1>3. ASSUME NEW id, NEW mode
      PROVE  HeadlineRequest(id, mode).feedID = id /\ HeadlineRequest(id, mode).isCat = FALSE
  BY DEF HeadlineRequest
<1>4. HeadlineScope(u, HeadlineRequest(ALL_ID, "unread")) = {<<>>}
  <2> DEFINE r == HeadlineRequest(ALL_ID, "unread")
  <2>1. ~(r.feedID > 0) /\ r.feedID # FAVORITE_ID /\ r.feedID # FRESH_ID
    <3>1. r.feedID = ALL_ID /\ r.isCat = FALSE
      BY <1>3
    <3> HIDE DEF r
    <3> QED
      BY <3>1 DEF ALL_ID, FAVORITE_ID, FRESH_ID
  <2> HIDE DEF r
  <2>2. HeadlineScope(u, r) = {<<>>}
    BY <2>1, Zenon DEF HeadlineScope
  <2> QED
    BY <2>2 DEF r
<1>5. HeadlineScope(u, HeadlineRequest(FAVORITE_ID, "adaptive")) = {<<FavoriteOnly>>}
  <2> DEFINE r == HeadlineRequest(FAVORITE_ID, "adaptive")
  <2>1. ~(r.feedID > 0) /\ r.feedID = FAVORITE_ID /\ ~r.isCat /\ r.feedID # FRESH_ID
    <3>1. r.feedID = FAVORITE_ID /\ r.isCat = FALSE
      BY <1>3
    <3> HIDE DEF r
    <3> QED
      BY <3>1 DEF FAVORITE_ID, FRESH_ID
  <2> HIDE DEF r
  <2>2. HeadlineScope(u, r) = {<<FavoriteOnly>>}
    BY <2>1, Zenon DEF HeadlineScope
  <2> QED
    BY <2>2 DEF r
<1>6. ASSUME NEW f \in Nat \ {0}, <<u, f>> \in members
      PROVE  HeadlineScope(u, HeadlineRequest(f, "unread")) = {<<FeedIDs({f})>>}
  <2> DEFINE r == HeadlineRequest(f, "unread")
  <2>1. r.feedID > 0 /\ r.feedID # FAVORITE_ID /\ r.feedID # FRESH_ID /\ r.feedID = f /\ r.isCat = FALSE
    <3>1. r.feedID = f /\ r.isCat = FALSE
      BY <1>3
    <3> HIDE DEF r
    <3> QED
      BY <3>1 DEF FAVORITE_ID, FRESH_ID
  <2> HIDE DEF r
  <2>2. HeadlineScope(u, r) = Chosen(u, r.isCat, r.feedID)
    BY <2>1, Zenon DEF HeadlineScope
  <2>3. Chosen(u, FALSE, f) = {<<FeedIDs({f})>>}
    BY <1>6 DEF Chosen
  <2> QED
    BY <2>1, <2>2, <2>3 DEF r
<1>7. h \o <<>> = h
  BY <1>1, Appends
<1>8. Selecting(UnreadOnly) /\ Selecting(FavoriteOnly) /\ \A F : Selecting(FeedIDs(F))
  BY OptionKinds
<1> HIDE DEF h
<1>9. Amounts(Apply(h \o <<>> \o <<UnreadOnly>>), Unreads(u), 200)
  BY <1>1, <1>7, <1>8, Appends, AmountsMore DEF Unreads
<1>10. Amounts(Apply(h \o <<FavoriteOnly>> \o <<>>), Favorites(u), 200)
  <2>1. h \o <<FavoriteOnly>> \o <<>> = h \o <<FavoriteOnly>>
    BY <1>1, Appends
  <2> QED
    BY <1>1, <1>8, <2>1, Appends, AmountsMore DEF Favorites
<1>11. ASSUME NEW F PROVE Amounts(Apply(h \o <<FeedIDs(F)>> \o <<UnreadOnly>>), Override(Unreads(u), FeedIDs(F)), 200)
  <2> DEFINE s == h \o <<FeedIDs(F)>>
  <2>1. IsList(s) /\ Apply(s) = Override(Apply(h), FeedIDs(F))
    BY <1>1, Appends
  <2>2. Amounts(Apply(s), Override(Base(u), FeedIDs(F)), 200)
    BY <1>1, <1>8, <2>1, AmountsMore
  <2> HIDE DEF s
  <2>3. Amounts(Apply(s \o <<UnreadOnly>>), Override(Override(Base(u), FeedIDs(F)), UnreadOnly), 200)
    BY <1>8, <2>1, <2>2, Appends, AmountsMore
  <2> QED
    BY <2>3, Swaps DEF Unreads, s
<1>12. Cardinality(Selected(u, Unreads(u))) <= 200 => Headlines(u, ALL_ID, "unread") = {Selected(u, Unreads(u))}
  <2>1. GetHeadlines(u, HeadlineRequest(ALL_ID, "unread")) = ForUser(u, h \o <<>> \o <<UnreadOnly>>)
    <3>1. ALL_ID # 0
      BY DEF ALL_ID
    <3>2. \A e : HeadlineScope(u, HeadlineRequest(ALL_ID, "unread")) = {e}
                  => GetHeadlines(u, HeadlineRequest(ALL_ID, "unread")) = ForUser(u, h \o e \o <<UnreadOnly>>)
      BY <1>2, <3>1, HeadlineQuery DEF h
    <3> QED
      BY <1>4, <3>2, Zenon
  <2> QED
    BY <1>9, <2>1, HeadlineAnswer
<1>13. Cardinality(Selected(u, Favorites(u))) <= 200
         => Headlines(u, FAVORITE_ID, "adaptive") = {Selected(u, Favorites(u))}
  <2>1. GetHeadlines(u, HeadlineRequest(FAVORITE_ID, "adaptive")) = ForUser(u, h \o <<FavoriteOnly>> \o <<>>)
    <3>1. FAVORITE_ID # 0
      BY DEF FAVORITE_ID
    <3>2. \A e : HeadlineView("adaptive") = {e}
                  => GetHeadlines(u, HeadlineRequest(FAVORITE_ID, "adaptive")) = ForUser(u, h \o <<FavoriteOnly>> \o e)
      BY <1>5, <3>1, HeadlineQuery DEF h
    <3> QED
      BY <1>2, <3>2, Zenon
  <2> QED
    BY <1>10, <2>1, HeadlineAnswer
<1>14. ASSUME NEW f \in Nat \ {0}, <<u, f>> \in members,
              Cardinality(Selected(u, Override(Unreads(u), FeedIDs({f})))) <= 200
       PROVE  Headlines(u, f, "unread") = {Selected(u, Override(Unreads(u), FeedIDs({f})))}
  <2>1. GetHeadlines(u, HeadlineRequest(f, "unread")) = ForUser(u, h \o <<FeedIDs({f})>> \o <<UnreadOnly>>)
    <3>1. f # 0 /\ HeadlineScope(u, HeadlineRequest(f, "unread")) = {<<FeedIDs({f})>>}
      BY <1>6, <1>14
    <3>2. \A e : HeadlineView("unread") = {e}
                  => GetHeadlines(u, HeadlineRequest(f, "unread")) = ForUser(u, h \o <<FeedIDs({f})>> \o e)
      BY <3>1, HeadlineQuery DEF h
    <3> QED
      BY <1>2, <3>2, Zenon
  <2>2. Amounts(Apply(h \o <<FeedIDs({f})>> \o <<UnreadOnly>>), Override(Unreads(u), FeedIDs({f})), 200)
    BY <1>11
  <2> QED
    BY <1>14, <2>1, <2>2, HeadlineAnswer
<1> QED
  BY <1>12, <1>13, <1>14

(* The numbers of getCounters, getUnread, getCategories and Fever. *)
LEMMA CountersAgree ==
  ASSUME articles \in Seq(RowsOf(Feeds)), members \subseteq Users \X Feeds, TagsKnown, NEW u \in Users
  PROVE  LET given == GetCounters(u)
         IN  /\ GetCategories(u, FALSE) \ given.categories \subseteq {CAT_SPECIAL} \X Nat
             /\ \A ids \in UnreadItemIDs(u) : given.globalUnread = Cardinality(ids)
             /\ GetUnread(u, FALSE, ALL_ID) = {given.all}
             /\ \A e \in given.feeds : GetUnread(u, FALSE, e[1]) = {e[2]}
<1> DEFINE given == GetCounters(u)
           fs == filters[u]
<1>1. GetCategories(u, FALSE) \ given.categories \subseteq {CAT_SPECIAL} \X Nat
  <2>1. Unread(u, <<FavoriteOnly>>) \in Nat
    BY ShownFinite, FS_CardinalityType DEF Unread, Count
  <2> QED
    BY <2>1 DEF GetCategories, GetCounters
<1>2. \A ids \in UnreadItemIDs(u) : given.globalUnread = Cardinality(ids)
  <2> DEFINE opts == <<UnreadOnly, Own(u)>>
             o == [Apply(opts) EXCEPT !.includeScores = FALSE]
  <2>1. given.globalUnread = Cardinality(Selected(u, o))
    BY Triples DEF GetCounters, Unread, Count
  <2>2. Apply(opts) = Unreads(u)
    <3>1. Apply(<<UnreadOnly>>) = Override(DefaultOptions, UnreadOnly)
      BY ShortLists, Zenon
    <3>2. Apply(<<UnreadOnly, Own(u)>>) = Override(Apply(<<UnreadOnly>>), Own(u))
      BY ShortLists, Zenon
    <3>3. Override(Override(DefaultOptions, UnreadOnly), Own(u)) = Override(Base(u), UnreadOnly)
      BY Swaps, Zenon
    <3> QED
      BY <3>1, <3>2, <3>3 DEF Unreads
  <2>3. /\ o.includeScores = FALSE
        /\ \A k \in Keys \ {"includeScores"} : o[k] = Apply(opts)[k]
    BY Unscored
  <2> HIDE DEF o
  <2>4. Agree(o, Unreads(u), SelectKeys)
    BY <2>2, <2>3, NoScores, KnownKeys DEF Agree
  <2>5. Selected(u, o) = Selected(u, Unreads(u))
    BY <2>4, SelectedSame
  <2>6. UnreadItemIDs(u) = {Selected(u, Unreads(u))}
    BY FeverLists
  <2> QED
    BY <2>1, <2>5, <2>6
<1>3. GetUnread(u, FALSE, ALL_ID) = {given.all}
  <2>1. ~(ALL_ID > 0) /\ ALL_ID # FAVORITE_ID /\ ALL_ID # FRESH_ID
    BY DEF ALL_ID, FAVORITE_ID, FRESH_ID
  <2>2. GetUnread(u, FALSE, ALL_ID) = {Count(u, <<Own(u)>> \o o) : o \in {<<>>}}
    BY <2>1 DEF GetUnread
  <2>3. given.all = Count(u, <<Own(u)>>)
    BY DEF GetCounters
  <2> QED
    BY <2>2, <2>3, Triples
<1>4. ASSUME NEW e \in given.feeds PROVE GetUnread(u, FALSE, e[1]) = {e[2]}
  <2>1. PICK f \in FeedsForUser(u) : e = <<f, Count(u, <<FeedIDs({f}), Own(u)>>)>>
    BY <1>4 DEF GetCounters
  <2>2. f \in Nat /\ f > 0 /\ <<u, f>> \in members
    BY NamesAssumption DEF FeedsForUser
  <2>3. GetUnread(u, FALSE, f) = {Count(u, <<Own(u)>> \o o) : o \in {<<FeedIDs({f})>>}}
    <3>1. Chosen(u, FALSE, f) = {<<FeedIDs({f})>>}
      BY <2>2 DEF Chosen
    <3> QED
      <4> DEFINE opts == CASE f > 0 -> Chosen(u, FALSE, f)
                           [] FALSE /\ f = CAT_UNCATEGORIZED -> {<<UntaggedOnly>>}
                           [] f = FAVORITE_ID -> {<<FavoriteOnly>>}
                           [] ~FALSE /\ f = FRESH_ID -> {<<TimeRange(DayAgo, 0)>>}
                           [] OTHER -> {<<>>}
      <4>1. opts = Chosen(u, FALSE, f)
        <5>1. f > 0 /\ f # FAVORITE_ID /\ f # FRESH_ID
          BY <2>2 DEF FAVORITE_ID, FRESH_ID
        <5> QED
          BY <5>1, Zenon
      <4>2. GetUnread(u, FALSE, f) = {Count(u, <<Own(u)>> \o o) : o \in opts}
        BY DEF GetUnread
      <4> HIDE DEF opts
      <4> QED
        BY <3>1, <4>1, <4>2
  <2>4. GetUnread(u, FALSE, f) = {Count(u, <<Own(u), FeedIDs({f})>>)}
    BY <2>3, Pair
  <2>5. Apply(<<Own(u), FeedIDs({f})>>) = Apply(<<FeedIDs({f}), Own(u)>>)
    <3> DEFINE a == Own(u)
               b == FeedIDs({f})
    <3>1. DOMAIN a = {"filters"} /\ DOMAIN b = {"feedIDs"}
      BY DEF Own, Filters, FeedIDs
    <3> HIDE DEF a, b
    <3>2. \A k \in Keys : /\ Apply(<<a, b>>)[k] = IF k \in DOMAIN b THEN b[k]
                                                 ELSE IF k \in DOMAIN a THEN a[k] ELSE DefaultOptions[k]
                          /\ Apply(<<b, a>>)[k] = IF k \in DOMAIN a THEN a[k]
                                                 ELSE IF k \in DOMAIN b THEN b[k] ELSE DefaultOptions[k]
      BY OptionFields
    <3>3. \A k \in Keys : Apply(<<a, b>>)[k] = Apply(<<b, a>>)[k]
      BY <3>1, <3>2
    <3>4. \A opts : Apply(opts) = [k \in Keys |-> Apply(opts)[k]]
      BY KeysOfOptions DEF Apply
    <3>5. Apply(<<a, b>>) = Apply(<<b, a>>)
      BY <3>3, <3>4
    <3> QED
      BY <3>5 DEF a, b
  <2> QED
    BY <2>1, <2>4, <2>5 DEF Count
<1> QED
  BY <1>1, <1>2, <1>3, <1>4

(* The numbers of unread articles that TT-RSS and Fever give add up and
   agree for every tag, feed and subscription. *)
THEOREM CountsAddUp == Spec => []CategoriesAddUp
<1>1. ASSUME LInv, NEW u \in Users, Plain(u)
      PROVE  LET tree == GetFeedTree(u)
                 given == GetCounters(u)
                 shown(c) == IF c \in DOMAIN tree THEN {e \in tree[c] : e[2] > 0} ELSE {}
             IN  /\ \A e \in GetCategories(u, FALSE) :
                      e[1] # CAT_SPECIAL => e[2] = SumOf(shown(e[1])) /\ GetFeeds(u, e[1], 0, 0, TRUE) = shown(e[1])
                 /\ GetCategories(u, FALSE) \ given.categories \subseteq {CAT_SPECIAL} \X Nat
                 /\ \A ids \in UnreadItemIDs(u) : given.globalUnread = Cardinality(ids)
                 /\ GetUnread(u, FALSE, ALL_ID) = {given.all}
                 /\ \A e \in given.feeds : GetUnread(u, FALSE, e[1]) = {e[2]}
  <2> DEFINE tree == GetFeedTree(u)
             shown(c) == IF c \in DOMAIN tree THEN {e \in tree[c] : e[2] > 0} ELSE {}
  <2>1. articles \in Seq(RowsOf(Feeds)) /\ members \subseteq Users \X Feeds /\ TagsKnown
    BY <1>1 DEF LInv, RInv, OInv, TInv
  <2>2. ASSUME NEW e \in GetCategories(u, FALSE), e[1] # CAT_SPECIAL
        PROVE  e[2] = SumOf(shown(e[1])) /\ GetFeeds(u, e[1], 0, 0, TRUE) = shown(e[1])
    <3>1. /\ e[1] \in DOMAIN tree
          /\ e[2] = SumOf({x \in tree[e[1]] : x[2] > 0})
          /\ GetFeeds(u, e[1], 0, 0, TRUE) = {x \in tree[e[1]] : x[2] > 0}
      BY <1>1, <2>1, <2>2, AddsUp
    <3>2. shown(e[1]) = {x \in tree[e[1]] : x[2] > 0}
      BY <3>1
    <3> HIDE DEF shown, tree
    <3> QED
      BY <3>1, <3>2
  <2>3. LET given == GetCounters(u)
        IN  /\ GetCategories(u, FALSE) \ given.categories \subseteq {CAT_SPECIAL} \X Nat
            /\ \A ids \in UnreadItemIDs(u) : given.globalUnread = Cardinality(ids)
            /\ GetUnread(u, FALSE, ALL_ID) = {given.all}
            /\ \A e \in given.feeds : GetUnread(u, FALSE, e[1]) = {e[2]}
    BY <2>1, CountersAgree
  <2> HIDE DEF shown
  <2> QED
    BY <2>2, <2>3 DEF shown
<1>2. LInv => CategoriesAddUp
  BY <1>1 DEF CategoriesAddUp, Plain
<1> QED
  BY LInvariant, <1>2, PTL

-----------------------------------------------------------------------------
(* The lists of REST *)
UnreadQuery == [NoQuery EXCEPT !.unreadOnly = TRUE]
Asking(q) == IF q.unreadOnly THEN Override(DefaultOptions, UnreadOnly) ELSE DefaultOptions
Limit(max) == IF max > 0 THEN max ELSE 0

(* What a query of REST amounts to, before the route adds to it. *)
LEMMA RestPrefix ==
  ASSUME NEW q \in {NoQuery, UnreadQuery}, NEW max \in Int
  PROVE  IsList(ArticleQueryOptions(q, max)) /\ Amounts(Apply(ArticleQueryOptions(q, max)), Asking(q), Limit(max))
<1> DEFINE s1 == <<Paging(Limit(max), 0)>>
           s2 == IF q.unreadOnly THEN s1 \o <<UnreadOnly>> ELSE s1
           s3 == s2 \o <<Sorting("date", TRUE)>>
<1>1. /\ q.limit = 0 /\ q.afterID = 0 /\ q.beforeID = 0 /\ q.afterTime = 0 /\ q.beforeTime = 0
      /\ q.afterScore = 0 /\ q.beforeScore = 0 /\ q.id = {} /\ q.unreadOnly \in BOOLEAN
      /\ q.readOnly = FALSE /\ q.unreadFirst = FALSE /\ q.olderFirst = FALSE
  <2>1. CASE q = NoQuery
    BY <2>1 DEF NoQuery
  <2>2. CASE q = UnreadQuery
    BY <2>2 DEF NoQuery, UnreadQuery
  <2> QED
    BY <2>1, <2>2
<1>2. Selecting(UnreadOnly) /\ Neutral(Sorting("date", TRUE)) /\ Selecting(Sorting("date", TRUE))
  BY OptionKinds DEF Neutral
<1>3. IsList(s1) /\ Amounts(Apply(s1), DefaultOptions, Limit(max))
  BY ShortLists, AmountsPaging
<1> HIDE DEF s1
<1>4. IsList(s2) /\ Amounts(Apply(s2), Asking(q), Limit(max))
  <2>1. CASE q.unreadOnly
    <3>1. s2 = s1 \o <<UnreadOnly>> /\ Asking(q) = Override(DefaultOptions, UnreadOnly)
      BY <2>1 DEF Asking
    <3> HIDE DEF s2
    <3> QED
      BY <1>2, <1>3, <3>1, Appends, AmountsMore
  <2>2. CASE ~q.unreadOnly
    BY <1>3, <2>2 DEF Asking
  <2> QED
    BY <2>1, <2>2
<1> HIDE DEF s2
<1>5. IsList(s3) /\ Amounts(Apply(s3), Asking(q), Limit(max))
  <2>1. IsList(s3) /\ Apply(s3) = Override(Apply(s2), Sorting("date", TRUE))
    BY <1>4, Appends
  <2> HIDE DEF s3
  <2> QED
    BY <1>2, <1>4, <2>1, AmountsMore
<1> HIDE DEF s3
<1>6. ArticleQueryOptions(q, max) = s3
  <2> DEFINE when(c, opt) == IF c THEN <<opt>> ELSE <<>>
             t1 == <<Paging(IF max > 0 /\ (q.limit = 0 \/ q.limit > max) THEN max ELSE q.limit, 0)>>
             t2 == t1 \o when(q.afterID > 0 \/ q.beforeID > 0, IDRange(q.afterID, q.beforeID))
             t3 == t2 \o when(q.afterTime > 0 \/ q.beforeTime > 0, TimeRange(q.afterTime, q.beforeTime))
             t4 == t3 \o when(q.afterScore > 0 \/ q.beforeScore > 0, ScoreRange(q.afterScore, q.beforeScore))
             t5 == t4 \o when(q.id # {}, IDs(q.id))
             t6 == t5 \o when(q.unreadOnly, UnreadOnly)
             t7 == t6 \o when(q.readOnly, ReadOnly)
             t8 == t7 \o when(q.unreadFirst, UnreadFirst)
             t9 == t8 \o <<Sorting("date", ~q.olderFirst)>>
  <2> HIDE DEF UnreadQuery
  <2>0. ArticleQueryOptions(q, max) = t9
    BY DEF ArticleQueryOptions
  <2>1. t1 = s1
    <3>1. (max > 0 /\ (q.limit = 0 \/ q.limit > max)) <=> max > 0
      BY <1>1
    <3> QED
      BY <1>1, <3>1 DEF s1, Limit
  <2>2. s1 \o <<>> = s1 /\ s2 \o <<>> = s2
    BY <1>3, <1>4, Appends
  <2> HIDE DEF t1
  <2>3. t2 = s1
    BY <1>1, <2>1, <2>2
  <2> HIDE DEF t2
  <2>4. t3 = s1
    BY <1>1, <2>2, <2>3
  <2> HIDE DEF t3
  <2>5. t4 = s1
    BY <1>1, <2>2, <2>4
  <2> HIDE DEF t4
  <2>6. t5 = s1
    BY <1>1, <2>2, <2>5
  <2> HIDE DEF t5
  <2>7. t6 = s2
    <3>1. t6 = t5 \o (IF q.unreadOnly THEN <<UnreadOnly>> ELSE <<>>)
      OBVIOUS
    <3>2. s2 = IF q.unreadOnly THEN s1 \o <<UnreadOnly>> ELSE s1
      BY DEF s2
    <3> HIDE DEF t6
    <3> QED
      BY <2>2, <2>6, <3>1, <3>2
  <2> HIDE DEF t6
  <2>8. t7 = s2
    BY <1>1, <2>2, <2>7
  <2> HIDE DEF t7
  <2>9. t8 = s2
    BY <1>1, <2>2, <2>8
  <2> HIDE DEF t8
  <2> QED
    BY <1>1, <2>0, <2>9 DEF s3
<1> QED
  BY <1>5, <1>6

(* What a route adds to the options                                        *)
Routed(p, type, F, until) ==
  CASE type = "user" -> p
    [] type = "favorite" -> Override(p, FavoriteOnly)
    [] type = "feed" -> Override(p, FeedIDs(F))
    [] type = "popular" -> Override(Override(p, IncludeScores), TimeRange(FiveDaysAgo, until))
    [] type = "popular/tag" ->
         Override(Override(Override(p, IncludeScores), TimeRange(FiveDaysAgo, until)), FeedIDs(F))

RouteTypes == {"user", "favorite", "feed", "popular", "popular/tag"}

(* The options of a route after those of the query. *)
LEMMA RouteAmounts ==
  ASSUME NEW s, IsList(s), NEW p, NEW n, Amounts(Apply(s), p, n), NEW type \in RouteTypes, NEW F, NEW until
  PROVE  Amounts(Apply(s \o RepoTypeOptions(type, F, until)), Routed(p, type, F, until), n)
<1> DEFINE added == RepoTypeOptions(type, F, until)
           range == TimeRange(FiveDaysAgo, until)
           s1 == s \o <<IncludeScores>>
           s2 == s1 \o <<HighScoredFirst>>
           s3 == s2 \o <<range>>
           s4 == s3 \o <<FeedIDs(F)>>
<1>1. /\ Selecting(FavoriteOnly) /\ Selecting(FeedIDs(F)) /\ Selecting(IncludeScores) /\ Selecting(range)
      /\ Selecting(HighScoredFirst) /\ Neutral(HighScoredFirst)
  BY OptionKinds DEF Neutral
<1>2. CASE type = "user"
  <2>1. added = <<>> /\ Routed(p, type, F, until) = p
    BY <1>2, Zenon DEF RepoTypeOptions, Routed
  <2> HIDE DEF added
  <2>2. s \o added = s
    BY <2>1, Appends
  <2> QED
    BY <2>1, <2>2 DEF added
<1>3. CASE type = "favorite"
  <2>1. added = <<FavoriteOnly>> /\ Routed(p, type, F, until) = Override(p, FavoriteOnly)
    BY <1>3, Zenon DEF RepoTypeOptions, Routed
  <2> HIDE DEF added
  <2>2. Amounts(Apply(s \o added), Override(p, FavoriteOnly), n)
    BY <1>1, <2>1, Appends, AmountsMore
  <2> QED
    BY <2>1, <2>2 DEF added
<1>4. CASE type = "feed"
  <2>1. added = <<FeedIDs(F)>>
    <3>1. type \in {"tag", "feed"}
      BY <1>4
    <3> QED
      BY <1>4, <3>1, Zenon DEF RepoTypeOptions
  <2>2. Routed(p, type, F, until) = Override(p, FeedIDs(F))
    BY <1>4, Zenon DEF Routed
  <2> HIDE DEF added
  <2>3. Amounts(Apply(s \o added), Override(p, FeedIDs(F)), n)
    BY <1>1, <2>1, Appends, AmountsMore
  <2> QED
    BY <2>2, <2>3 DEF added
<1>5. /\ IsList(s3) /\ Amounts(Apply(s3), Override(Override(p, IncludeScores), range), n)
      /\ s3 = s \o <<IncludeScores, HighScoredFirst, range>>
      /\ s4 = s \o <<IncludeScores, HighScoredFirst, range, FeedIDs(F)>>
  <2> DEFINE w == <<IncludeScores, HighScoredFirst, range>>
             x == FeedIDs(F)
  <2> HIDE DEF range, x
  <2>1. s3 = s \o w
    <3>1. s \o <<IncludeScores, HighScoredFirst, range>> = s \o <<IncludeScores>> \o <<HighScoredFirst>> \o <<range>>
      BY OneByOne
    <3> QED
      BY <3>1, Zenon
  <2>2. s4 = s \o <<IncludeScores, HighScoredFirst, range, x>>
    <3>1. <<IncludeScores, HighScoredFirst, range, x>> = Append(w, x)
      OBVIOUS
    <3>2. w \o <<x>> = Append(w, x) /\ IsList(w)
      <4>1. w = Append(<<IncludeScores, HighScoredFirst>>, range)
        OBVIOUS
      <4> HIDE DEF w
      <4> QED
        BY <4>1, ShortLists, Lists
    <3>3. (s \o w) \o <<x>> = s \o (w \o <<x>>)
      <4> HIDE DEF w
      <4>1. PICK S : s \in Seq(S)
        BY DEF IsList
      <4>2. PICK T : w \in Seq(T)
        BY <3>2 DEF IsList
      <4>3. s \in Seq(S \cup T \cup {x}) /\ w \in Seq(S \cup T \cup {x}) /\ <<x>> \in Seq(S \cup T \cup {x})
        BY <4>1, <4>2
      <4> QED
        BY <4>3
    <3> HIDE DEF s3, w
    <3> QED
      BY <2>1, <3>1, <3>2, <3>3 DEF x
  <2>3. IsList(s1) /\ Amounts(Apply(s1), Override(p, IncludeScores), n)
    BY <1>1, Appends, AmountsMore
  <2> HIDE DEF s1
  <2>4. IsList(s2) /\ Amounts(Apply(s2), Override(p, IncludeScores), n)
    BY <1>1, <2>3, Appends, AmountsMore
  <2> HIDE DEF s2
  <2>5. IsList(s3) /\ Amounts(Apply(s3), Override(Override(p, IncludeScores), range), n)
    BY <1>1, <2>4, Appends, AmountsMore
  <2> QED
    BY <2>1, <2>2, <2>5 DEF x, w
<1>6. CASE type = "popular"
  <2>1. added = <<IncludeScores, HighScoredFirst, range>> /\ Routed(p, type, F, until) = Override(Override(p, IncludeScores), range)
    BY <1>6, Zenon DEF RepoTypeOptions, Routed
  <2> HIDE DEF added, s1, s2, s3, s4
  <2>2. s \o added = s3
    BY <1>5, <2>1
  <2> QED
    BY <1>5, <2>1, <2>2 DEF added
<1>7. CASE type = "popular/tag"
  <2>1. added = <<IncludeScores, HighScoredFirst, range, FeedIDs(F)>>
    <3>1. type \in {"popular/tag", "popular/feed"} /\ type \notin {"tag", "feed"}
      BY <1>7
    <3> QED
      BY <1>7, <3>1, Zenon DEF RepoTypeOptions
  <2>2. Routed(p, type, F, until) = Override(Override(Override(p, IncludeScores), range), FeedIDs(F))
    BY <1>7, Zenon DEF Routed
  <2> HIDE DEF added, s1, s2, s3
  <2>3. Amounts(Apply(s4), Override(Override(Override(p, IncludeScores), range), FeedIDs(F)), n)
    BY <1>1, <1>5, Appends, AmountsMore
  <2> HIDE DEF s4
  <2> QED
    BY <1>5, <2>1, <2>2, <2>3 DEF added
<1> QED
  BY <1>2, <1>3, <1>4, <1>6, <1>7 DEF RouteTypes

(* What a request without a query, and one for unread articles, asks for   *)
AskedBase(u, q) == IF q.unreadOnly THEN Unreads(u) ELSE Base(u)

(* The filters of the user come after the query. *)
LEMMA AskedOwn ==
  ASSUME NEW u, NEW q
  PROVE  Override(Asking(q), Own(u)) = AskedBase(u, q)
BY Swaps DEF Asking, AskedBase, Unreads, Base

(* A route with one set of feeds is one query. *)
LEMMA OneRoute ==
  ASSUME NEW u, NEW type \in RouteTypes, NEW id, NEW F, RouteFeeds(u, type, id) = {F}, NEW q
  PROVE  /\ GetArticles(u, type, id, q)
              = ForUser(u, ArticleQueryOptions(q, ArticlesLimit) \o <<Own(u)>> \o RepoTypeOptions(type, F, QuarterAgo))
         /\ GetIDs(u, type, id, q)
              = IDsForUser(u, ArticleQueryOptions(q, 50 * ArticlesLimit) \o <<Own(u)>> \o RepoTypeOptions(type, F, Now))
BY Zenon DEF GetArticles, GetIDs

(* What a route amounts to. *)
LEMMA RouteOptions ==
  ASSUME NEW u, NEW type \in RouteTypes, NEW F, NEW q \in {NoQuery, UnreadQuery}, NEW max \in Int, NEW until
  PROVE  Amounts(Apply(ArticleQueryOptions(q, max) \o <<Own(u)>> \o RepoTypeOptions(type, F, until)),
                 Routed(AskedBase(u, q), type, F, until), Limit(max))
<1> DEFINE s == ArticleQueryOptions(q, max)
           t == s \o <<Own(u)>>
<1>1. IsList(s) /\ Amounts(Apply(s), Asking(q), Limit(max))
  BY RestPrefix
<1>2. Selecting(Own(u))
  BY OptionKinds DEF Own
<1> HIDE DEF s
<1>3. IsList(t) /\ Apply(t) = Override(Apply(s), Own(u))
  BY <1>1, Appends
<1> HIDE DEF t
<1>4. Amounts(Apply(t), AskedBase(u, q), Limit(max))
  BY <1>1, <1>2, <1>3, AmountsMore, AskedOwn
<1>5. Amounts(Apply(t \o RepoTypeOptions(type, F, until)), Routed(AskedBase(u, q), type, F, until), Limit(max))
  BY <1>3, <1>4, RouteAmounts
<1> QED
  BY <1>5 DEF s, t

(* The same options without scores *)
Scoreless(p) == [k \in Keys |-> IF k = "includeScores" THEN FALSE ELSE p[k]]

(* They differ in nothing else. *)
LEMMA ScorelessFields ==
  ASSUME NEW p
  PROVE  /\ Scoreless(p).includeScores = FALSE
         /\ \A k \in Keys \ {"includeScores"} : Scoreless(p)[k] = p[k]
         /\ Agree(p, Scoreless(p), SelectKeys \ {"includeScores"})
<1>1. "includeScores" \in Keys /\ SelectKeys \subseteq Keys
  BY KnownKeys DEF Keys
<1>2. Scoreless(p)["includeScores"] = FALSE
  BY <1>1 DEF Scoreless
<1>3. \A k \in Keys \ {"includeScores"} : Scoreless(p)[k] = p[k]
  BY DEF Scoreless
<1> QED
  BY <1>1, <1>2, <1>3 DEF Agree

(* No answer is cut off by the limit. *)
Whole(answers) == ArticlesLimit > 0 => \A ids \in answers : Cardinality(ids) <= 50 * ArticlesLimit - 1

(* The articles and the IDs of a route. *)
LEMMA RouteAnswers ==
  ASSUME articles \in Seq(RowsOf(Feeds)), NEW u, NEW type \in RouteTypes, NEW id, NEW F, RouteFeeds(u, type, id) = {F},
         NEW q \in {NoQuery, UnreadQuery}
  PROVE  /\ \A s \in GetArticles(u, type, id, q) :
              ToSet(s) \subseteq Selected(u, Routed(AskedBase(u, q), type, F, QuarterAgo))
         /\ Whole(GetIDs(u, type, id, q))
              => GetIDs(u, type, id, q) = {Selected(u, Scoreless(Routed(AskedBase(u, q), type, F, Now)))}
<1> DEFINE p(until) == Routed(AskedBase(u, q), type, F, until)
           rows == ArticleQueryOptions(q, ArticlesLimit) \o <<Own(u)>> \o RepoTypeOptions(type, F, QuarterAgo)
           ids == ArticleQueryOptions(q, 50 * ArticlesLimit) \o <<Own(u)>> \o RepoTypeOptions(type, F, Now)
<1>1. ArticlesLimit \in Int /\ 50 * ArticlesLimit \in Int /\ Limit(ArticlesLimit) \in Int /\ Limit(50 * ArticlesLimit) \in Int
  BY LimitAssumption DEF Limit
<1>2. GetArticles(u, type, id, q) = ForUser(u, rows) /\ GetIDs(u, type, id, q) = IDsForUser(u, ids)
  <2>1. GetArticles(u, type, id, q)
          = ForUser(u, ArticleQueryOptions(q, ArticlesLimit) \o <<Own(u)>> \o RepoTypeOptions(type, F, QuarterAgo))
    BY OneRoute
  <2>2. GetIDs(u, type, id, q)
          = IDsForUser(u, ArticleQueryOptions(q, 50 * ArticlesLimit) \o <<Own(u)>> \o RepoTypeOptions(type, F, Now))
    BY OneRoute
  <2> QED
    BY <2>1, <2>2
<1>3. Amounts(Apply(rows), p(QuarterAgo), Limit(ArticlesLimit)) /\ Amounts(Apply(ids), p(Now), Limit(50 * ArticlesLimit))
  BY <1>1, RouteOptions
<1> HIDE DEF rows, ids, p
<1>4. \A s \in ForUser(u, rows) : ToSet(s) \subseteq Selected(u, p(QuarterAgo))
  BY <1>1, <1>3, AnswersRows
<1>5. /\ IDsForUser(u, ids) # {}
      /\ \A x \in IDsForUser(u, ids) : \/ x = Selected(u, Scoreless(p(Now)))
                                       \/ Limit(50 * ArticlesLimit) > 0 /\ Cardinality(x) = Limit(50 * ArticlesLimit)
  <2> DEFINE P == p(Now)
             Q == Scoreless(P)
             n == Limit(50 * ArticlesLimit)
  <2>1. Q.includeScores = FALSE /\ Agree(P, Q, SelectKeys \ {"includeScores"})
    BY ScorelessFields
  <2>3. n \in Int /\ Amounts(Apply(ids), P, n)
    BY <1>1, <1>3
  <2> HIDE DEF P, Q, n
  <2>2. /\ IDsForUser(u, ids) # {}
        /\ \A x \in IDsForUser(u, ids) : x = Selected(u, Q) \/ (n > 0 /\ Cardinality(x) = n)
    <3>1. articles \in Seq(RowsOf(Feeds))
      OBVIOUS
    <3>2. /\ IDsForUser(u, ids) # {}
          /\ \A x \in IDsForUser(u, ids) :
               x \subseteq Selected(u, Q) /\ (x = Selected(u, Q) \/ (n > 0 /\ Cardinality(x) = n))
      BY <2>1, <2>3, <3>1, AnswersIDs, ZenonT(60)
    <3> QED
      BY <3>2
  <2> QED
    BY <2>2 DEF P, Q, n
<1>6. ASSUME Whole(IDsForUser(u, ids)) PROVE IDsForUser(u, ids) = {Selected(u, Scoreless(p(Now)))}
  <2>1. Limit(50 * ArticlesLimit) > 0 => ArticlesLimit > 0 /\ Limit(50 * ArticlesLimit) = 50 * ArticlesLimit
    BY <1>1 DEF Limit
  <2>2. \A x \in IDsForUser(u, ids) : x = Selected(u, Scoreless(p(Now)))
    <3>1. SUFFICES ASSUME NEW x \in IDsForUser(u, ids), x # Selected(u, Scoreless(p(Now))) PROVE FALSE
      OBVIOUS
    <3>2. Limit(50 * ArticlesLimit) > 0 /\ Cardinality(x) = Limit(50 * ArticlesLimit)
      BY <1>5, <3>1
    <3>3. Cardinality(x) <= 50 * ArticlesLimit - 1
      BY <1>6, <2>1, <3>2 DEF Whole
    <3> QED
      BY <1>1, <2>1, <3>2, <3>3
  <2> QED
    BY <1>5, <2>2
<1> QED
  BY <1>2, <1>4, <1>6 DEF p

(* What a route adds is a set of articles, and with a popular one a range of dates *)
LEMMA RoutedShape ==
  ASSUME NEW p, NEW type \in RouteTypes, NEW F
  PROVE  \E P : /\ \A k \in Keys \ {"favoriteOnly", "includeScores", "feedIDs"} : P[k] = p[k]
                /\ \/ \A until : Routed(p, type, F, until) = P
                   \/ \A until : Routed(p, type, F, until) = Override(P, TimeRange(FiveDaysAgo, until))
<1> DEFINE K == Keys \ {"favoriteOnly", "includeScores", "feedIDs"}
<1>1. /\ DOMAIN FavoriteOnly = {"favoriteOnly"} /\ DOMAIN IncludeScores = {"includeScores"} /\ DOMAIN FeedIDs(F) = {"feedIDs"}
      /\ \A until : DOMAIN TimeRange(FiveDaysAgo, until) = {"afterDate", "beforeDate"}
  BY DEF FavoriteOnly, IncludeScores, FeedIDs, TimeRange
<1>2. \A o, opt, k : k \in K /\ k \notin DOMAIN opt => Override(o, opt)[k] = o[k]
  BY OverrideField
<1>3. CASE type = "user"
  <2>1. \A until : Routed(p, type, F, until) = p
    BY <1>3, Zenon DEF Routed
  <2> QED
    BY <2>1
<1>4. CASE type = "favorite"
  <2>1. \A until : Routed(p, type, F, until) = Override(p, FavoriteOnly)
    BY <1>4, Zenon DEF Routed
  <2>2. \A k \in K : Override(p, FavoriteOnly)[k] = p[k]
    BY <1>1, <1>2
  <2> QED
    BY <2>1, <2>2
<1>5. CASE type = "feed"
  <2>1. \A until : Routed(p, type, F, until) = Override(p, FeedIDs(F))
    BY <1>5, Zenon DEF Routed
  <2>2. \A k \in K : Override(p, FeedIDs(F))[k] = p[k]
    BY <1>1, <1>2
  <2> QED
    BY <2>1, <2>2
<1>6. \A k \in K : Override(p, IncludeScores)[k] = p[k]
  BY <1>1, <1>2
<1>7. CASE type = "popular"
  <2>1. \A until : Routed(p, type, F, until) = Override(Override(p, IncludeScores), TimeRange(FiveDaysAgo, until))
    BY <1>7, Zenon DEF Routed
  <2> QED
    BY <1>6, <2>1
<1>8. CASE type = "popular/tag"
  <2> DEFINE P == Override(Override(p, IncludeScores), FeedIDs(F))
  <2>1. \A until : Routed(p, type, F, until)
                     = Override(Override(Override(p, IncludeScores), TimeRange(FiveDaysAgo, until)), FeedIDs(F))
    BY <1>8, Zenon DEF Routed
  <2>2. \A until : Override(Override(Override(p, IncludeScores), TimeRange(FiveDaysAgo, until)), FeedIDs(F))
                     = Override(P, TimeRange(FiveDaysAgo, until))
    <3> SUFFICES ASSUME NEW until
                 PROVE  Override(Override(Override(p, IncludeScores), TimeRange(FiveDaysAgo, until)), FeedIDs(F))
                          = Override(P, TimeRange(FiveDaysAgo, until))
      OBVIOUS
    <3>1. DOMAIN TimeRange(FiveDaysAgo, until) \cap DOMAIN FeedIDs(F) = {}
      BY <1>1
    <3> QED
      BY <3>1, Swap
  <2>3. \A k \in K : P[k] = p[k]
    <3>1. \A k \in K : k \notin DOMAIN FeedIDs(F)
      BY <1>1
    <3> QED
      BY <1>2, <1>6, <3>1
  <2> HIDE DEF P
  <2> QED
    BY <2>1, <2>2, <2>3
<1> QED
  BY <1>3, <1>4, <1>5, <1>7, <1>8 DEF RouteTypes

(* The bounds are none by default. *)
LEMMA Plainness ==
  /\ \A k \in {"beforeID", "afterID", "beforeScore", "afterScore", "beforeDate", "afterDate"} : DefaultOptions[k] = 0
  /\ {"beforeID", "afterID", "beforeScore", "afterScore", "beforeDate", "afterDate"} \subseteq Keys
BY DEF DefaultOptions, Keys

(* A route shows articles up to a quarter of an hour ago, its IDs are up to now. *)
LEMMA RoutedNarrower ==
  ASSUME articles \in Seq(RowsOf(Feeds)), NEW u \in Users, NEW type \in RouteTypes, NEW F
  PROVE  Selected(u, Routed(Base(u), type, F, QuarterAgo)) \subseteq Selected(u, Scoreless(Routed(Base(u), type, F, Now)))
<1> DEFINE Z == {"beforeID", "afterID", "beforeScore", "afterScore", "beforeDate", "afterDate"}
<1>1. PICK P : /\ \A k \in Keys \ {"favoriteOnly", "includeScores", "feedIDs"} : P[k] = Base(u)[k]
               /\ \/ \A until : Routed(Base(u), type, F, until) = P
                  \/ \A until : Routed(Base(u), type, F, until) = Override(P, TimeRange(FiveDaysAgo, until))
  BY RoutedShape
<1>2. \A k \in Z : P[k] = 0
  <2>1. Z \subseteq Keys \ {"favoriteOnly", "includeScores", "feedIDs"} /\ Z \subseteq Keys \ {"filters"}
    BY Plainness
  <2>2. \A k \in Z : Base(u)[k] = DefaultOptions[k]
    BY <2>1, BaseFields
  <2>3. \A k \in Z : DefaultOptions[k] = 0
    BY Plainness
  <2> HIDE DEF Z
  <2> QED
    BY <1>1, <2>1, <2>2, <2>3
<1>3. P.beforeID = 0 /\ P.afterID = 0 /\ P.beforeScore = 0 /\ P.afterScore = 0 /\ P.beforeDate = 0 /\ P.afterDate = 0
  BY <1>2
<1>4. CASE \A until : Routed(Base(u), type, F, until) = P
  <2> DEFINE p == Scoreless(P)
  <2>1. /\ p.includeScores = FALSE /\ Agree(P, p, SelectKeys \ {"includeScores"})
        /\ \A k \in Keys \ {"includeScores"} : p[k] = P[k]
    BY ScorelessFields
  <2> HIDE DEF p
  <2>2. \A k \in Z : p[k] = 0
    BY <1>2, <2>1, Plainness
  <2>3. p.beforeID = 0 /\ p.afterID = 0 /\ p.beforeScore = 0 /\ p.afterScore = 0 /\ p.beforeDate = 0 /\ p.afterDate = 0
    BY <2>2
  <2>4. Agree(P, p, SelectKeys \ {"includeScores", "beforeDate", "afterDate"})
    BY <2>1 DEF Agree
  <2>5. Selected(u, P) \subseteq Selected(u, p)
    <3>1. P.beforeDate \in Nat /\ p.beforeDate \in Nat /\ p.afterDate \in Nat /\ ~(p.beforeDate > 0) /\ ~(p.afterDate > 0)
      BY <1>3, <2>3
    <3> QED
      BY <2>1, <2>3, <2>4, <3>1, Narrower
  <2> QED
    BY <1>4, <2>5 DEF p
<1>5. CASE \A until : Routed(Base(u), type, F, until) = Override(P, TimeRange(FiveDaysAgo, until))
  <2> DEFINE o(until) == Override(P, TimeRange(FiveDaysAgo, until))
             O == o(QuarterAgo)
             N == o(Now)
             p == Scoreless(N)
  <2>1. ASSUME NEW until
        PROVE  /\ o(until)["afterDate"] = FiveDaysAgo /\ o(until)["beforeDate"] = until
               /\ \A k \in Keys \ {"afterDate", "beforeDate"} : o(until)[k] = P[k]
    <3>1. /\ DOMAIN TimeRange(FiveDaysAgo, until) = {"afterDate", "beforeDate"}
          /\ TimeRange(FiveDaysAgo, until)["afterDate"] = FiveDaysAgo
          /\ TimeRange(FiveDaysAgo, until)["beforeDate"] = until
      BY DEF TimeRange
    <3>2. "afterDate" \in Keys /\ "beforeDate" \in Keys
      BY Plainness
    <3> DEFINE opt == TimeRange(FiveDaysAgo, until)
    <3> HIDE DEF opt
    <3> QED
      BY <3>1, <3>2, OverrideField DEF opt
  <2> HIDE DEF o
  <2>2. /\ p.includeScores = FALSE
        /\ \A k \in Keys \ {"includeScores"} : p[k] = N[k]
    BY ScorelessFields
  <2> HIDE DEF p
  <2>3. /\ O["afterDate"] = FiveDaysAgo /\ O["beforeDate"] = QuarterAgo
        /\ p["afterDate"] = FiveDaysAgo /\ p["beforeDate"] = Now
    BY <2>1, <2>2, Plainness
  <2>4. \A k \in Keys \ {"includeScores", "afterDate", "beforeDate"} : O[k] = P[k] /\ p[k] = P[k]
    BY <2>1, <2>2
  <2>5. \A k \in Z \ {"afterDate", "beforeDate"} : p[k] = 0
    BY <1>2, <2>4, Plainness
  <2> HIDE DEF O, N
  <2>6. p.beforeID = 0 /\ p.afterID = 0 /\ p.beforeScore = 0 /\ p.afterScore = 0
    BY <2>5
  <2>7. Agree(O, p, SelectKeys \ {"includeScores", "beforeDate", "afterDate"})
    BY <2>4, KnownKeys DEF Agree
  <2>8. /\ O.beforeDate \in Nat /\ p.beforeDate \in Nat /\ p.afterDate \in Nat
        /\ O.beforeDate > 0 /\ O.beforeDate <= p.beforeDate /\ O.afterDate = p.afterDate
    <3>1. QuarterAgo \in Nat /\ QuarterAgo > 0 /\ Now \in Nat /\ QuarterAgo < Now /\ FiveDaysAgo \in Nat
      BY DatesAssumption
    <3> QED
      BY <2>3, <3>1
  <2>9. Selected(u, O) \subseteq Selected(u, p)
    BY <2>2, <2>6, <2>7, <2>8, Narrower
  <2> QED
    BY <1>5, <2>9 DEF O, N, p, o
<1> QED
  BY <1>1, <1>4, <1>5

(* The feeds of the routes. *)
LEMMA RouteOne ==
  ASSUME NEW u, NEW id
  PROVE  /\ RouteFeeds(u, "user", id) = {{}} /\ RouteFeeds(u, "favorite", id) = {{}} /\ RouteFeeds(u, "popular", id) = {{}}
         /\ <<u, id>> \in members => RouteFeeds(u, "feed", id) = {{id}}
         /\ HasTag(u, id) => RouteFeeds(u, "popular/tag", id) = {FeedsForTag(u, id)}
<1>1. ASSUME NEW type, type \notin {"tag", "popular/tag"}, type \notin {"feed", "popular/feed"}
      PROVE  RouteFeeds(u, type, id) = {{}}
  BY <1>1, Zenon DEF RouteFeeds
<1>2. RouteFeeds(u, "user", id) = {{}} /\ RouteFeeds(u, "favorite", id) = {{}} /\ RouteFeeds(u, "popular", id) = {{}}
  BY <1>1
<1>3. ASSUME <<u, id>> \in members PROVE RouteFeeds(u, "feed", id) = {{id}}
  <2>1. "feed" \in {"feed", "popular/feed"} /\ "feed" \notin {"tag", "popular/tag"}
    OBVIOUS
  <2> QED
    BY <1>3, <2>1, Zenon DEF RouteFeeds
<1>4. ASSUME HasTag(u, id) PROVE RouteFeeds(u, "popular/tag", id) = {FeedsForTag(u, id)}
  <2>1. "popular/tag" \notin {"feed", "popular/feed"} /\ "popular/tag" \in {"tag", "popular/tag"}
    OBVIOUS
  <2> QED
    BY <1>4, <2>1, Zenon DEF RouteFeeds
<1> QED
  BY <1>2, <1>3, <1>4

(* The two queries. *)
LEMMA QueryKinds ==
  ASSUME NEW u
  PROVE  AskedBase(u, NoQuery) = Base(u) /\ AskedBase(u, UnreadQuery) = Unreads(u)
<1>1. NoQuery.unreadOnly = FALSE /\ UnreadQuery.unreadOnly = TRUE
  BY DEF NoQuery, UnreadQuery
<1> QED
  BY <1>1 DEF AskedBase

(* The routes that are compared *)
Routes(u) == ({"user", "favorite", "popular"} \X {0}) \cup ({"feed"} \X FeedsForUser(u))
             \cup ({"popular/tag"} \X TagsForUser(u))

(* A route lists the IDs of all the articles that it shows. *)
LEMMA RoutesAgree ==
  ASSUME articles \in Seq(RowsOf(Feeds)), members \subseteq Users \X Feeds, NEW u \in Users, NEW r \in Routes(u),
         Whole(GetIDs(u, r[1], r[2], NoQuery)),
         NEW ids \in GetIDs(u, r[1], r[2], NoQuery), NEW s \in GetArticles(u, r[1], r[2], NoQuery)
  PROVE  ToSet(s) \subseteq ids
<1>0. \A X, G : X = {G} => \E F : X = {F}
  OBVIOUS
<1>1. r[1] \in RouteTypes /\ \E F : RouteFeeds(u, r[1], r[2]) = {F}
  <2>1. CASE r \in {"user", "favorite", "popular"} \X {0}
    <3>1. r[1] \in {"user", "favorite", "popular"}
      BY <2>1
    <3>2. RouteFeeds(u, r[1], r[2]) = {{}}
      <4>1. RouteFeeds(u, "user", r[2]) = {{}} /\ RouteFeeds(u, "favorite", r[2]) = {{}} /\ RouteFeeds(u, "popular", r[2]) = {{}}
        BY RouteOne
      <4> QED
        BY <3>1, <4>1, Zenon
    <3> QED
      BY <1>0, <3>1, <3>2 DEF RouteTypes
  <2>2. CASE r \in {"feed"} \X FeedsForUser(u)
    <3>1. r[1] = "feed" /\ r[2] \in FeedsForUser(u)
      BY <2>2
    <3>2. <<u, r[2]>> \in members
      BY <3>1 DEF FeedsForUser
    <3>3. RouteFeeds(u, r[1], r[2]) = {{r[2]}}
      BY <3>1, <3>2, RouteOne
    <3> QED
      BY <1>0, <3>1, <3>3 DEF RouteTypes
  <2>3. CASE r \in {"popular/tag"} \X TagsForUser(u)
    <3>1. r[1] = "popular/tag" /\ HasTag(u, r[2])
      BY <2>3 DEF HasTag
    <3>2. RouteFeeds(u, r[1], r[2]) = {FeedsForTag(u, r[2])}
      <4>1. RouteFeeds(u, "popular/tag", r[2]) = {FeedsForTag(u, r[2])}
        BY <3>1, RouteOne, Zenon
      <4> QED
        BY <3>1, <4>1, Zenon
    <3> QED
      BY <1>0, <3>1, <3>2 DEF RouteTypes
  <2> QED
    BY <2>1, <2>2, <2>3 DEF Routes
<1>2. PICK F : RouteFeeds(u, r[1], r[2]) = {F}
  BY <1>1
<1> DEFINE type == r[1]
           id == r[2]
<1> HIDE DEF type, id
<1>3. NoQuery \in {NoQuery, UnreadQuery}
  OBVIOUS
<1>4. /\ ToSet(s) \subseteq Selected(u, Routed(AskedBase(u, NoQuery), type, F, QuarterAgo))
      /\ GetIDs(u, type, id, NoQuery) = {Selected(u, Scoreless(Routed(AskedBase(u, NoQuery), type, F, Now)))}
  <2>1. type \in RouteTypes /\ RouteFeeds(u, type, id) = {F} /\ s \in GetArticles(u, type, id, NoQuery)
        /\ Whole(GetIDs(u, type, id, NoQuery))
    BY <1>1, <1>2 DEF type, id
  <2>2. \A q : q = NoQuery =>
          /\ \A t \in GetArticles(u, type, id, q) :
               ToSet(t) \subseteq Selected(u, Routed(AskedBase(u, q), type, F, QuarterAgo))
          /\ Whole(GetIDs(u, type, id, q))
               => GetIDs(u, type, id, q) = {Selected(u, Scoreless(Routed(AskedBase(u, q), type, F, Now)))}
    <3> HIDE DEF type, id
    <3>1. \A q \in {NoQuery, UnreadQuery} :
            /\ \A t \in GetArticles(u, type, id, q) :
                 ToSet(t) \subseteq Selected(u, Routed(AskedBase(u, q), type, F, QuarterAgo))
            /\ Whole(GetIDs(u, type, id, q))
                 => GetIDs(u, type, id, q) = {Selected(u, Scoreless(Routed(AskedBase(u, q), type, F, Now)))}
      BY <2>1, RouteAnswers
    <3> QED
      BY <1>3, <3>1
  <2> QED
    BY <2>1, <2>2
<1>5. ids = Selected(u, Scoreless(Routed(Base(u), type, F, Now))) /\ ToSet(s) \subseteq Selected(u, Routed(Base(u), type, F, QuarterAgo))
  BY <1>4, QueryKinds DEF type, id
<1>6. type \in RouteTypes
  BY <1>1 DEF type
<1> QED
  BY <1>5, <1>6, RoutedNarrower

(* The fields of the bounds *)
Zeros == {"beforeID", "afterID", "beforeScore", "afterScore", "beforeDate", "afterDate"}

(* The lists of a user have no bounds. *)
LEMMA ZeroBase ==
  ASSUME NEW u
  PROVE  \A k \in Zeros : Base(u)[k] = 0
<1>1. Zeros \subseteq Keys \ {"filters"}
  BY Plainness DEF Zeros
<1>2. \A k \in Zeros : Base(u)[k] = DefaultOptions[k]
  BY <1>1, BaseFields
<1>3. \A k \in Zeros : DefaultOptions[k] = 0
  BY Plainness DEF Zeros
<1> QED
  BY <1>2, <1>3

(* The list of IDs of all feeds is complete unless it is cut off. *)
LEMMA UserIDs ==
  ASSUME articles \in Seq(RowsOf(Feeds)), NEW u \in Users, Whole(GetIDs(u, "user", 0, NoQuery))
  PROVE  GetIDs(u, "user", 0, NoQuery) = {Selected(u, Base(u))}
<1> DEFINE p == Routed(AskedBase(u, NoQuery), "user", {}, Now)
<1>1. RouteFeeds(u, "user", 0) = {{}} /\ "user" \in RouteTypes
  BY RouteOne DEF RouteTypes
<1>2. ASSUME NEW F, RouteFeeds(u, "user", 0) = {F}, NEW q, q = NoQuery
      PROVE  Whole(GetIDs(u, "user", 0, q))
               => GetIDs(u, "user", 0, q) = {Selected(u, Scoreless(Routed(AskedBase(u, q), "user", F, Now)))}
  <2>1. q \in {NoQuery, UnreadQuery}
    BY <1>2
  <2> HIDE DEF p
  <2> QED
    BY <1>1, <1>2, <2>1, RouteAnswers
<1>3. GetIDs(u, "user", 0, NoQuery) = {Selected(u, Scoreless(p))}
  BY <1>1, <1>2, Zenon
<1>4. p = Base(u)
  <2>1. p = AskedBase(u, NoQuery)
    BY Zenon DEF Routed
  <2> QED
    BY <2>1, QueryKinds
<1>5. Agree(Scoreless(Base(u)), Base(u), SelectKeys)
  <2>1. Scoreless(Base(u)).includeScores = Base(u).includeScores
    BY NoScores, ScorelessFields
  <2>2. \A k \in SelectKeys \ {"includeScores"} : Scoreless(Base(u))[k] = Base(u)[k]
    BY ScorelessFields, KnownKeys
  <2> QED
    BY <2>1, <2>2 DEF Agree
<1>6. Selected(u, Scoreless(Base(u))) = Selected(u, Base(u))
  BY <1>5, SelectedSame
<1> QED
  BY <1>3, <1>4, <1>6

(* Options that differ from the defaults in the IDs only select every visible one of them. *)
LEMMA Everything ==
  ASSUME NEW u \in Users, NEW o, Agree(o, DefaultOptions, SelectKeys \ {"ids", "includeScores"}),
         o.includeScores = FALSE
  PROVE  Selected(u, o) = {i \in Visible(u) : o.ids # {} => i \in o.ids}
<1>1. \A k \in SelectKeys \ {"ids", "includeScores"} : o[k] = DefaultOptions[k]
  BY DEF Agree
<1>2. {"beforeID", "afterID", "beforeDate", "afterDate", "beforeScore", "afterScore", "feedIDs", "favoriteOnly",
       "untaggedOnly", "readOnly", "unreadOnly", "filters"} \subseteq SelectKeys \ {"ids", "includeScores"}
  BY DEF SelectKeys, Restriction
<1>3. /\ DefaultOptions.beforeID = 0 /\ DefaultOptions.beforeDate = 0 /\ DefaultOptions.beforeScore = 0
      /\ DefaultOptions.afterID = 0 /\ DefaultOptions.afterDate = 0 /\ DefaultOptions.afterScore = 0
      /\ DefaultOptions.feedIDs = {} /\ DefaultOptions.favoriteOnly = FALSE /\ DefaultOptions.untaggedOnly = FALSE
      /\ DefaultOptions.readOnly = FALSE /\ DefaultOptions.unreadOnly = FALSE /\ DefaultOptions.filters = <<>>
  BY DEF DefaultOptions
<1>4. /\ o.beforeID = 0 /\ o.beforeDate = 0 /\ o.beforeScore = 0
      /\ o.afterID = 0 /\ o.afterDate = 0 /\ o.afterScore = 0
      /\ o.feedIDs = {} /\ o.favoriteOnly = FALSE /\ o.untaggedOnly = FALSE
      /\ o.readOnly = FALSE /\ o.unreadOnly = FALSE /\ o.filters = <<>>
  BY <1>1, <1>2, <1>3
<1>5. ~Malformed(o) /\ u # Nobody
  BY <1>4, NamesAssumption DEF Malformed
<1>6. Bounded(<<o.beforeID, o.beforeDate, o.beforeScore>>) = {} /\ Bounded(<<o.afterID, o.afterDate, o.afterScore>>) = {}
  BY <1>4 DEF Bounded
<1>7. \A i : InRange(o, i)
  BY <1>6 DEF InRange
<1>8. DOMAIN o.filters = {}
  BY <1>4
<1>9. \A i : Matches(u, o, i) <=> (o.ids # {} => i \in o.ids)
  BY <1>4, <1>7, <1>8 DEF Matches
<1> QED
  BY <1>5, <1>9 DEF Selected

(* If nothing is counted, nothing is listed. *)
LEMMA NothingCounted ==
  ASSUME articles \in Seq(RowsOf(Feeds)), NEW u \in Users, Count(u, <<>>) = 0
  PROVE  Selected(u, Base(u)) = {}
<1> DEFINE o == [Apply(<<>>) EXCEPT !.includeScores = FALSE]
<1>1. /\ o.includeScores = FALSE
      /\ \A k \in Keys \ {"includeScores"} : o[k] = DefaultOptions[k]
  BY Unscored, Lists, Zenon
<1>2. Count(u, <<>>) = Cardinality(Selected(u, o))
  BY Zenon DEF Count
<1> HIDE DEF o
<1>3. Selected(u, o) = {}
  BY <1>2, ShownFinite, FS_EmptySet
<1>4. Agree(o, DefaultOptions, SelectKeys \ {"ids", "includeScores"}) /\ o.ids = {}
  <2>1. DefaultOptions.ids = {} /\ "ids" \in Keys \ {"includeScores"}
    BY DEF DefaultOptions, Keys
  <2> QED
    BY <1>1, <2>1, KnownKeys DEF Agree
<1>5. Selected(u, o) = Visible(u)
  BY <1>1, <1>4, Everything
<1> QED
  BY <1>3, <1>5, NamesAssumption DEF Selected

(* The items of Fever are listed, and all are if they fit in one answer. *)
LEMMA ItemsAgree ==
  ASSUME articles \in Seq(RowsOf(Feeds)), NEW u \in Users, NEW s \in Items(u, [given |-> FALSE], 0, 0)
  PROVE  /\ ToSet(s) \subseteq Selected(u, Base(u))
         /\ Cardinality(Selected(u, Base(u))) <= 50 => ToSet(s) = Selected(u, Base(u))
<1>1. CASE Count(u, <<>>) = 0
  <2>1. s = <<>>
    BY <1>1 DEF Items
  <2>2. ToSet(s) = {}
    BY <2>1 DEF ToSet
  <2> QED
    BY <1>1, <2>2, NothingCounted
<1>2. CASE Count(u, <<>>) # 0
  <2> DEFINE s1 == <<Paging(50, 0)>>
             s2 == <<Paging(50, 0), Own(u)>>
             s3 == s2 \o <<IDRange(0, 0)>>
             s4 == s3 \o <<Sorting("default", FALSE)>>
             p == Override(Base(u), IDRange(0, 0))
  <2>1. IsList(s1) /\ Amounts(Apply(s1), DefaultOptions, 50)
    BY ShortLists, AmountsPaging
  <2>2. Apply(s2) = Override(Apply(s1), Own(u)) /\ IsList(s2)
    BY ShortLists
  <2>3. Selecting(Own(u)) /\ Selecting(IDRange(0, 0)) /\ Selecting(Sorting("default", FALSE)) /\ Neutral(Sorting("default", FALSE))
    BY OptionKinds DEF Own, Neutral
  <2> HIDE DEF s1, s2
  <2>4. IsList(s2) /\ Amounts(Apply(s2), Base(u), 50)
    BY <2>1, <2>2, <2>3, AmountsMore DEF Base
  <2>5. IsList(s3) /\ Amounts(Apply(s3), p, 50)
    BY <2>3, <2>4, Appends, AmountsMore
  <2>6. s2 \o <<IDRange(0, 0), Sorting("default", FALSE)>> = s4
    <3> DEFINE a == IDRange(0, 0)
               b == Sorting("default", FALSE)
    <3> HIDE DEF a, b
    <3>1. s2 \o <<a, b>> = (s2 \o <<a>>) \o <<b>>
      BY <2>4, TwoByTwo
    <3> QED
      BY <3>1 DEF a, b
  <2> HIDE DEF s3, p
  <2>7. IsList(s4) /\ Amounts(Apply(s4), p, 50)
    <3>1. IsList(s4) /\ Apply(s4) = Override(Apply(s3), Sorting("default", FALSE))
      BY <2>5, Appends
    <3> HIDE DEF s4
    <3> QED
      BY <2>3, <2>5, <3>1, AmountsMore
  <2>8. Items(u, [given |-> FALSE], 0, 0) = ForUser(u, s4)
    <3>1. s2 \o <<>> = s2
      BY <2>4, Appends
    <3>2. [given |-> FALSE].given = FALSE /\ ~(0 > 0)
      OBVIOUS
    <3>3. Items(u, [given |-> FALSE], 0, 0) = ForUser(u, s2 \o <<>> \o <<IDRange(0, 0), Sorting("default", FALSE)>>)
      BY <1>2, <3>2 DEF Items, s2
    <3> QED
      BY <2>6, <3>1, <3>3
  <2> HIDE DEF s4
  <2>9. Selected(u, p) = Selected(u, Base(u))
    <3>1. \A k \in SelectKeys \ {"afterID", "beforeID"} : p[k] = Base(u)[k]
      <4>1. DOMAIN IDRange(0, 0) = {"afterID", "beforeID"}
        BY DEF IDRange
      <4> QED
        BY <4>1, OverrideField, KnownKeys DEF p
    <3>2. p.afterID = 0 /\ p.beforeID = 0
      BY SetsIDRange DEF p
    <3>3. Base(u)["afterID"] = 0 /\ Base(u)["beforeID"] = 0
      BY ZeroBase DEF Zeros
    <3>4. Agree(p, Base(u), SelectKeys)
      BY <3>1, <3>2, <3>3 DEF Agree
    <3> QED
      BY <3>4, SelectedSame
  <2> QED
    BY <2>7, <2>8, <2>9, AnswersRows
<1> QED
  BY <1>1, <1>2

(* The links of Fever are listed. *)
LEMMA LinksAgree ==
  ASSUME articles \in Seq(RowsOf(Feeds)), NEW u \in Users, NEW s \in Links(u, <<FiveDaysAgo, Now>>, 1)
  PROVE  ToSet(s) \subseteq Selected(u, Base(u))
<1> DEFINE x == TimeRange(FiveDaysAgo, Now)
           y == Paging(50, 0)
           d == Sorting("default", TRUE)
           w == Own(u)
           s2 == <<x, y>>
           s3 == Append(s2, IncludeScores)
           s4 == Append(s3, d)
           s5 == Append(s4, w)
           P == Override(Base(u), x)
           p == Override(P, IncludeScores)
           q == Override(DefaultOptions, x)
<1>1. Selecting(x) /\ Selecting(w) /\ Selecting(IncludeScores) /\ Selecting(d) /\ Neutral(d)
  BY OptionKinds DEF Own, Neutral
<1>2. IsList(s2) /\ Amounts(Apply(s2), q, 50)
  <2>1. IsList(s2) /\ Apply(s2) = Override(Override(DefaultOptions, x), y)
    <3> HIDE DEF x, y
    <3>1. Apply(<<x>>) = Override(DefaultOptions, x) /\ IsList(s2) /\ Apply(s2) = Override(Apply(<<x>>), y)
      BY ShortLists, Zenon
    <3> QED
      BY <3>1
  <2>2. DOMAIN x = {"afterDate", "beforeDate"} /\ DOMAIN y = {"limit", "offset"}
    BY DEF TimeRange, Paging
  <2>3. Apply(s2) = Override(Override(DefaultOptions, y), x)
    BY <2>1, <2>2, Swap
  <2>4. Amounts(Override(DefaultOptions, y), DefaultOptions, 50)
    BY AmountsPaging
  <2> HIDE DEF x, y, s2
  <2>5. Amounts(Override(Override(DefaultOptions, y), x), Override(DefaultOptions, x), 50)
    BY <1>1, <2>4, AmountsMore
  <2> QED
    BY <2>1, <2>3, <2>5
<1>3. p = Override(Override(q, IncludeScores), w)
  BY Swaps
<1>4. Links(u, <<FiveDaysAgo, Now>>, 1) = ForUser(u, s5)
  <2>1. Links(u, <<FiveDaysAgo, Now>>, 1) = ForUser(u, <<x, y, IncludeScores, d, w>>)
    <3>1. <<FiveDaysAgo, Now>> # <<>> /\ <<FiveDaysAgo, Now>>[1] = FiveDaysAgo /\ <<FiveDaysAgo, Now>>[2] = Now
          /\ ~(1 > 3) /\ 50 * (1 - 1) = 0
      OBVIOUS
    <3>2. \A r : r # <<>> /\ r[1] = FiveDaysAgo /\ r[2] = Now => Links(u, r, 1) = ForUser(u, <<x, y, IncludeScores, d, w>>)
      <4> SUFFICES ASSUME NEW r, r # <<>>, r[1] = FiveDaysAgo, r[2] = Now
                   PROVE  Links(u, r, 1) = ForUser(u, <<x, y, IncludeScores, d, w>>)
        OBVIOUS
      <4>1. Links(u, r, 1) = ForUser(u, <<TimeRange(r[1], r[2]), Paging(50, 50 * (1 - 1)), IncludeScores, d, w>>)
        <5>1. ~(r = <<>>) /\ ~(r # <<>> /\ 1 > 3)
          OBVIOUS
        <5> QED
          BY <5>1, Zenon DEF Links
      <4> QED
        BY <4>1, <3>1
    <3> QED
      BY <3>1, <3>2, Zenon
  <2> HIDE DEF x, y, d, w
  <2>2. <<x, y, IncludeScores>> = Append(<<x, y>>, IncludeScores)
    OBVIOUS
  <2>3. <<x, y, IncludeScores, d>> = Append(<<x, y, IncludeScores>>, d)
    OBVIOUS
  <2>4. <<x, y, IncludeScores, d, w>> = Append(<<x, y, IncludeScores, d>>, w)
    OBVIOUS
  <2> QED
    BY <2>1, <2>2, <2>3, <2>4
<1> HIDE DEF x, y, d, w, s2
<1>5. IsList(s3) /\ Amounts(Apply(s3), Override(q, IncludeScores), 50)
  <2>1. IsList(s3) /\ Apply(s3) = Override(Apply(s2), IncludeScores)
    BY <1>2, Lists
  <2> HIDE DEF s3, q
  <2> QED
    BY <1>1, <1>2, <2>1, AmountsMore
<1> HIDE DEF s3, q
<1>6. IsList(s4) /\ Amounts(Apply(s4), Override(q, IncludeScores), 50)
  <2>1. IsList(s4) /\ Apply(s4) = Override(Apply(s3), d)
    BY <1>5, Lists
  <2> HIDE DEF s4
  <2> QED
    BY <1>1, <1>5, <2>1, AmountsMore
<1> HIDE DEF s4
<1>7. IsList(s5) /\ Amounts(Apply(s5), p, 50)
  <2>1. Apply(s5) = Override(Apply(s4), w) /\ IsList(s5)
    BY <1>6, Lists
  <2>2. Amounts(Override(Apply(s4), w), Override(Override(q, IncludeScores), w), 50)
    BY <1>1, <1>6, AmountsMore
  <2> QED
    BY <1>3, <2>1, <2>2
<1> HIDE DEF s5, p
<1>8. ToSet(s) \subseteq Selected(u, p)
  <2>1. s \in ForUser(u, s5) /\ 50 \in Int
    BY <1>4
  <2> QED
    BY <1>7, <2>1, AnswersRows
<1>9. Selected(u, p) \subseteq Selected(u, Base(u))
  <2>1. /\ P.afterDate = FiveDaysAgo /\ P.beforeDate = Now
        /\ \A k \in Restriction \ {"afterDate", "beforeDate"} : P[k] = Base(u)[k]
    BY SetsTimeRange DEF x
  <2>2. \A k \in Keys \ {"afterDate", "beforeDate", "includeScores"} : p[k] = Base(u)[k]
    <3>1. DOMAIN x = {"afterDate", "beforeDate"} /\ DOMAIN IncludeScores = {"includeScores"}
      BY DEF x, TimeRange, IncludeScores
    <3>2. \A k \in Keys \ {"afterDate", "beforeDate"} : P[k] = Base(u)[k]
      BY <3>1, OverrideField
    <3> HIDE DEF P
    <3>3. \A k \in Keys \ {"includeScores"} : p[k] = P[k]
      BY <3>1, OverrideField DEF p
    <3> QED
      BY <3>2, <3>3
  <2>3. p["beforeDate"] = Now
    <3>1. "beforeDate" \notin DOMAIN IncludeScores /\ "beforeDate" \in Keys
      BY Plainness DEF IncludeScores
    <3> HIDE DEF P
    <3>2. p["beforeDate"] = P["beforeDate"]
      BY <3>1, OverrideField DEF p
    <3> QED
      BY <2>1, <3>2
  <2>4. /\ Base(u)["beforeID"] = 0 /\ Base(u)["afterID"] = 0 /\ Base(u)["beforeScore"] = 0 /\ Base(u)["afterScore"] = 0
        /\ Base(u)["beforeDate"] = 0 /\ Base(u)["afterDate"] = 0
    BY ZeroBase DEF Zeros
  <2>5. Base(u).includeScores = FALSE
    BY BaseFields
  <2>6. Agree(p, Base(u), SelectKeys \ {"includeScores", "beforeDate", "afterDate"})
    BY <2>2, KnownKeys DEF Agree
  <2>7. p.beforeDate \in Nat /\ Base(u).beforeDate \in Nat /\ Base(u).afterDate \in Nat
        /\ ~(Base(u).beforeDate > 0) /\ ~(Base(u).afterDate > 0)
    BY <2>3, <2>4, DatesAssumption
  <2> QED
    BY <2>4, <2>5, <2>6, <2>7, Narrower
<1> QED
  BY <1>8, <1>9

-----------------------------------------------------------------------------
(* A search: its hits, the first of them, and what is found for the user   *)
HitsOf(word, o) ==
  {i \in DOMAIN articles :
     /\ word \in articles[i].title
     /\ o.feedIDs # {} => articles[i].feed \in o.feedIDs
     /\ o.beforeDate > 0 => articles[i].date < o.beforeDate
     /\ o.afterDate > 0 => articles[i].date >= o.afterDate
     /\ o.beforeID = 0 /\ o.afterID = 0}
FirstOf(o, s) == SubSeq(s, 1, IF o.limit < Len(s) THEN o.limit ELSE Len(s))
FoundOptions(o, T) ==
  <<IDs(T), Sorting(o.sortField, o.descending)>> \o (IF o.unreadFirst THEN <<UnreadFirst>> ELSE <<>>)
  \o (IF o.unreadOnly THEN <<UnreadOnly>> ELSE <<>>)
FoundOf(u, o, s) == IF s = <<>> THEN {<<>>} ELSE ForUser(u, FoundOptions(o, ToSet(s)))

(* A search is an order of the hits, a limit and a query for the IDs that are left. *)
LEMMA SearchShape ==
  ASSUME NEW u, NEW word, NEW opts
  PROVE  Search(u, word, opts) = UNION {FoundOf(u, Apply(opts), FirstOf(Apply(opts), s)) :
           s \in Orders(HitsOf(word, Apply(opts)), KeyOf(Nobody, Apply(opts), HitsOf(word, Apply(opts))))}
BY DEF Search, FoundOf, FirstOf, FoundOptions, HitsOf, KeyOf

(* Only the empty list has no elements. *)
LEMMA SomeLists ==
  ASSUME NEW S, NEW s \in Seq(S)
  PROVE  ToSet(s) = {} <=> s = <<>>
<1>1. Len(s) \in Nat /\ DOMAIN s = 1 .. Len(s)
  OBVIOUS
<1>2. CASE s = <<>>
  BY <1>2 DEF ToSet
<1>3. CASE s # <<>>
  <2>1. 1 \in DOMAIN s
    BY <1>3
  <2> QED
    BY <1>3, <2>1 DEF ToSet
<1> QED
  BY <1>2, <1>3

(* The limit leaves some of the hits, or all if they are not too many.     *)
LEMMA FirstHits ==
  ASSUME articles \in Seq(RowsOf(Feeds)), NEW o, o.limit = Limit(ArticlesLimit), o.offset = 0,
         NEW H, H \subseteq DOMAIN articles, NEW t \in Orders(H, KeyOf(Nobody, o, H))
  PROVE  LET s == FirstOf(o, t)
         IN  /\ ToSet(s) \subseteq H
             /\ Cardinality(H) <= ArticlesLimit => ToSet(s) = H
             /\ ToSet(s) = {} <=> s = <<>>
<1> DEFINE key == KeyOf(Nobody, o, H)
           s == FirstOf(o, t)
<1>1. ArticlesLimit \in Int /\ o.limit \in Int /\ o.limit >= 0 /\ (o.limit > 0 => o.limit = ArticlesLimit)
      /\ (o.limit = 0 => ArticlesLimit <= 0)
  BY LimitAssumption DEF Limit
<1>2. Len(articles) \in Nat /\ DOMAIN articles = 1 .. Len(articles) /\ IsFiniteSet(H) /\ Cardinality(H) \in Nat
  <2>1. Len(articles) \in Nat /\ DOMAIN articles = 1 .. Len(articles)
    OBVIOUS
  <2>2. IsFiniteSet(1 .. Len(articles))
    BY <2>1, FS_Interval
  <2> QED
    BY <2>1, <2>2, FS_Subset, FS_CardinalityType
<1>3. t \in Seq(H)
  <2>1. Keyed(key, H)
    BY KeysOfRows DEF KeyOf
  <2>2. Begins(t, H, key)
    BY <1>2, <2>1, OrdersFacts
  <2> QED
    BY <2>2 DEF Begins
<1>4. /\ ToSet(Page(t, o)) \subseteq H
      /\ o.limit <= 0 \/ Cardinality(H) <= o.limit => ToSet(Page(t, o)) = H
  BY <1>1, PageFacts
<1>5. CASE o.limit = 0
  <2>1. s = SubSeq(t, 1, 0)
    <3>1. Len(t) \in Nat
      BY <1>3
    <3> QED
      BY <1>5, <3>1 DEF FirstOf
  <2>2. s = <<>>
    BY <1>3, <2>1
  <2>3. Cardinality(H) <= ArticlesLimit => H = {}
    BY <1>1, <1>2, <1>5, FS_EmptySet
  <2>4. ToSet(s) = {}
    BY <2>2 DEF ToSet
  <2> QED
    BY <2>2, <2>3, <2>4
<1>6. CASE o.limit > 0
  <2>1. s = Page(t, o)
    <3>1. o.offset + 1 = 1 /\ o.offset + o.limit = o.limit /\ ~(o.limit <= 0)
      BY <1>1, <1>6
    <3> QED
      BY <3>1 DEF FirstOf, Page
  <2>2. s \in Seq(H)
    <3>1. Len(t) \in Nat
      BY <1>3
    <3>2. \A m \in Nat : m <= Len(t) => SubSeq(t, 1, m) \in Seq(H)
      BY <1>3
    <3> QED
      BY <1>1, <3>1, <3>2 DEF FirstOf
  <2>3. ToSet(s) = {} <=> s = <<>>
    BY <2>2, SomeLists
  <2>4. Cardinality(H) <= ArticlesLimit => ToSet(s) = H
    BY <1>1, <1>4, <1>6, <2>1
  <2> QED
    BY <1>4, <2>1, <2>3, <2>4
<1> QED
  BY <1>1, <1>5, <1>6

(* Of the hits that are visible the query finds all. *)
LEMMA FoundRows ==
  ASSUME articles \in Seq(RowsOf(Feeds)), NEW u \in Users, NEW o, o.unreadOnly = FALSE,
         NEW T, T \subseteq Visible(u), T # {}, NEW s \in ForUser(u, FoundOptions(o, T))
  PROVE  ToSet(s) = T
<1> DEFINE a == IDs(T)
           b == Sorting(o.sortField, o.descending)
           s2 == <<a, b>>
           s3 == s2 \o (IF o.unreadFirst THEN <<UnreadFirst>> ELSE <<>>)
           p == Override(DefaultOptions, a)
<1>1. Selecting(a) /\ Selecting(b) /\ Neutral(b) /\ Selecting(UnreadFirst) /\ Neutral(UnreadFirst)
  BY OptionKinds DEF Neutral
<1>2. IsList(s2) /\ Amounts(Apply(s2), p, 0)
  <2>1. IsList(s2) /\ Apply(s2) = Override(p, b)
    BY ShortLists
  <2> HIDE DEF a, b, s2
  <2>2. Amounts(p, p, 0)
    BY <1>1, AmountsDefault, AmountsMore
  <2> HIDE DEF p
  <2> QED
    BY <1>1, <2>1, <2>2, AmountsMore
<1>3. p.includeScores = FALSE /\ p.ids = T /\ Agree(p, DefaultOptions, SelectKeys \ {"ids", "includeScores"})
  <2>1. DOMAIN a = {"ids"} /\ "includeScores" \in Keys /\ DefaultOptions["includeScores"] = FALSE
    BY DEF IDs, Keys, DefaultOptions
  <2>2. \A k \in Keys \ {"ids"} : p[k] = DefaultOptions[k]
    BY <2>1, OverrideField
  <2>3. p.ids = T
    BY SetsIDs
  <2> HIDE DEF p
  <2>4. p["includeScores"] = FALSE
    BY <2>1, <2>2
  <2> QED
    BY <2>2, <2>3, <2>4, KnownKeys DEF Agree
<1> HIDE DEF a, b, s2, p
<1>4. IsList(s3) /\ Amounts(Apply(s3), p, 0)
  <2>1. CASE o.unreadFirst
    <3>1. s3 = s2 \o <<UnreadFirst>>
      BY <2>1
    <3> HIDE DEF s3
    <3>2. IsList(s3) /\ Apply(s3) = Override(Apply(s2), UnreadFirst)
      BY <1>2, <3>1, Appends
    <3> QED
      BY <1>1, <1>2, <3>2, AmountsMore
  <2>2. CASE ~o.unreadFirst
    <3>1. s3 = s2 \o <<>>
      BY <2>2
    <3>2. s2 \o <<>> = s2
      BY <1>2, Appends
    <3> QED
      BY <1>2, <3>1, <3>2
  <2> QED
    BY <2>1, <2>2
<1>5. FoundOptions(o, T) = s3
  <2>1. FoundOptions(o, T) = s3 \o (IF o.unreadOnly THEN <<UnreadOnly>> ELSE <<>>)
    BY DEF FoundOptions, s2, a, b
  <2> HIDE DEF s3
  <2>2. s3 \o <<>> = s3
    BY <1>4, Appends
  <2> QED
    BY <2>1, <2>2
<1> HIDE DEF s3
<1>6. Selected(u, p) = T
  <2>1. Selected(u, p) = {i \in Visible(u) : p.ids # {} => i \in p.ids}
    BY <1>3, Everything
  <2> QED
    BY <1>3, <2>1
<1>7. ToSet(s) = Selected(u, p)
  <2>1. s \in ForUser(u, s3) /\ 0 \in Int /\ 0 <= 0
    BY <1>5
  <2> QED
    BY <1>4, <2>1, AnswersRows
<1> QED
  BY <1>6, <1>7

(* The articles of a feed with a word in the title *)
Hits(f, w) == {i \in DOMAIN articles : articles[i].feed = f /\ w \in articles[i].title}

(* A search in a feed finds hits only, and all that fit the limit. *)
LEMMA SearchAgrees ==
  ASSUME articles \in Seq(RowsOf(Feeds)), NEW u \in Users, NEW f, <<u, f>> \in members, NEW w,
         NEW s \in ArticleSearch(u, w, "feed", f, NoQuery)
  PROVE  /\ ToSet(s) \subseteq Hits(f, w)
         /\ Cardinality(Hits(f, w)) <= ArticlesLimit => ToSet(s) = Hits(f, w)
<1> DEFINE opts == ArticleQueryOptions(NoQuery, ArticlesLimit) \o <<Own(u)>> \o RepoTypeOptions("feed", {f}, Now)
           o == Apply(opts)
           p == Override(Base(u), FeedIDs({f}))
<1>1. ArticleSearch(u, w, "feed", f, NoQuery) = Search(u, w, opts)
  <2>1. RouteFeeds(u, "feed", f) = {{f}}
    BY RouteOne
  <2>2. "feed" \in {"user", "feed", "tag"}
    OBVIOUS
  <2>3. \A F : RouteFeeds(u, "feed", f) = {F} =>
          ArticleSearch(u, w, "feed", f, NoQuery)
            = Search(u, w, ArticleQueryOptions(NoQuery, ArticlesLimit) \o <<Own(u)>> \o RepoTypeOptions("feed", F, Now))
    BY <2>2, Zenon DEF ArticleSearch
  <2> QED
    BY <2>1, <2>3, Zenon
<1>2. Amounts(o, p, Limit(ArticlesLimit))
  <2>1. \A q : q = NoQuery =>
          Amounts(Apply(ArticleQueryOptions(q, ArticlesLimit) \o <<Own(u)>> \o RepoTypeOptions("feed", {f}, Now)),
                  Routed(AskedBase(u, q), "feed", {f}, Now), Limit(ArticlesLimit))
    BY LimitAssumption, RouteOptions DEF RouteTypes
  <2>2. Routed(Base(u), "feed", {f}, Now) = p
    BY Zenon DEF Routed
  <2>3. AskedBase(u, NoQuery) = Base(u)
    BY QueryKinds
  <2> HIDE DEF p
  <2> QED
    BY <2>1, <2>2, <2>3, Zenon
<1> HIDE DEF opts
<1>3. /\ p.feedIDs = {f} /\ p.beforeDate = 0 /\ p.afterDate = 0 /\ p.beforeID = 0 /\ p.afterID = 0 /\ p.unreadOnly = FALSE
  <2>1. DOMAIN FeedIDs({f}) = {"feedIDs"} /\ "unreadOnly" \in Keys /\ DefaultOptions["unreadOnly"] = FALSE
    BY DEF FeedIDs, Keys, DefaultOptions
  <2>2. \A k \in Keys \ {"feedIDs"} : p[k] = Base(u)[k]
    BY <2>1, OverrideField
  <2>3. p.feedIDs = {f}
    <3>1. \A F : Override(Base(u), FeedIDs(F)).feedIDs = F
      BY SetsFeedIDs, Zenon
    <3> QED
      BY <3>1
  <2> HIDE DEF p
  <2>4. \A k \in Zeros : k \in Keys \ {"feedIDs"}
    BY Plainness DEF Zeros
  <2>5. \A k \in Zeros : p[k] = 0
    BY <2>2, <2>4, ZeroBase
  <2>6. p["unreadOnly"] = FALSE
    <3>1. "unreadOnly" \in Keys \ {"feedIDs"}
      BY <2>1
    <3>2. p["unreadOnly"] = Base(u)["unreadOnly"]
      BY <2>2, <3>1
    <3>3. Base(u)["unreadOnly"] = FALSE
      BY <2>1, BaseFields
    <3> QED
      BY <3>2, <3>3
  <2> QED
    BY <2>3, <2>5, <2>6 DEF Zeros
<1> HIDE DEF o, p
<1>4. /\ o.feedIDs = {f} /\ o.beforeDate = 0 /\ o.afterDate = 0 /\ o.beforeID = 0 /\ o.afterID = 0 /\ o.unreadOnly = FALSE
      /\ o.limit = Limit(ArticlesLimit) /\ o.offset = 0
  <2>1. {"feedIDs", "beforeDate", "afterDate", "beforeID", "afterID", "unreadOnly"} \subseteq SelectKeys
    BY DEF SelectKeys, Restriction
  <2> QED
    BY <1>2, <1>3, <2>1 DEF Amounts, Agree
<1> DEFINE H == HitsOf(w, o)
<1>5. H = Hits(f, w) /\ H \subseteq DOMAIN articles /\ H \subseteq Visible(u)
  BY <1>4 DEF HitsOf, Hits, Visible
<1> HIDE DEF H
<1>6. PICK t \in Orders(H, KeyOf(Nobody, o, H)) : s \in FoundOf(u, o, FirstOf(o, t))
  BY <1>1, SearchShape DEF o, H
<1>7. /\ ToSet(FirstOf(o, t)) \subseteq H
      /\ Cardinality(H) <= ArticlesLimit => ToSet(FirstOf(o, t)) = H
      /\ ToSet(FirstOf(o, t)) = {} <=> FirstOf(o, t) = <<>>
  BY <1>4, <1>5, FirstHits
<1>8. ToSet(s) = ToSet(FirstOf(o, t))
  <2>1. CASE FirstOf(o, t) = <<>>
    <3>1. s = <<>>
      BY <1>6, <2>1 DEF FoundOf
    <3> QED
      BY <2>1, <3>1
  <2>2. CASE FirstOf(o, t) # <<>>
    <3> DEFINE T == ToSet(FirstOf(o, t))
    <3>1. s \in ForUser(u, FoundOptions(o, T))
      BY <1>6, <2>2 DEF FoundOf
    <3>2. T \subseteq Visible(u) /\ T # {}
      BY <1>5, <1>7, <2>2
    <3> HIDE DEF T
    <3>3. ToSet(s) = T
      BY <1>4, <3>1, <3>2, FoundRows
    <3> QED
      BY <3>3 DEF T
  <2> QED
    BY <2>1, <2>2
<1> QED
  BY <1>5, <1>7, <1>8

(* The feeds of a tag and the tags of a feed. *)
LEMMA TagsAgree ==
  ASSUME NEW u \in Users, TagsKnown, members \subseteq Users \X Feeds, NEW t \in ListTags(u), NEW f \in FeedsForUser(u)
  PROVE  (f \in UNION GetTagFeedIDs(u, t)) = (t \in UNION GetFeedTags(u, f))
<1>1. HasTag(u, t) /\ <<u, f>> \in members
  BY DEF ListTags, HasTag, FeedsForUser
<1>2. GetTagFeedIDs(u, t) = {FeedsForTag(u, t)} /\ GetFeedTags(u, f) = {TagsForFeed(u, f)}
  BY <1>1 DEF GetTagFeedIDs, GetFeedTags
<1>3. UNION GetTagFeedIDs(u, t) = FeedsForTag(u, t) /\ UNION GetFeedTags(u, f) = TagsForFeed(u, f)
  BY <1>2
<1>4. f \in FeedsForTag(u, t) <=> <<u, f, t>> \in tagged
  BY DEF FeedsForTag, TagsKnown
<1>5. t \in TagsForFeed(u, f) <=> <<u, f, t>> \in tagged
  BY DEF TagsForFeed, TagsKnown
<1> QED
  BY <1>3, <1>4, <1>5

(* The unread articles of a feed *)
UnreadIn(u, f) == Override(Unreads(u), FeedIDs({f}))
UnreadOf(u, f) == GetIDs(u, "feed", f, UnreadQuery)

(* The list of unread articles of a feed is complete unless it is cut off. *)
LEMMA UnreadLists ==
  ASSUME articles \in Seq(RowsOf(Feeds)), NEW u \in Users, NEW f, <<u, f>> \in members, Whole(UnreadOf(u, f))
  PROVE  UnreadOf(u, f) = {Selected(u, UnreadIn(u, f))}
<1>0. "feed" \in RouteTypes
  BY DEF RouteTypes
<1>1. RouteFeeds(u, "feed", f) = {{f}}
  BY RouteOne
<1>2. ASSUME NEW F, RouteFeeds(u, "feed", f) = {F}, NEW q, q = UnreadQuery
      PROVE  Whole(GetIDs(u, "feed", f, q))
               => GetIDs(u, "feed", f, q) = {Selected(u, Scoreless(Routed(AskedBase(u, q), "feed", F, Now)))}
  <2>1. q \in {NoQuery, UnreadQuery}
    BY <1>2
  <2> QED
    <3>1. /\ \A s \in GetArticles(u, "feed", f, q) :
               ToSet(s) \subseteq Selected(u, Routed(AskedBase(u, q), "feed", F, QuarterAgo))
          /\ Whole(GetIDs(u, "feed", f, q))
               => GetIDs(u, "feed", f, q) = {Selected(u, Scoreless(Routed(AskedBase(u, q), "feed", F, Now)))}
      BY <1>0, <1>2, <2>1, RouteAnswers
    <3> QED
      BY <3>1
<1> DEFINE p == Routed(AskedBase(u, UnreadQuery), "feed", {f}, Now)
<1>3. UnreadOf(u, f) = {Selected(u, Scoreless(p))}
  BY <1>1, <1>2, Zenon DEF UnreadOf
<1>4. p = UnreadIn(u, f)
  <2>1. p = Override(AskedBase(u, UnreadQuery), FeedIDs({f}))
    BY Zenon DEF Routed
  <2> QED
    BY <2>1, QueryKinds DEF UnreadIn
<1> HIDE DEF p
<1>5. Agree(Scoreless(p), p, SelectKeys)
  <2>1. Scoreless(p).includeScores = p.includeScores
    <3>1. p.includeScores = FALSE
      BY <1>4, NoScores DEF UnreadIn
    <3> QED
      BY <3>1, ScorelessFields
  <2>2. \A k \in SelectKeys \ {"includeScores"} : Scoreless(p)[k] = p[k]
    BY ScorelessFields, KnownKeys
  <2> QED
    BY <2>1, <2>2 DEF Agree
<1>6. Selected(u, Scoreless(p)) = Selected(u, p)
  BY <1>5, SelectedSame
<1> QED
  BY <1>3, <1>4, <1>6

(* For an article of the feed a filter that is cut down to the feed hides no
   more than the whole filter, and no less if it is not inverted.           *)
LEMMA CutFilter ==
  ASSUME NEW i, NEW flt, NEW o, NEW p, o.feedIDs = {}, p.feedIDs = {articles[i].feed}
  PROVE  /\ Hides(p, flt, i) => Hides(o, flt, i)
         /\ ~flt.notFeeds /\ Hides(o, flt, i) => Hides(p, flt, i)
<1> DEFINE f == articles[i].feed
           X == /\ flt.url # NoWord => Like(LinkWords[articles[i].link], flt.url) # flt.notUrl
                /\ flt.title # NoWord => Like(articles[i].title, flt.title) # flt.notTitle
<1>1. FilteredFeeds(o, flt) = flt.feeds /\ FilteredFeeds(p, flt) = flt.feeds \cap {f}
  BY DEF FilteredFeeds
<1>2. Hides(o, flt, i) <=> /\ Valid(flt) /\ X
                           /\ flt.feeds # {} => WhereMultipleORs(f, flt.feeds, ~flt.notFeeds)
  BY <1>1 DEF Hides
<1>3. Hides(p, flt, i) <=> /\ Valid(flt) /\ X
                           /\ flt.feeds # {} => flt.feeds \cap {f} # {}
                           /\ flt.feeds \cap {f} # {} => WhereMultipleORs(f, flt.feeds \cap {f}, ~flt.notFeeds)
  BY <1>1 DEF Hides
<1> HIDE DEF X
<1>4. WhereMultipleORs(f, flt.feeds \cap {f}, ~flt.notFeeds) => WhereMultipleORs(f, flt.feeds, ~flt.notFeeds)
  BY DEF WhereMultipleORs
<1>5. Hides(p, flt, i) => Hides(o, flt, i)
  BY <1>2, <1>3, <1>4
<1>6. ASSUME ~flt.notFeeds, WhereMultipleORs(f, flt.feeds, ~flt.notFeeds)
      PROVE  f \in flt.feeds /\ WhereMultipleORs(f, flt.feeds \cap {f}, ~flt.notFeeds)
  BY <1>6 DEF WhereMultipleORs
<1>7. ASSUME ~flt.notFeeds, Hides(o, flt, i) PROVE Hides(p, flt, i)
  <2>1. CASE flt.feeds = {}
    BY <1>2, <1>3, <1>7, <2>1
  <2>2. CASE flt.feeds # {}
    <3>1. WhereMultipleORs(f, flt.feeds, ~flt.notFeeds)
      BY <1>2, <1>7, <2>2
    <3>2. f \in flt.feeds /\ WhereMultipleORs(f, flt.feeds \cap {f}, ~flt.notFeeds)
      BY <1>6, <1>7, <3>1
    <3> QED
      BY <1>2, <1>3, <1>7, <3>2
  <2> QED
    BY <2>1, <2>2
<1> QED
  BY <1>5, <1>7

(* The options for the unread articles of one feed and of all. *)
LEMMA UnreadFields ==
  ASSUME NEW u, NEW f
  PROVE  /\ Unreads(u).feedIDs = {} /\ UnreadIn(u, f).feedIDs = {f}
         /\ Unreads(u).filters = filters[u] /\ UnreadIn(u, f).filters = filters[u]
         /\ \A k \in SelectKeys \ {"feedIDs"} : UnreadIn(u, f)[k] = Unreads(u)[k]
         /\ \A k \in Zeros : Unreads(u)[k] = 0
<1>1. DOMAIN FeedIDs({f}) = {"feedIDs"} /\ DOMAIN UnreadOnly = {"unreadOnly"} /\ {"feedIDs", "filters"} \subseteq Keys
      /\ DefaultOptions["feedIDs"] = {} /\ Zeros \subseteq Keys \ {"unreadOnly"}
  BY Plainness DEF FeedIDs, UnreadOnly, Keys, DefaultOptions, Zeros
<1>2. \A k \in Keys \ {"feedIDs"} : UnreadIn(u, f)[k] = Unreads(u)[k]
  BY <1>1, OverrideField DEF UnreadIn
<1>3. \A k \in Keys \ {"unreadOnly"} : Unreads(u)[k] = Base(u)[k]
  BY <1>1, OverrideField DEF Unreads
<1>4. Base(u)["filters"] = filters[u] /\ Base(u)["feedIDs"] = {}
  BY <1>1, BaseFields
<1>5. UnreadIn(u, f).feedIDs = {f}
  BY SetsFeedIDs DEF UnreadIn
<1>6. Unreads(u)["feedIDs"] = {} /\ Unreads(u)["filters"] = filters[u]
  BY <1>1, <1>3, <1>4
<1>7. UnreadIn(u, f)["filters"] = filters[u]
  BY <1>1, <1>2, <1>6
<1>8. \A k \in Zeros : Unreads(u)[k] = 0
  BY <1>1, <1>3, ZeroBase
<1> QED
  BY <1>2, <1>5, <1>6, <1>7, <1>8, KnownKeys

(* An unread article of the whole list is in the list of its feed; the other way round
   unless a filter is inverted. *)
LEMMA UnreadsOfFeed ==
  ASSUME NEW u \in Users, NEW f
  PROVE  /\ {i \in Selected(u, Unreads(u)) : articles[i].feed = f} \subseteq Selected(u, UnreadIn(u, f))
         /\ \A i \in Selected(u, UnreadIn(u, f)) : articles[i].feed = f
         /\ Plain(u) => Selected(u, UnreadIn(u, f)) \subseteq Selected(u, Unreads(u))
<1> DEFINE o == Unreads(u)
           p == UnreadIn(u, f)
<1>1. /\ o.feedIDs = {} /\ p.feedIDs = {f} /\ o.filters = filters[u] /\ p.filters = filters[u]
      /\ \A k \in SelectKeys \ {"feedIDs"} : p[k] = o[k]
      /\ \A k \in Zeros : o[k] = 0
  BY UnreadFields
<1> HIDE DEF o, p
<1>2. Zeros \cup {"unreadOnly", "readOnly", "untaggedOnly", "favoriteOnly", "includeScores", "ids"}
        \subseteq SelectKeys \ {"feedIDs"}
  BY DEF Zeros, SelectKeys, Restriction
<1>3. /\ p.unreadOnly = o.unreadOnly /\ p.readOnly = o.readOnly /\ p.untaggedOnly = o.untaggedOnly
      /\ p.favoriteOnly = o.favoriteOnly /\ p.includeScores = o.includeScores /\ p.ids = o.ids
      /\ p.beforeID = o.beforeID /\ p.beforeDate = o.beforeDate /\ p.beforeScore = o.beforeScore
      /\ p.afterID = o.afterID /\ p.afterDate = o.afterDate /\ p.afterScore = o.afterScore
  BY <1>1, <1>2 DEF Zeros
<1>4. ~Malformed(o) /\ ~Malformed(p) /\ u # Nobody
  <2>1. o.beforeScore = 0 /\ o.afterScore = 0
    BY <1>1 DEF Zeros
  <2> QED
    BY <1>3, <2>1, NamesAssumption DEF Malformed
<1>5. \A i : InRange(p, i) <=> InRange(o, i)
  BY <1>3 DEF InRange
<1>6. ASSUME NEW i
      PROVE  Matches(u, p, i) <=>
               /\ articles[i].feed = f
               /\ \A n \in DOMAIN filters[u] : ~Hides(p, filters[u][n], i)
               /\ o.unreadOnly => <<u, i>> \in unread
               /\ o.readOnly /\ ~o.unreadOnly => <<u, i>> \notin unread
               /\ o.untaggedOnly => \A t \in tagged : t[1] # u \/ t[2] # articles[i].feed
               /\ o.favoriteOnly => <<u, i>> \in favorite
               /\ InRange(o, i)
               /\ o.includeScores \/ o.beforeScore > 0 \/ o.afterScore > 0 => articles[i].score > 0
               /\ o.ids # {} => i \in o.ids
  BY <1>1, <1>3, <1>4, <1>5 DEF Matches
<1>7. ASSUME NEW i
      PROVE  Matches(u, o, i) <=>
               /\ \A n \in DOMAIN filters[u] : ~Hides(o, filters[u][n], i)
               /\ o.unreadOnly => <<u, i>> \in unread
               /\ o.readOnly /\ ~o.unreadOnly => <<u, i>> \notin unread
               /\ o.untaggedOnly => \A t \in tagged : t[1] # u \/ t[2] # articles[i].feed
               /\ o.favoriteOnly => <<u, i>> \in favorite
               /\ InRange(o, i)
               /\ o.includeScores \/ o.beforeScore > 0 \/ o.afterScore > 0 => articles[i].score > 0
               /\ o.ids # {} => i \in o.ids
  BY <1>1, <1>4 DEF Matches
<1>8. ASSUME NEW i, articles[i].feed = f
      PROVE  \A n \in DOMAIN filters[u] :
               /\ Hides(p, filters[u][n], i) => Hides(o, filters[u][n], i)
               /\ Plain(u) /\ Hides(o, filters[u][n], i) => Hides(p, filters[u][n], i)
  BY <1>1, <1>8, CutFilter DEF Plain
<1>9. /\ \A i : Matches(u, o, i) /\ articles[i].feed = f => Matches(u, p, i)
      /\ \A i : Matches(u, p, i) => articles[i].feed = f
      /\ \A i : Plain(u) /\ Matches(u, p, i) => Matches(u, o, i)
  BY <1>6, <1>7, <1>8
<1> QED
  BY <1>4, <1>9 DEF Selected, o, p

(* No answer has more than n articles. *)
NoLarger(answers, n) == \A ids \in answers : Cardinality(ids) <= n

(* When there is one answer. *)
LEMMA LoneAnswer ==
  ASSUME NEW S, NEW n
  PROVE  NoLarger({S}, n) <=> Cardinality(S) <= n
BY DEF NoLarger

(* Fever and TT-RSS list the same unread articles and the same favourites. *)
LEMMA FeverAgrees ==
  ASSUME articles \in Seq(RowsOf(Feeds)), NEW u \in Users
  PROVE  /\ NoLarger(UnreadItemIDs(u), 200) => Headlines(u, ALL_ID, "unread") = UnreadItemIDs(u)
         /\ NoLarger(SavedItemIDs(u), 200) => Headlines(u, FAVORITE_ID, "adaptive") = SavedItemIDs(u)
<1> DEFINE U == Selected(u, Unreads(u))
           F == Selected(u, Favorites(u))
<1>1. UnreadItemIDs(u) = {U} /\ SavedItemIDs(u) = {F}
  BY FeverLists
<1>2. /\ Cardinality(U) <= 200 => Headlines(u, ALL_ID, "unread") = {U}
      /\ Cardinality(F) <= 200 => Headlines(u, FAVORITE_ID, "adaptive") = {F}
  BY HeadlineLists
<1> HIDE DEF U, F
<1> QED
  BY <1>1, <1>2, LoneAnswer

(* The items and links of Fever are in the list of IDs of REST. *)
LEMMA FeverShows ==
  ASSUME articles \in Seq(RowsOf(Feeds)), NEW u \in Users, Whole(GetIDs(u, "user", 0, NoQuery)),
         NEW ids \in GetIDs(u, "user", 0, NoQuery)
  PROVE  /\ \A s \in Items(u, [given |-> FALSE], 0, 0) :
              ToSet(s) \subseteq ids /\ (Cardinality(ids) <= 50 => ToSet(s) = ids)
         /\ \A s \in Links(u, <<FiveDaysAgo, Now>>, 1) : ToSet(s) \subseteq ids
<1>1. ids = Selected(u, Base(u))
  BY UserIDs
<1>2. \A s \in Items(u, [given |-> FALSE], 0, 0) :
        ToSet(s) \subseteq ids /\ (Cardinality(ids) <= 50 => ToSet(s) = ids)
  BY <1>1, ItemsAgree
<1>3. \A s \in Links(u, <<FiveDaysAgo, Now>>, 1) : ToSet(s) \subseteq ids
  BY <1>1, LinksAgree
<1> QED
  BY <1>2, <1>3

(* The unread articles of the feeds and of Fever. *)
LEMMA UnreadAgree ==
  ASSUME articles \in Seq(RowsOf(Feeds)), members \subseteq Users \X Feeds, NEW u \in Users,
         \A f \in FeedsForUser(u) : Whole(UnreadOf(u, f))
  PROVE  LET each == UNION {UNION UnreadOf(u, f) : f \in FeedsForUser(u)}
         IN  /\ \A all \in UnreadItemIDs(u) : all \subseteq each /\ (Plain(u) => all = each)
             /\ \A f \in FeedsForUser(u) : NoLarger(UnreadOf(u, f), 200) => Headlines(u, f, "unread") = UnreadOf(u, f)
<1> DEFINE each == UNION {UNION UnreadOf(u, f) : f \in FeedsForUser(u)}
           U == Selected(u, Unreads(u))
           In(f) == Selected(u, UnreadIn(u, f))
<1>1. ASSUME NEW f \in FeedsForUser(u)
      PROVE  /\ <<u, f>> \in members /\ f \in Nat \ {0}
             /\ UnreadOf(u, f) = {In(f)}
  <2>1. <<u, f>> \in members
    BY <1>1 DEF FeedsForUser
  <2>2. f \in Nat \ {0}
    BY <2>1, NamesAssumption
  <2>3. UnreadOf(u, f) = {In(f)}
    BY <1>1, <2>1, UnreadLists
  <2> QED
    BY <2>1, <2>2, <2>3
<1>2. \A f \in FeedsForUser(u) : UNION UnreadOf(u, f) = In(f)
  BY <1>1
<1>3. each = UNION {In(f) : f \in FeedsForUser(u)}
  BY <1>2
<1>4. \A i \in U : articles[i].feed \in FeedsForUser(u)
  <2>1. \A i \in U : i \in Visible(u)
    BY NamesAssumption DEF Selected
  <2> QED
    <3>1. \A f : <<u, f>> \in members => f \in FeedsForUser(u)
      <4>1. ASSUME NEW f, <<u, f>> \in members PROVE f \in FeedsForUser(u)
        <5> DEFINE m == <<u, f>>
        <5>1. m \in members /\ m[1] = u /\ m[2] = f
          BY <4>1
        <5> HIDE DEF m
        <5> QED
          BY <5>1 DEF FeedsForUser
      <4> QED
        BY <4>1
    <3> QED
      BY <2>1, <3>1 DEF Visible
<1>5. ASSUME NEW f
      PROVE  /\ {i \in U : articles[i].feed = f} \subseteq In(f)
             /\ Plain(u) => In(f) \subseteq U
  BY UnreadsOfFeed
<1> HIDE DEF U, In, each
<1>6. U \subseteq each
  <2>1. ASSUME NEW i \in U PROVE i \in each
    <3>1. articles[i].feed \in FeedsForUser(u) /\ i \in In(articles[i].feed)
      BY <1>4, <1>5
    <3> QED
      BY <1>3, <3>1
  <2> QED
    BY <2>1
<1>7. Plain(u) => U = each
  BY <1>3, <1>5, <1>6
<1>8. UnreadItemIDs(u) = {U}
  BY FeverLists DEF U
<1>9. ASSUME NEW f \in FeedsForUser(u), NoLarger(UnreadOf(u, f), 200)
      PROVE  Headlines(u, f, "unread") = UnreadOf(u, f)
  <2>1. Cardinality(In(f)) <= 200
    <3>1. In(f) \in UnreadOf(u, f)
      BY <1>1, <1>9
    <3> QED
      BY <1>9, <3>1 DEF NoLarger
  <2>2. <<u, f>> \in members /\ f \in Nat \ {0}
    BY <1>1
  <2>3. Headlines(u, f, "unread") = {In(f)}
    BY <2>1, <2>2, HeadlineLists DEF In, UnreadIn
  <2> QED
    BY <1>1, <2>3
<1> QED
  BY <1>6, <1>7, <1>8, <1>9 DEF each

(* The searches of a user. *)
LEMMA SearchesAgree ==
  ASSUME articles \in Seq(RowsOf(Feeds)), members \subseteq Users \X Feeds, NEW u \in Users,
         NEW f \in FeedsForUser(u), NEW w
  PROVE  LET hits == {i \in DOMAIN articles : articles[i].feed = f /\ w \in articles[i].title}
         IN  \A s \in ArticleSearch(u, w, "feed", f, NoQuery) :
               ToSet(s) \subseteq hits /\ (Cardinality(hits) <= ArticlesLimit => ToSet(s) = hits)
<1>1. <<u, f>> \in members
  BY DEF FeedsForUser
<1> QED
  BY <1>1, SearchAgrees DEF Hits

(* What the three interfaces answer agrees, in every state and for every user,
   route, tag, feed and word. *)
THEOREM InterfacesAgree == Spec => []ListsAgree
<1>1. ASSUME LInv PROVE ListsAgree
  <2>1. articles \in Seq(RowsOf(Feeds)) /\ members \subseteq Users \X Feeds /\ TagsKnown
    BY <1>1 DEF LInv, RInv, OInv, TInv
  <2>2. SUFFICES ASSUME NEW u \in Users
        PROVE  LET plain == \A n \in DOMAIN filters[u] : ~filters[u][n].notFeeds
                   fits(answers, n) == \A ids \in answers : Cardinality(ids) <= n
                   whole(answers) == ArticlesLimit > 0 => fits(answers, 50 * ArticlesLimit - 1)
                   headlines(id, mode) ==
                     {ToSet(s) : s \in GetHeadlines(u, [feedID |-> id, isCat |-> FALSE, viewMode |-> mode, limit |-> 0, skip |-> 0,
                                                        sinceID |-> 0, search |-> NoWord, orderBy |-> "feed_dates"])}
                   unreadOf(f) == GetIDs(u, "feed", f, [NoQuery EXCEPT !.unreadOnly = TRUE])
                   routes == ({"user", "favorite", "popular"} \X {0}) \cup ({"feed"} \X FeedsForUser(u))
                             \cup ({"popular/tag"} \X TagsForUser(u))
               IN  /\ fits(UnreadItemIDs(u), 200) => headlines(ALL_ID, "unread") = UnreadItemIDs(u)
                   /\ fits(SavedItemIDs(u), 200) => headlines(FAVORITE_ID, "adaptive") = SavedItemIDs(u)
                   /\ \A r \in routes :
                        whole(GetIDs(u, r[1], r[2], NoQuery)) =>
                          \A ids \in GetIDs(u, r[1], r[2], NoQuery) :
                            \A s \in GetArticles(u, r[1], r[2], NoQuery) : ToSet(s) \subseteq ids
                   /\ whole(GetIDs(u, "user", 0, NoQuery)) =>
                        \A ids \in GetIDs(u, "user", 0, NoQuery) :
                          /\ \A s \in Items(u, [given |-> FALSE], 0, 0) :
                               ToSet(s) \subseteq ids /\ (Cardinality(ids) <= 50 => ToSet(s) = ids)
                          /\ \A s \in Links(u, <<FiveDaysAgo, Now>>, 1) : ToSet(s) \subseteq ids
                   /\ \A f \in FeedsForUser(u) : \A w \in UNION {articles[i].title : i \in DOMAIN articles} :
                        LET hits == {i \in DOMAIN articles : articles[i].feed = f /\ w \in articles[i].title}
                        IN  \A s \in ArticleSearch(u, w, "feed", f, NoQuery) :
                              ToSet(s) \subseteq hits /\ (Cardinality(hits) <= ArticlesLimit => ToSet(s) = hits)
                   /\ \A t \in ListTags(u), f \in FeedsForUser(u) :
                        (f \in UNION GetTagFeedIDs(u, t)) = (t \in UNION GetFeedTags(u, f))
                   /\ (\A f \in FeedsForUser(u) : whole(unreadOf(f))) =>
                        LET each == UNION {UNION unreadOf(f) : f \in FeedsForUser(u)}
                        IN  /\ \A all \in UnreadItemIDs(u) : all \subseteq each /\ (plain => all = each)
                            /\ \A f \in FeedsForUser(u) :
                                 fits(unreadOf(f), 200) => headlines(f, "unread") = unreadOf(f)
    BY DEF ListsAgree
  <2>3. /\ NoLarger(UnreadItemIDs(u), 200) => Headlines(u, ALL_ID, "unread") = UnreadItemIDs(u)
        /\ NoLarger(SavedItemIDs(u), 200) => Headlines(u, FAVORITE_ID, "adaptive") = SavedItemIDs(u)
    BY <2>1, FeverAgrees
  <2>4. \A r \in Routes(u) :
          Whole(GetIDs(u, r[1], r[2], NoQuery)) =>
            \A ids \in GetIDs(u, r[1], r[2], NoQuery) :
              \A s \in GetArticles(u, r[1], r[2], NoQuery) : ToSet(s) \subseteq ids
    BY <2>1, RoutesAgree
  <2>5. Whole(GetIDs(u, "user", 0, NoQuery)) =>
          \A ids \in GetIDs(u, "user", 0, NoQuery) :
            /\ \A s \in Items(u, [given |-> FALSE], 0, 0) :
                 ToSet(s) \subseteq ids /\ (Cardinality(ids) <= 50 => ToSet(s) = ids)
            /\ \A s \in Links(u, <<FiveDaysAgo, Now>>, 1) : ToSet(s) \subseteq ids
    BY <2>1, FeverShows
  <2>6. \A f \in FeedsForUser(u) : \A w \in UNION {articles[i].title : i \in DOMAIN articles} :
          LET hits == {i \in DOMAIN articles : articles[i].feed = f /\ w \in articles[i].title}
          IN  \A s \in ArticleSearch(u, w, "feed", f, NoQuery) :
                ToSet(s) \subseteq hits /\ (Cardinality(hits) <= ArticlesLimit => ToSet(s) = hits)
    BY <2>1, SearchesAgree
  <2>7. \A t \in ListTags(u), f \in FeedsForUser(u) :
          (f \in UNION GetTagFeedIDs(u, t)) = (t \in UNION GetFeedTags(u, f))
    BY <2>1, TagsAgree
  <2>8. (\A f \in FeedsForUser(u) : Whole(UnreadOf(u, f))) =>
          LET each == UNION {UNION UnreadOf(u, f) : f \in FeedsForUser(u)}
          IN  /\ \A all \in UnreadItemIDs(u) : all \subseteq each /\ (Plain(u) => all = each)
              /\ \A f \in FeedsForUser(u) : NoLarger(UnreadOf(u, f), 200) => Headlines(u, f, "unread") = UnreadOf(u, f)
    BY <2>1, UnreadAgree
  <2> QED
    BY <2>3, <2>4, <2>5, <2>6, <2>7, <2>8
       DEF NoLarger, Whole, Plain, Routes, UnreadOf, UnreadQuery, Headlines, HeadlineRequest
<1> QED
  BY <1>1, LInvariant, PTL
=============================================================================
