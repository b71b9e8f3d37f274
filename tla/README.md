# A formal model of readeef

readeef is a feed aggregator written in Go: a server polls feeds, stores their
articles in PostgreSQL or SQLite, and serves them through a REST interface, a
stream of server-sent events, the Tiny Tiny RSS interface and the Fever
interface. This directory holds TLA+ specifications of its concurrent core, of
its articles and of the life of the process from one start to the next, the TLC
configurations that check them on small instances, and proofs that TLAPS checks
for instances of every size. Paths below are relative to `src/`.

Contents

1. [The system](#1-the-system)
2. [The modules](#2-the-modules)
3. [What the runs check](#3-what-the-runs-check)
4. [Fairness](#4-fairness)
5. [What is proved](#5-what-is-proved)
6. [Where code and promises differ](#6-where-code-and-promises-differ)
7. [What is not modelled](#7-what-is-not-modelled)
8. [Plan](#8-plan)
9. [Running the checks](#9-running-the-checks)

## 1. The system

| part | code | state it keeps | operations |
|---|---|---|---|
| event bus | `content/repo/eventable` | the listeners' streams, a loop that runs closures | writes that announce themselves, `Dispatch`, `Listener` |
| feed scheduler | `feed/scheduler.go` | `feedMap`, one updater goroutine for each feed | `ScheduleFeed`, polling, unscheduling, `Start` |
| feed manager | `feed_manager.go`, `api/feed.go`, `api/ttrss/settings.go` | none of its own; rows of `feeds`, `users_feeds` | `AddFeed`, `AddFeedByLink`, `RemoveFeed`, `Start`, `updateFeed` |
| hubbub | `hubbub.go`, `api/hubbub.go` | rows of `hubbub_subscriptions`, the keeper's list | `Subscribe`, `Unsubscribe`, `InitSubscriptions`, the renewal, the callback |
| event stream | `api/events.go` | the table of connections | connect, ping, write an event, leave |
| user filters monitor | `content/monitor/user-filters.go` | the profile in the row of a user | rewrites filters after `FeedSetTagsEvent` |
| thumbnail monitor | `content/monitor/thumbnailer.go` | a pool of workers for each update | generates thumbnails of new articles |
| index monitor | `content/monitor/index.go`, `content/search/bleve.go` | the search index | indexes new articles, removes those of deleted feeds |
| unread monitor | `content/monitor/unread.go` | rows of `users_articles_unread` | marks new articles unread, deletes old records |
| articles | `content/repo/sql/article.go`, `content/article.go`, `api/article.go`, `api/ttrss`, `api/fever` | rows of articles, unread and favourite records | queries by options, marks, lists, counts |
| database | `content/repo/sql/db` | the schema and its version, caches of statements | open, create, upgrade |
| accounts | `api/auth.go`, `api/user.go`, `api/user_settings.go`, `api/token`, `api/ttrss/session.go`, `cmd/readeef/user-admin.go` | rows of users, sessions by ID, revoked tokens | sign in, log out, expiry, create, change and delete users |
| process | `cmd/readeef`, `config`, `internal/legacy`, `content/search/search.go` | the configuration file, the search index | convert, start, reindex, serve |
| parsers, extraction, thumbnails, popularity | `parser`, `feed/search.go`, `content/...`, `popularity` | none, or an external service | transformations |
| web | `web`, `fs.go` | none | file serving |

How the parts interact:

* Every write goes through the *eventable* repositories. They commit first and
  then block in `bus.Dispatch` until the bus loop has taken the closure, which
  sends the event to each listener's buffered stream. The listeners are the four
  monitors and the event stream of the API.
* A request that subscribes a user looks the feed up, hands it to the manager's
  loop over a channel, and then attaches the user to it. The manager starts a
  goroutine that asks the scheduler's loop for a channel of updates and stores
  each with `feedRepo.Update`. `RemoveFeed` makes the loop delete a feed that has
  no users.
* The manager calls processors such as hubbub for the feeds it adds and removes;
  hubbub posts to hubs, and hubs call back through the API.
* A request of the REST interface carries a token, which names a user, through a
  pipeline of handlers; one of the Tiny Tiny RSS interface carries the ID of a
  session. Both read the user's row and hand a copy on.
* The three interfaces read and mark articles through the same repository, with
  the filters of the user's profile among the options of the query. The unread
  monitor does so for all users when a feed has new articles.
* `main` reads or converts the configuration, `runServer` opens the database and
  upgrades it, makes sure of an administrator, opens the search index and fills a
  new one, and starts everything above.
* Everything ends through one `context.Context` that is cancelled when the server
  stops; no goroutine is waited for.

What is hard about it, and where:

* loops that own a table and run the closures of other goroutines, over
  unbuffered channels that nobody reads after the cancellation (bus, scheduler,
  manager, hubbub, sessions);
* a check and a write of the database with another request in between
  (`stopUpdatingFeed`, subscribing, `SetUserTags`, whole-row updates of users);
* copies that outlive what they were made from: the scheduler's copy of a feed,
  the user in an event, the response writer in the table of connections;
* IDs that SQLite gives again after a deletion, and `LastInsertId` after an
  insert that stored nothing;
* events whose handling is a goroutine for each, so that a later one may win;
* pools that shrink with errors, HTTP requests without timeouts;
* queries put together from options, where an empty list is no restriction and a
  filter depends on the feeds of the query, and which three interfaces use in
  their own ways;
* ends of the process between two steps that belong together: two renames, an
  upgrade and its version, an index and its contents;
* credentials that outlive what they stand for: tokens, sessions, copies of rows.

`PROJECT.json` lists the hazards line by line with the properties that watch
over them.

What makes each part correct, in short: every listener gets every event once, in
one order; a feed is polled by one goroutine and its updates are stored one
after the other; a subscribed feed is polled and a subscription belongs to the
link that was asked for; a feed is asked for once at its hub; a socket gets what
concerns it while it is valid, and its handler can always leave; filters follow
the tags; every new article gets its thumbnail, its place in the index and its
unread mark once; the lists and counts of articles agree with each other, and a
request marks what it names; stored data survives upgrades and ends of the
process; what was revoked stays revoked; a server comes up.

## 2. The modules

Each module begins with the code it models; `PROJECT.json` maps its definitions
to lines. Definitions whose comment begins with "Wrong:" are faulty variants of
the definition below them that take no part in the specification; substituting
one for the other must break the property that `PROJECT.json` names, which is
how we know that a property depends on the code.

| module | models | role |
|---|---|---|
| `Broadcast` | what the event bus promises: one log, and a position in it for each listener | abstract |
| `EventBus` | `bus.go`, `service.go` and the announcing methods of `feed.go` and `article.go` | refines `Broadcast` |
| `PollSet` | what the scheduler promises the manager: a set of polled feeds, updates one at a time | abstract |
| `Scheduler` | `feed/scheduler.go`, and the goroutine that ranges over a feed's updates | refines `PollSet` |
| `FeedManager` | requests that add and delete feeds, the manager's loop, the rows, polls and restarts | the scheduler is there as `PollSet`'s set |
| `Subscriptions` | the rows of hub subscriptions, the goroutines that post, where a subscription stands, and that it stands in one place | state of `Hubbub` |
| `Hubbub` | hub subscriptions, the starter, the keeper, the one renewal, the callback | extends `Subscriptions` |
| `EventSocket` | the handlers of `/events` and the monitor goroutine | |
| `UserRows` | the row of a user and the copies of it, and what must hold of them | state of `UserFilters` |
| `UserFilters` | the monitor of the filters and the requests that write a user | extends `UserRows` |
| `Thumbnailer` | the worker pool of one update | |
| `IndexMonitor` | the goroutines of the index monitor, with the batches of `bleve.go` | |
| `ArticleQuery` | the tables of articles, `content.QueryOptions` and the SQL made of them, storing the entries of a feed, marks | operators on tables |
| `ArticleRequests` | what the handlers of `api/article.go`, `api/tag.go`, `api/ttrss` and `api/fever` list, count, search and mark | extends `ArticleQuery` |
| `Articles` | polls, the unread monitor, subscriptions, tags, filters and requests that mark, interleaved | extends `ArticleRequests` |
| `Database` | opening and upgrading the database, step by step | |
| `Accounts` | tokens, sessions, users, and the requests that change them | |
| `Server` | configuration, start, reindexing, serving, ends at any step and the next start | extends `Database` and `Accounts` |
| `EventBusProofs`, `SchedulerProofs`, `FeedManagerProofs`, `EventSocketProofs`, `MonitorProofs`, `IndexMonitorProofs`, `ArticlesProofs`, `ServerProofs` | | theorems |
| `MC...` | | instances for TLC |

State and actions of the core modules against the code:

* **EventBus.** `committed` is what the wrapped repository has stored. `call[c]`
  is the closure writer `c` is trying to send on `b.ops`. `next` is the position
  of `for i := range p.listeners`, and 0 when the loop is at its `select`.
  `Write`, `TakeDispatch`, `Send`, `EndDispatch`, `Register`, `Receive`, `Cancel`
  and `LoopExit` are the steps at which goroutines can be preempted or blocked.
  `dispatched`, `since` and `received` are histories that the code does not keep;
  they carry the refinement to `Broadcast`. An event is named by its position in
  `committed`, so the order of events can be compared with that of writes.
  `reading[l]` is FALSE once the handler of a listener has not come back
  (`StopReading`), which is possible from its registration on.
* **Scheduler.** `feedMap[f]` is the channel in the payload of feed `f`, and a
  channel has the name of the caller that made it. `updater[c]` is the program
  counter of `updateFeed`: its two `select`s, the download, the send and the
  sleep. `pc[c]` follows the goroutine of the manager. A close of a closed or nil
  channel and a send on a closed channel set `panicked`. The contents of a feed
  are a document, standing for its md5, with what parsing gives.
* **FeedManager.** `rows`, `seq` and `subs` are the tables. `req[r]` is the next
  database or manager call of a request with the copy of the feed it holds.
  `loop` is the manager's `RemoveFeed` between its two queries. `starting` are
  goroutines on their way to the scheduler, and `polled[i]` is the link of the
  copy polled under ID `i`. `Poll` is `feedRepo.Update` with its UPDATE that falls
  back to INSERT. `Driver` chooses how IDs are given and what `LastInsertId`
  returns. `Restart` drops everything but the tables. `late` is a history: the
  subscriptions made to a feed after the loop asked for its users and before it
  deletes the feed.
* **EventSocket.** `pc` follows a handler from `addConn` to the deferred
  `removeConn`. `ops` is the buffer of `fm.ops`; `running` and `todo` are the
  closure the loop runs and the connections left to deal with. A write of an
  event, its validator and its error are one step, `Deal`. A client may stall
  (`Stall`): it keeps the connection and reads no more, and a write to it is not
  enabled until it goes, since the server has no timeout for writes
  (`cmd/readeef/server.go:449-458`) and `/events` none of its own.
* **Hubbub.** `task[t]` is a goroutine that posts to a hub and then hands the
  subscription to the keeper; the keeper renews in the same goroutine that
  receives. `listed` is the keeper's slice, from which `Without` filters by value.
  `feeds` are the IDs that have a row. A post that fails stores the copy of its
  feed (`Update`), and puts back one that was deleted. `Insert` gives IDs as the
  driver does: PostgreSQL never again, SQLite the one after the largest in the
  table, which may be that of a feed deleted before. `deleted` is a history.
* **UserFilters.** `row` is the row of one user. A request carries a copy of it
  from the middleware, and `events` carries copies to the monitor. `overlap` is a
  history variable: some request began before all else was dealt with.
* **Thumbnailer.** `left` is what the feeder has yet to send, `worker[w]` where a
  worker is, `failed`, `errClosed` and `returned` the ends of the pool. `wg` is the
  counter of the `WaitGroup`, set before the workers start and taken down by each
  as the last thing it does (`Done`); the closer sees nothing else of them.
* **IndexMonitor.** `pending` and `stream` are events on the way, `job[j]` a
  goroutine of the monitor with the documents it has left, `index` the index.
  The driver is chosen in `Init`, as in `Articles`. `overlap` is a history as in UserFilters.

* **ArticleQuery, ArticleRequests.** The table of articles is a sequence: an ID is
  a position, and no article is deleted. A query option is a record of the fields
  it sets, and of a list of them the last that sets a field decides, as in
  `QueryOptions.Apply`. `Selected`
  is the WHERE clause as a set of rows, with the filters as
  `constructSQLQueryOptions` scopes them; ordering and paging give the set of all
  sequences the database may return, so that a missing ORDER BY is a choice; a
  list of IDs is one of several sets when its limit cuts off equal rows. A
  handler is an operator from its parameters to what it may answer; one that
  marks gives the writes it has yet to make. Dates are numbers, titles sets of
  words.
* **Articles.** `events` is the stream of the unread monitor, `monitor` the update
  it works on with the users left and the filters it has read; `requests[u]` is a
  request between its reads and its writes. `announced` and `handled` are
  histories of what was new to whom and what the monitor is done with. `old`
  are the records that are older than a month.
* **Database.** `tab` is what exists of the tables whose definition changed
  between versions, `version` the row of `readeef`. `InitTable`, `ReadVersion`,
  `Upgrade`, `ClearVersion` and `StoreVersion` are the steps of `Open` between
  which the process may end; one upgrade is one transaction.
* **Accounts.** `req[c]` is the request of a client with its place in the pipeline
  and the copies it carries: `login`, `row` and so on. `Exists`, `ValidateUser`,
  `UserContext`, `Read`, `Write` and the rest are its accesses to what others
  share. `ended`, `excused`, and `fresh` and `void` of a request are histories:
  what was revoked when it began, and whether the row it read is still the same.
* **Server.** `conf` is the file and its backup, `cfg` what the process has read of
  it, `index` how many articles the search index has, `provider` whether the
  process has a search and `offset` how far `Reindex` is. `CreateIndex` has two
  steps: what `bleve.NewUsing` has begun and not finished is `Broken`, a directory
  that `os.Stat` finds and `bleve.Open` rejects, and `OpenIndex` then leaves the
  process without a provider, as any error of `NewBleve` does (`NewBleveFails`).
  `End` drops `phase`, `cfg`, `provider`, `offset`, sessions and requests, but for
  those of the command, which is a process of its own.

Abstractions that several modules share: an error of the database or the network
is a step that may happen instead of a success; a send and its receive on an
unbuffered channel are one step; a transaction is one step; text, HTML, times and
hashes are reduced to what guards compare. Contexts are cancelled at any moment.

## 3. What the runs check

Symmetry is used where no liveness is checked. `CHECK_DEADLOCK FALSE` is in every
configuration because each behaviour can really come to an end: writers have
their bound of writes, the server stops, requests are done.

| run | instance | shows |
|---|---|---|
| `bus` | 2 writers, 2 listeners, streams of 1, 3 writes | `ExactSuffix`: a listener has received or will find in its stream what was dispatched since it registered, without a gap, a repetition or a swap. `CallerOrder`: the writes of a writer that have something to announce are all announced, once and in order. Refinement of `Broadcast` (`AtomicBroadcast`); `DispatchReturns` and `EventuallyReceived` with fairness: until a listener that has stopped reading has a full stream, every writer returns and every listener that reads gets its events |
| `scheduler` | 2 feeds, 2 callers, 3 documents | `NoPanic`, `OneUpdaterPerFeed`, `SerialStores`, refinement of `PollSet` (`PollsAsSpecified`); `KeepsPolling` with fairness |
| `manager_overlap` | 2 requests at once, 2 users, 2 links of which one is a page announcing the other, 2 IDs, both interfaces, PostgreSQL | `LinkStable`: a row never changes its link, though stale copies are stored. `AttachedAsAsked`: nobody is subscribed to a feed not found at the link asked for. `SubscriptionStays`: a subscription is lost without its user's request only with a feed whose users the loop had asked for before it was made |
| `manager_live` | 1 request at a time, REST interface, 1 restart, PostgreSQL | `SubscribedIsPolled`: subscribing leads to polling under the right link, across a restart. |
| `socket` | 2 sockets of which one is concerned by the event, buffer of 1 | `NoDeadConn`, `WrittenOnce`; `Delivered`, `HandlersReturn` with fairness, unless the loop is stuck for good in a write to a client that neither reads nor goes |
| `socket_logout` | 1 socket, 2 events, buffer of 2 | violates `InvalidJustEnds` (section 6) |
| `hubbub` | IDs of 2 feeds, a goroutine and the starter, one subscription kept at a call, both drivers | `OneRequestPerFeed`: a feed is in one place on its way to its hub, on SQLite unless a feed deleted since the start had its ID. `HandedOver` with fairness |
| `filters` | 2 feeds, 1 tag, 2 requests at once, 1 waiting event | `NoTagsWithoutUser` whatever overlaps: the check of `SetUserTags` and its transaction leave no tags to a user who was deleted in between. `FiltersFollowTags` until something overlaps |
| `thumbnailer` | 3 articles, 2 workers | `OncePerArticle`, `AllTried`, `NoneCutShort`; `HandlerReturns` with fairness |
| `index` | 2 feeds, 2 jobs at once, 4 IDs, updates of 1 to 3 articles, batches of 2, both drivers | `NothingMissing` and `RemovedOnlyWhenDeleted`, on SQLite until something overlaps; `NoOrphan` until something overlaps |
| `articles` | 2 users, 2 feeds, 1 tag, 3 entries that share GUIDs or links, 2 polls, 1 request, 1 edit and 1 failure, filters of each kind, both drivers | `MarksAreAsked`: marks change only for the user and on the articles that a request names, whatever happens between its steps. `MonitorMarksOnce`: an article is new to a user once, however its feed changes. `ListsAgree`, `CategoriesAddUp`: the lists, searches and counts of the three interfaces agree, as far as no limit cuts an answer off. `PagesComplete`: paging as the web client does it skips nothing unless dates are equal. `EventuallyMarked` with fairness |
| `server` | databases of every version 0 to 5, three kinds of configuration, with and without an index; 2 ends or errors; 2 clients, 2 logins, 3 tokens, 2 sessions and up to 4 requests | `DataKept`: upgrades lose and invent nothing, and what is served has the schema of its version. `AdminRemains`, `RevokedStaysOut`, `EditsApply`: accounts across requests, commands and restarts. `ComesUp` with fairness: apart from the cases named in `Doomed` every start leads to a server with a complete index, and what is doomed once is so again and again |

Why these bounds are enough for what they are meant to find:

* *Bus.* A stream of one is full after one event; with three writes the loop is
  blocked by one listener while the other has been served, a second writer is
  waiting, and one event is buffered before a registration. The capacity of the
  code, 10, only makes such states longer to reach. Two listeners are needed for
  "served here, not there", two writers for order between writers.
* *Scheduler.* Two callers meet on one feed or poll two; every problem of the
  map needs two closures that name the same feed. Documents of three kinds give
  updates, errors and nothing.
* *FeedManager.* IDs 1 and 2 allow a row, its deletion and the row a stale poll
  puts back; the bound guards `Insert`. Two users distinguish the orphan check
  from its opposite; two requests make every check-then-act overlap. Unsubscribing
  by the Tiny Tiny RSS interface checks the users first, hence both interfaces.
* *EventSocket.* A buffer of one is full with one closure, so each send competes.
  One event and pings exercise both kinds of closure; a second event is only
  needed for the double close, which `socket_logout` has.
* *Hubbub.* A goroutine of the manager or of a request, the starter and the keeper
  itself are the three that post to hubs. With `MaxFeed` two IDs, one can be
  deleted and given again while the other is on its way, and a post that fails can
  put a feed back under an ID that another had. `MaxKept` bounds the keeper's list
  when `Subscribe` is called, here to one; the starter and posts that are already
  on their way still make it longer, so that a renewal goes on after one. (With a
  list of two at a call `OneRequestPerFeed` holds as well.)
* *UserFilters.* The event stream has room for one event here, which makes the
  dispatching request wait; two requests are the least that overlap.
* *Thumbnailer.* More articles than workers, so that each outcome of a worker
  (all succeed, some fail, all fail) leaves articles to others or to nobody, and
  one worker can have taken itself off while another has yet to.
* *IndexMonitor.* Updates of 1, 2 and 3 articles with batches of 2 are smaller
  than, equal to and larger than a batch.

* *Articles.* The first feed changes the link of an entry and has an entry that
  is two articles at once; the second has entries without a GUID, one of which
  shares its link with the first feed. One request meets polls, the monitor and an
  edit between its steps; `Many`, the number of values from which
  `WhereMultipleORs` asks with IN and NOT IN, has its value of the code and is out
  of reach of the lists here (the theorems hold for any). Nothing that requests share is held between them, so a
  second request would add no new kind of step. There are filters by link, by
  title, with feeds, with inverted feeds and with none. A limit of 2 articles
  makes pages and searches overflow. The requests are one for each handler that
  marks and for each way in which it finds its articles: by ID, feed, tag, no tag,
  a range of IDs, and a list of IDs with bounds on date and score.
* *Server.* Two ends are the least that interrupt both a step and its repetition.
  The worlds of `MCServer` separate what does not interact: versions without
  requests, and requests on a current database, of edits and commands (2), of a
  user who is deleted, created again and comes with an old token (3) and of
  sessions (4, the number that lets one client log out while another uses the
  session and then comes back). Reindexing 4 articles by 2 has a middle, and an
  end or an error can fall before, into and after the creation of the index.

Facts that were found with other instances and that no configuration here keeps:

* With `Driver = "sqlite3"` and overlapping requests `LinkStable`,
  `AttachedAsAsked` and `SubscribedIsPolled` do not hold: the ID of a deleted
  feed is given to another one while the old copy is still polled under it, and
  an INSERT that stores nothing leaves a stale `LastInsertId`
  (`content/repo/sql/db/base/helper.go:53-79`). SQLite is the default driver.
* With the Tiny Tiny RSS interface `SubscribedIsPolled` does not hold:
  `subscribeToFeed` attaches the user to a known row without telling the manager.
* Without its second case `SubscriptionStays` does not hold: the loop looks for
  users and deletes the feed in two steps (`feed_manager.go:221-231`), and a
  request, or another link of the same POST (`api/feed.go:112`), may subscribe in
  between.
* Without their conditions on listeners and clients the liveness properties of the
  bus and of the event stream do not hold: one handler that blocks, such as the
  loop of the event stream in a write to a client that does not read, fills its
  stream of ten and stops the bus, and with it every write that announces.
* With `driver = "sqlite3"` and no condition on `deleted`, `OneRequestPerFeed` does
  not hold: the starter's row, or a copy of the keeper, of a deleted feed stands
  for the new feed that has its ID, which is subscribed as well.
* With two sockets at one remote address (`SharedAddr`, streams of one HTTP/2
  connection) `Delivered` does not hold, since the address is the key.
* Without the conditions on `overlap`, `FiltersFollowTags` is violated (the
  monitor and the requests write back old copies of the row; they may also
  create the row of a deleted user again), and so is `NoOrphan` (the goroutine
  of an update may index a feed's articles after the goroutine of its deletion
  has searched for them); on SQLite also `NothingMissing` and
  `RemovedOnlyWhenDeleted`.

## 4. Fairness

* Goroutines that can run do: weak fairness on their steps.
* Go queues the senders of a channel, so one that waits is not passed over for
  ever, and a `select` picks among its ready cases at random: strong fairness on
  being taken by a loop (`TakeDispatch`, `Register`, `Schedule`, `Unschedule`,
  `TakeOp`, `Process`, `Hand`).
* Downloads of the scheduler end: its HTTP client has a timeout of 30 seconds
  (`feed/scheduler.go:33`). The posts of hubbub use a client with a timeout too
  (`timeout_client.go`).
* A listener that still reads takes what is in its stream. That it goes on reading
  is not assumed: a handler may block for ever (`StopReading`), and the liveness
  properties of the bus hold until the stream of such a listener is full
  (`HeldUp`), or for a listener until it stops itself.
* Writes to a client that reads, or whose connection is gone, end. Those to a
  client that stalls do not: the server sets its timeout for writes to 0 on
  purpose. `Delivered` and `HandlersReturn` are conditional on `NeverStuckForGood`:
  a loop that is stuck is set free sooner or later, as when the client goes. The
  goroutines of other sockets run on meanwhile.
* In the models of other parts a call that stores something returns. It does not
  when the bus is held up.
* The unread monitor is a goroutine that nothing stops before the program ends.
* The process is started again after each end: `docker-compose.yml` has
  `restart: unless-stopped`. The steps of a start and of `Reindex` are those of
  goroutines that run. Both are weakly fair; ends are bounded by `MaxFaults`.
* Nothing is assumed of clients, users, cancellations or errors, and nothing of
  `Generate`, which fetches without a timeout: the liveness properties of
  `Thumbnailer` are conditional on `NoneStuck`.

## 5. What is proved

All for every value of the constants, from the named assumptions only. Most of
them say that capacities and bounds are positive numbers, that names such as
`None` are not members of the sets they stand apart from, and that `Workers` is
finite and not empty. `CredentialsAssumption` gives each token one login and no token the
name of a session; `AdminAssumption` says that there is a login `admin`, which
`initAdminUser` creates, and a password. `WorldsAssumption` and `OldAssumption`
describe what the first process finds: one of the three kinds of configuration, a
table of users, and for each version the tables that its code created
(`OfVersion`), with any rows. `NamesAssumption` says that feeds and tags have
positive IDs, as the databases give them, and that the user of a query for nobody
is no user (`content.User` without a login); `DatesAssumption` that five days ago,
a day ago, a quarter of an hour ago and now come in this order; `LimitAssumption`
that `ArticlesPerQuery` is a number, of either sign as in Go; `TablesAssumption`
and `InputsAssumption` give rows, entries and requests their types, one of which
is that Fever's `before` is a date, since `time.Unix` never gives the zero time.

What a recursion over a list or a number computes is proved by induction: the
library's rules of induction take an operator and cannot be instantiated here, but
a set of naturals without a least element is empty (`Least`, from the
well-foundedness of `<`), and so a set with 0 that is closed under successor has
all of them (`SetInduction`). The models write such computations as recursive
functions for that reason.

* **EventBusProofs**: `TypeCorrect`, `ExactDelivery`, `AnnouncedInOrder`,
  `LagIsBounded`, `ImplementsBroadcast`. `ExactSuffix` is not inductive by itself: that the event
  in flight is the last of `dispatched`, and which listeners have had it, depends
  on the loop's position. `DInv` adds that listeners are registered once and in
  order with `since` in range (`Registered`), that nothing is buffered for those
  who are not (`Untouched`), and `WithinCapacity`. Each action has a lemma; the
  refinement maps `TakeDispatch` to `Publish`, `Register` to `Join`, `Receive` to
  `Take`, and all else to a stutter. `CallerOrder` is inductive with the type
  invariant: a writer waits for its dispatch before it writes again, so what it
  waits with is behind all it has had dispatched.
* **SchedulerProofs**: `TypeCorrect`, `NeverPanics`, `SingleUpdater`,
  `StoresAreSerial`, `ImplementsPollSet`. The invariant `SInv` says where callers
  and updaters can be together (`CallerInv`), that the map points exactly to the
  running updaters with open channels (`MapInv`), and that a closed channel means
  an updater that is gone after a cancellation (`EndInv`). With it `Schedule` that
  accepts is `Begin`, `Send` is `HandOver`, `Store` is `Stored`, `Unschedule` is
  `End`.
* **EventSocketProofs**: `DeadConnsGo`, `NoEventTwice`, for addresses that sockets
  share as well, which no run has. `NoDeadConn` needs that the removal of a handler
  that has returned is behind its addition in the channel (`RemovalBehind`): an
  addition still queued would bring the connection back. `WrittenOnce` needs that
  an event is in one place at a time (`Places`): with its goroutine, once in the
  channel, with the loop, or done with; and that a socket it was written to is not
  among those the loop has still to deal with.
* **FeedManagerProofs**: on PostgreSQL `RowKeepsLink` and `SubscribedAsAsked`, for
  any number of requests at once. Rows, requests, copies on their way to the
  scheduler and copies in it all carry an ID with a link; `Agree` says that those
  with one ID have one link and that no ID is beyond the sequence. A step copies
  what is there already, or takes an ID that nothing carries (`InsertsNew`), which
  is what SQLite does not do and why the driver is a hypothesis. With it a poll
  stores the link the row has, and a request that attaches its user holds the link
  of the row (`AsAsked` says that this is one it may ask for). `OnlyUnsubscribed`
  needs neither the driver nor `Agree`, and holds for any requests of both
  interfaces at once: `Late` says that as soon as the loop has found no users of a
  feed, all its subscriptions are among those made since, so the deletion takes no
  other along.
* **FeedManagerProofs**, hubs: `AskedOnce`, on both drivers. `OneRequestPerFeed` is
  not inductive by itself: a second `Subscribe` is refused because of the row, not
  because of a goroutine or list that has the feed. `HInv` adds that whoever stands
  for a feed has its row there, or the feed was deleted (`HasRow`), and spells out
  that goroutines, the starter's rows and the keeper's list have it once and one
  at a time (`OnePlace`), both for IDs that have had but one feed since the start
  (`Once`); on PostgreSQL these are all, because no ID comes back (`NotAgain`),
  though feeds do when a post fails. What `Without` leaves of the list is a part
  of it, each element once (by induction over the list).
* **MonitorProofs**, thumbnails: `TypeCorrect`, `NeverTwice`, `NoneLeftOut`,
  `NoSendOnClosed`. The invariant `IInv` accounts for every article: it is with
  the feeder and untouched, or with exactly one worker, or was generated
  (`Accounted`); a worker that leaves without an error found the channel of the
  articles closed, which is when none was left (`Ends`); the counter is the number
  of workers that have not taken themselves off (`Counted`), which is what makes
  the closer, who sees nothing but the counter, come after all of them, and the
  handler after the closer (`Last`).
* **MonitorProofs**, filters: `NothingLeftBehind`, `FiltersKeepUp`. The row of a user may
  go and come back between any two steps of a request. `TagInv` says that what
  requests and events carry are rows of users, so every write of a whole row is one
  of a user who is there; the foreign key refuses tags of one who is not, and the
  deletion takes the tags with it. `FilterInv` says what is true while nothing has
  overlapped: everything is quiet and the filters follow, or one request works on
  the row as it is, or its tags are stored and the filters agree on all other
  feeds, or the event with that row is on its way to the monitor.
* **IndexMonitorProofs**: `EveryArticleIndexed`, `NoDocumentOutlives`,
  `OnlyDeletedFeedsLose`, for any batch size and any number of goroutines. Events,
  the stream and goroutines are brought to one language: `Adds(f, i)`, the article
  is on its way to the index; `Removes(f)`, documents of the feed are on their way
  out; `Takes(f, i)`, this one among them. An article is indexed or `Adds` it or it
  failed (`Covered`), a document has its article or something `Takes` it
  (`Passing`), and who removes finds only documents of feeds that are gone
  (`Removing`, `Found`). All of it holds on PostgreSQL, or as long as nothing
  overlaps.
* **ArticlesProofs**: `MarkedOnce`, `MarkedAsAsked`, `CountsAddUp`,
  `PagesShowAll`, `InterfacesAgree`, for any users, feeds, articles, documents,
  filters, limits and requests.
  `OInv` says that what is on its way to the monitor was announced once, was
  handled for nobody and is in the table (`Once`); with that `MonitorMarksOnce`
  follows from what `Store` returns for any document: rows that are there stay,
  and what is new comes after them (`StoreGrown`).
  `RInv` says that every request is as asked: each write it has left selects by
  options that are within what the client named (`Within`), and those of a tag by
  the feeds that were read for it (`Fits`). It is proved handler by handler, from
  `PlanArticle` to `PlanMark`, and `NamesFacts` then says of any table what such a
  write can touch.
  `LInv` adds that subscriptions are of known users and feeds. It is all that the
  lists need, which hold of every table: `Partition` adds up the sizes of the
  parts of a set for the counts; `OrdersFacts` says that an ORDER BY returns each
  row once, and `PageFacts` what a limit leaves; `Amounts` reduces the options of a
  handler, whatever order it puts them in, to what they select and how many. For
  the pages `Seen` is the invariant of the client: after k pages it has seen the k
  newest articles, or all.
* **ServerProofs**, accounts: `SomeoneAdministers`, `VoidIsRefused`,
  `RowsChangeAsAsked`, for any logins, tokens, sessions, clients and ends of the
  process. The invariant `AInv` says of each request which steps its operation
  passes and what it knows at each (`Placed`), that what it is about to write is
  what was asked for, made of the row that is there as long as the copy is fresh
  (`Writing`), and that a void credential has a check ahead that will see it
  (`Voided`): revoked tokens are in the storage, and an ended session is nobody's
  and in no request that has looked it up (`Over`). Until something excuses it there
  is nobody at all or an administrator (`Manned`): who deletes by a fresh copy is one
  and deletes another.
* **ServerProofs**, tables: `UpgradesKeepData`, for any rows and any ends of the
  process. `Stage` says which tables a database whose row says version `v` can
  have: those of `v`, or those of a later version when the process ended between an
  upgrade and its row. Each upgrade that can run leaves the same said of articles
  and labels (`SplitSays`, `LabelSays`), a table that is created adds nothing
  (`CreatedSays`), and the rows that go with a user are those that should
  (`CascadeSays`). `Upgrading` ties that to the phases of a start, so the tables
  are current whenever the version is stored, requests are served or a command
  that was started before is still at work.

Every invariant and every action property that a run checks is a theorem, but for
`InvalidJustEnds` of the event stream, which is violated. Only model-checked: the
liveness properties (TLAPS has no proof rules for fairness and `ENABLED` in this
version). The type invariants are theorems or parts of the invariants above, and
in no run.

## 6. Where code and promises differ

A run that TLC finds violated:

* **A second event to an invalid socket panics** (`socket_logout`). When the
  validator or a write fails, `processEvent` and `ping` close `done` and leave the
  connection in the table (`api/events.go:181, 190, 200, 207`); the next closure
  that reaches it before the handler has left closes `done` again.

Seen while modelling, not the subject of a run. Polling and events:

* A removed feed goes on being polled: `stopUpdatingFeed`
  (`feed_manager.go:214-233`) deletes the row but nobody tells the scheduler, and
  the next update to store makes `feedRepo.Update` insert the feed again.
* A hub's callback has no route: hubs are given `/api/v2/hubbub/<feed id>`
  (`hubbub.go:240-242`), and `api/api.go:138-142` has a route for `/hubbub/` alone.
  The timer of the renewals is set once, so a lease is renewed once.
* An article that changes is not announced, so the index keeps its old text
  (`content/repo/sql/feed.go:373`).
* `updateFeed` of the scheduler calls itself for each round, so its stack grows
  with the rounds.
* The user in a `FeedSetTagsEvent` is written back as it was: a filter added or a
  setting changed in between is lost (`content/monitor/user-filters.go:66`).
* `DetachFrom` leaves the rows of `users_feeds_tags`.
* A client of `/events` that does not read, and does not go, stops the loop that
  writes to all clients; its stream of the bus fills, and every write that has
  something to announce then waits (`api/events.go:236-256`, `bus.go:47`).
* A post to a hub that fails stores the copy of the feed it was for
  (`hubbub.go:231-236`), so a feed deleted meanwhile is there again.

Articles:

* An empty list of feeds or of IDs is no restriction (`content/repo/sql/article.go`,
  `len(opts.FeedIDs) > 0`). A tag that loses its last feed between the two reads
  of a request, or has none, names all articles: marking the tag as read marks
  everything. So do an unparsable `with_ids` and an empty list in `updateArticle`.
* `WhereMultipleORs` joins `!=` with OR for 2 to 19 values, which is always true: a
  filter with several inverted feeds hides in all feeds. A filter is skipped when
  none of its feeds is in the query, also when they are inverted. Terms of filters
  are compared as they are with text in lower case.
* `updateArticle` discards the errors of its statements. On PostgreSQL an entry
  whose GUID is one article's and whose link another's aborts the transaction, and
  with it every update of the feed. Entries without a link overwrite each other.
* The first articles of a feed that a user subscribes to are announced before
  `AttachTo`, so they may stay read. An article is shown as read until the monitor
  comes to it, and a mark as read made before that is undone.
* Paging continues strictly before the last date, so of articles with equal dates
  some are skipped. A negative limit lifts `ArticlesPerQuery`. `HighScoredFirst`
  with the older first gives the low scores first. Bounds of ID and score together
  make SQL that no driver takes.
* `getHeadlines` cannot serve category 0. Items of Fever have no order. Catching up
  leaves out articles with a date in the future.
* Searches of bleve limit their hits before they know which feeds are the user's,
  take the bounds of IDs from a field no document has, and ignore filters,
  favourites and read marks. `content/search/elastic.go` overwrites the filter for
  each feed, so that only the last restricts a search.

Accounts:

* `Active` is looked at nowhere when somebody signs in.
* `Update` writes whole rows and creates missing ones: a late write reverts others
  and brings a deleted user back. `addUser` checks and writes in two steps, and
  `user-admin add` overwrites an existing user, administrators included.
* Two administrators can delete each other; the next start then creates
  `admin` with its well-known password.
* Tokens outlive a change of the password and the account: a login that is created
  again makes old tokens valid. `RemoveExpired` of the token storage is never
  called.
* The write-back of a session by one request (`api/ttrss/handler.go:134-136`) brings
  back a session that another has logged out in between. A login that finds a
  session of the user shares it without renewing it.

Start and upgrade:

* A database of version 1 can never be opened: its upgrade copies into
  `users_articles_states`, which is created nowhere. A newer version panics.
* An end between the commit of an upgrade and the row of the version makes every
  later start repeat that upgrade and fail.
* After converting a legacy configuration `main` runs the command with the zero
  value, since the converted one is in a variable of the inner block
  (`cmd/readeef/main.go:61`), and the service panics; the next start succeeds. An
  end between the two renames (lines 137 and 141) leaves no configuration, and the
  next start uses the defaults, that is another database.
* `PRAGMA foreign_keys` is executed once, on one connection of the pool.
* An end inside `bleve.NewUsing` leaves a directory that is found and cannot be
  opened: `initSearchProvider` logs the error at every start and the server runs
  without a search. `Reindex` is not resumed after an error or an end: an index
  that exists is not new. It pages by offset through an unordered query while articles change, and
  the monitors register after the manager may have begun to poll.

## 7. What is not modelled

`PROJECT.json` lists every part with its reason. In short: parsers, extraction,
processors and conversions are transformations of text without state; popularity
and Elasticsearch are external services; the web client and the files it is made
of are another program. Within modelled parts: TTL and processors of feeds, how
scores come about, `SkipHours` and `SkipDays` beyond a nondeterministic skip, what
the hubbub callback would do if it were reached, the text of documents in the
index, filters without a tag in `UserFilters`, flags of the commands, the contents
of a configuration but for the database it names, tables whose definition no
upgrade has changed, expiry of tokens by their date.

Two races of Go's memory are not modelled: the cache of prepared statements
(`content/repo/sql/db/db.go:211-219`), where an access without a lock aborts the
program or has no effect on anything a model distinguishes, and the buffers of
thumbnails (`content/thumbnail/thumbnail.go:36`), whose bytes may be overwritten
after they are put back into the pool; `Thumbnailer` has the making of a thumbnail
as one step.

## 8. Plan

The order so far was: the bus, which every write of the program passes through;
the scheduler; the manager on top of it; the listeners of the bus and hubbub;
articles with the unread monitor; accounts, database and the process. What would
tell most next:

1. The import of OPML as a sequence of subscriptions on `FeedManager`, and the
   scores of `popularity` with their rate limits.
2. Elasticsearch beside bleve: the same promises of a search with its own filters.
3. The liveness properties, once the proof system has rules for fairness.

## 9. Running the checks

In this directory, with TLC and TLAPS on the path:

    tlc -config MCEventBus.cfg MCEventBus
    tlapm EventBusProofs.tla

The names of runs, modules and configurations are in `PROJECT.json`. The longest
runs, `bus`, `socket`, `index`, `manager_overlap`, `hubbub`, `server` and
`articles`, take one to three minutes on two cores; the proofs of `ArticlesProofs`
take about eight on four cores, those of the other modules about two at most.
