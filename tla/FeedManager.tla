---------------------------- MODULE FeedManager ----------------------------
(***************************************************************************)
(* feed_manager.go with the handlers that call it (api/feed.go, the Tiny   *)
(* Tiny RSS calls of api/ttrss/settings.go) and the feed rows it keeps     *)
(* (content/repo/sql/feed.go).                                             *)
(*                                                                         *)
(* A request r adds or deletes a feed for a user, one database or manager  *)
(* call at a time; others run in between.  The manager's loop takes the    *)
(* closures AddFeed and RemoveFeed send on fm.ops.  The scheduler is the   *)
(* set of polled feeds of PollSet: polled[i] is the link of the copy       *)
(* scheduled under ID i.  A copy never changes again, and a poll stores it *)
(* with repo.Update, which creates a row when it finds none to change.     *)
(* Requests and polls end when the process does; the rows stay.            *)
(***************************************************************************)
EXTENDS Naturals

CONSTANTS
  Users,
  Links,        \* the links users ask for, of feeds and of pages
  Reqs,         \* requests that may be in flight at once
  Clients,      \* the front ends in use, out of "api" and "ttrss"
  Driver,       \* "postgres" or "sqlite3"
  Discovered,   \* Discovered[l]: the links of the feeds found at l
  MaxID,        \* bound on the IDs of feeds
  MaxRestarts,  \* bound on the restarts of the process
  None          \* no link, no user

ASSUME MaxIDAssumption == MaxID \in Nat \ {0}
ASSUME NoneAssumption == None \notin Links \cup Users
ASSUME DriverAssumption == Driver \in {"postgres", "sqlite3"}
ASSUME DiscoveredAssumption == Discovered \in [Links -> SUBSET Links]

(* Valid IDs start at 1; 0 is the ID of a feed that has none.              *)
IDs == 0 .. MaxID
Feed == [id : IDs, link : Links \cup {None}]
NoFeed == [id |-> 0, link |-> None]

VARIABLES
  rows,      \* rows[i]: the link of row i of the table feeds, or None
  seq,       \* the last value of the sequence feeds_id_seq
  subs,      \* the table users_feeds
  req,       \* req[r]: the call request r makes next, its user, the link
             \* it came with and the copy of the feed in its hands
  loop,      \* what loop is doing to the feed of a RemoveFeed
  late,      \* subscriptions to the feed loop is about to delete that were
             \* made since it asked for the users (history)
  starting,  \* copies whose scheduleFeed has not reached the scheduler
  polled,    \* polled[i]: the link of the copy polled under ID i, or None
  restarts

store == <<rows, seq, subs>>
memory == <<loop, late, starting, polled>>
vars == <<store, req, memory, restarts>>

Idle == [at |-> "select", feed |-> NoFeed]
NoReq == [at |-> "idle", user |-> None, asked |-> None, feed |-> NoFeed]

Init ==
  /\ rows = [i \in IDs |-> None]
  /\ seq = 0
  /\ subs = {}
  /\ req = [r \in Reqs |-> NoReq]
  /\ loop = Idle
  /\ late = {}
  /\ starting = {}
  /\ polled = [i \in IDs |-> None]
  /\ restarts = 0

-----------------------------------------------------------------------------
(* The table feeds.                                                        *)
Present(l) == \E i \in IDs : rows[i] = l

(* Wrong: the largest ID is given again once its row is gone.              *)
LargestPlusOne ==
  CHOOSE n \in 1 .. MaxID + 1 :
    /\ \A i \in IDs : rows[i] # None => i < n
    /\ n = 1 \/ rows[n - 1] # None

(* SERIAL takes the next value of a sequence, INTEGER PRIMARY KEY without  *)
(* AUTOINCREMENT one more than the largest ID in the table.  (The values a *)
(* failed INSERT burns are left out.)                                      *)
NewID == IF Driver = "postgres" THEN seq + 1 ELSE LargestPlusOne

(* An INSERT of a feed with link l, which has no row.                      *)
Insert(l) ==
  /\ ~Present(l)
  /\ NewID <= MaxID
  /\ rows' = [rows EXCEPT ![NewID] = l]
  /\ seq' = seq + 1
  /\ seq < MaxID
  /\ UNCHANGED subs

(* Request r goes from one call to the next with the feed f in its hands.  *)
Go(r, from, to, f) ==
  /\ req[r].at = from
  /\ req' = [req EXCEPT ![r] = IF to = "idle" THEN NoReq
                               ELSE [@ EXCEPT !.at = to, !.feed = f]]
Move(r, from, to) == Go(r, from, to, req[r].feed)

Row(i) == [id |-> i, link |-> rows[i]]

UsersOf(i) == {u \in Users : <<u, i>> \in subs}

-----------------------------------------------------------------------------
(* POST /feed, a goroutine per link: addFeedByURL.  Or the first lookup of *)
(* subscribeToFeed.                                                        *)
AskAdd(r, u, l) ==
  /\ req[r] = NoReq
  /\ \E c \in Clients :
       req' = [req EXCEPT ![r] =
                 [at |-> IF c = "api" THEN "find" ELSE "lookup",
                  user |-> u, asked |-> l, feed |-> NoFeed]]
  /\ UNCHANGED <<store, memory, restarts>>

(* subscribeToFeed goes through the manager only for a link without a row; *)
(* a user of the feed is done at once.                                     *)
Lookup(r) ==
  /\ \/ ~Present(req[r].asked) /\ Move(r, "lookup", "find")
     \/ \E i \in IDs :
          /\ rows[i] = req[r].asked
          /\ Go(r, "lookup",
                IF req[r].user \in UsersOf(i) THEN "idle" ELSE "attach", Row(i))
  /\ UNCHANGED <<store, memory, restarts>>

(* Wrong: a known feed is attached without a word to the manager.          *)
FindSkipsAdd(r) ==
  /\ \/ ~Present(req[r].asked) /\ Move(r, "find", "search")
     \/ \E i \in IDs :
          rows[i] = req[r].asked /\ Go(r, "find", "attach", Row(i))
  /\ UNCHANGED <<store, memory, restarts>>

(* AddFeedByLink: FindByLink.                                              *)
Find(r) ==
  /\ \/ ~Present(req[r].asked) /\ Move(r, "find", "search")
     \/ \E i \in IDs :
          rows[i] = req[r].asked /\ Go(r, "find", "add", Row(i))
  /\ UNCHANGED <<store, memory, restarts>>

(* AddFeedByLink: feed.Search; the first of the feeds found is taken.  (A  *)
(* search that finds none without an error leads to a feed without a link, *)
(* to which AttachTo subscribes nobody; it is left out.)                   *)
Search(r) ==
  /\ req[r].at = "search"
  /\ \E l \in Discovered[req[r].asked] :
       Go(r, "search", "create", [id |-> 0, link |-> l])
  /\ UNCHANGED <<store, memory, restarts>>

(* AddFeedByLink: repo.Update of the new feed.  When the INSERT ... EXCEPT *)
(* inserts nothing, for a row with equal columns is there, LastInsertId is *)
(* that of an earlier INSERT of the connection, into whatever table;       *)
(* RETURNING finds no row, which is an error (Fail).                       *)
Create(r) ==
  LET l == req[r].feed.link
      WithID(i) == Go(r, "create", "add", [id |-> i, link |-> l])
  IN
  /\ \/ Insert(l) /\ WithID(NewID)
     \/ /\ Driver = "sqlite3"
        /\ Present(l)
        /\ \E i \in IDs : WithID(i)
        /\ UNCHANGED store
  /\ UNCHANGED <<memory, restarts>>

(* AttachTo; the foreign key refuses a feed that has gone.                 *)
Attach(r) ==
  LET i == req[r].feed.id IN
  /\ rows[i] # None
  /\ Move(r, "attach", "idle")
  /\ subs' = subs \cup {<<req[r].user, i>>}
  /\ late' = IF loop.at = "delete" /\ loop.feed.id = i
             THEN late \cup {<<req[r].user, i>>} ELSE late
  /\ UNCHANGED <<rows, seq, loop, starting, polled, restarts>>

(* DELETE /feed/{feedID}: feedContext gets the feed of the user.           *)
AskDelete(r, u, i) ==
  /\ <<u, i>> \in subs
  /\ req[r] = NoReq
  /\ req' = [req EXCEPT ![r] = [at |-> "detach", user |-> u, asked |-> None,
                                feed |-> Row(i)]]
  /\ UNCHANGED <<store, memory, restarts>>

(* DetachFrom; unsubscribeFeed looks at the remaining users first, and     *)
(* tells the manager only when there are none.                             *)
Detach(r) ==
  /\ \E c \in Clients :
       Move(r, "detach", IF c = "api" THEN "remove" ELSE "users")
  /\ subs' = subs \ {<<req[r].user, req[r].feed.id>>}
  /\ UNCHANGED <<rows, seq, memory, restarts>>

UsersLeft(r) ==
  /\ Move(r, "users", IF UsersOf(req[r].feed.id) = {} THEN "remove" ELSE "idle")
  /\ UNCHANGED <<store, memory, restarts>>

(* A database or network error, or a violated constraint, ends a request.  *)
Fail(r) ==
  /\ \E at \in {"lookup", "find", "search", "create", "attach", "detach",
                "users"} : Move(r, at, "idle")
  /\ UNCHANGED <<store, memory, restarts>>

-----------------------------------------------------------------------------
(* The loop runs AddFeed's closure, startUpdatingFeed: go scheduleFeed.    *)
LoopAdd(r) ==
  /\ loop = Idle
  /\ Move(r, "add", "attach")
  /\ starting' = starting \cup {req[r].feed}
  /\ UNCHANGED <<store, loop, late, polled, restarts>>

(* The loop runs RemoveFeed's closure, stopUpdatingFeed: repo.Users ...    *)
LoopRemove(r) ==
  /\ loop = Idle
  /\ Move(r, "remove", "idle")
  /\ loop' = [at |-> "users", feed |-> req[r].feed]
  /\ UNCHANGED <<store, late, starting, polled, restarts>>

(* Wrong: the feed is an orphan whatever repo.Users returned.              *)
LoopUsersIgnored ==
  /\ loop.at = "users"
  /\ loop' = [loop EXCEPT !.at = "delete"]
  /\ UNCHANGED <<store, req, late, starting, polled, restarts>>

LoopUsers ==
  /\ loop.at = "users"
  /\ loop' = IF UsersOf(loop.feed.id) = {}
             THEN [loop EXCEPT !.at = "delete"] ELSE Idle
  /\ UNCHANGED <<store, req, late, starting, polled, restarts>>

(* ... and, when there are none, repo.Delete: the subscriptions of the row *)
(* go with it (ON DELETE CASCADE).                                         *)
LoopDelete ==
  /\ loop.at = "delete"
  /\ loop' = Idle
  /\ late' = {}
  /\ rows' = [rows EXCEPT ![loop.feed.id] = None]
  /\ subs' = {s \in subs : s[2] # loop.feed.id}
  /\ UNCHANGED <<seq, req, starting, polled, restarts>>

(* An error of either query is logged and the loop goes on.                *)
LoopFails ==
  /\ loop # Idle
  /\ loop' = Idle
  /\ late' = {}
  /\ UNCHANGED <<store, req, starting, polled, restarts>>

(* scheduleFeed reaches the scheduler, which turns away a known ID         *)
(* (PollSet's Begin).                                                      *)
Schedule(f) ==
  /\ f \in starting
  /\ starting' = starting \ {f}
  /\ polled' = [polled EXCEPT ![f.id] = IF @ = None THEN f.link ELSE @]
  /\ UNCHANGED <<store, req, loop, late, restarts>>

(* The scheduler hands over an update of the copy polled under i and       *)
(* fm.updateFeed stores it (PollSet's HandOver and Stored): UPDATE writes  *)
(* the link with all else; when no row has the ID the feed is created,     *)
(* and the new ID is lost with the argument of fm.updateFeed.  A violated  *)
(* UNIQUE(link) is logged.                                                 *)
Poll(i) ==
  /\ polled[i] # None
  /\ \/ /\ rows[i] # None
        /\ \A j \in IDs \ {i} : rows[j] # polled[i]
        /\ rows' = [rows EXCEPT ![i] = polled[i]]
        /\ UNCHANGED <<seq, subs>>
     \/ rows[i] = None /\ Insert(polled[i])
  /\ UNCHANGED <<req, memory, restarts>>

(* The process ends and starts again: FeedManager.Start adds every row     *)
(* (repo.Unsubscribed is an outer join) before the server listens.         *)
Restart ==
  /\ restarts < MaxRestarts
  /\ restarts' = restarts + 1
  /\ req' = [r \in Reqs |-> NoReq]
  /\ loop' = Idle
  /\ late' = {}
  /\ starting' = {Row(i) : i \in {j \in IDs : rows[j] # None}}
  /\ polled' = [i \in IDs |-> None]
  /\ UNCHANGED store

ReqStep(r) ==
  \/ \E u \in Users, l \in Links : AskAdd(r, u, l)
  \/ \E u \in Users, i \in IDs : AskDelete(r, u, i)
  \/ Lookup(r) \/ Find(r) \/ Search(r) \/ Create(r) \/ Attach(r)
  \/ Detach(r) \/ UsersLeft(r) \/ Fail(r)
  \/ LoopAdd(r) \/ LoopRemove(r)

LoopStep == LoopUsers \/ LoopDelete \/ LoopFails

Next ==
  \/ \E r \in Reqs : ReqStep(r)
  \/ LoopStep
  \/ \E f \in starting : Schedule(f)
  \/ \E i \in IDs : Poll(i)
  \/ Restart

(* Only what a feed needs to become polled: its scheduleFeed runs, and the *)
(* scheduler's loop takes it.                                              *)
Fairness == \A f \in Feed : WF_vars(Schedule(f))

Spec == Init /\ [][Next]_vars
FairSpec == Spec /\ Fairness

-----------------------------------------------------------------------------
(* The row of a feed keeps its link as long as it exists, so the articles  *)
(* and the subscriptions of an ID are never those of another feed          *)
(* (content/repo/sql/feed.go:149-202).                                     *)
LinkStable ==
  [][\A i \in IDs :
       rows[i] # None /\ rows'[i] # None => rows'[i] = rows[i]]_vars

(* A request subscribes its user to the feed it asked for or to one found  *)
(* at its link, though the row may go and others come between the lookup   *)
(* and AttachTo (api/feed.go:160-161).                                     *)
AttachedAsAsked ==
  [][\A s \in subs' \ subs : \E r \in Reqs :
       /\ req[r].at = "attach" /\ req[r].user = s[1]
       /\ rows[s[2]] \in {req[r].asked} \cup Discovered[req[r].asked]
       /\ req'[r] = NoReq]_vars

(* Whatever requests overlap, a subscription ends only by its user's own   *)
(* request or, the one loss there is, with its feed when it was made after *)
(* stopUpdatingFeed asked for the users of that feed: no other deletion,   *)
(* no stale copy of a poll or a request, and no feed of other subscribers  *)
(* takes it away (feed_manager.go:221-231, api/feed.go:112, 236-256).      *)
SubscriptionStays ==
  [][\A s \in subs \ subs' :
       \/ \E r \in Reqs : /\ req[r].at = "detach"
                          /\ <<req[r].user, req[r].feed.id>> = s
       \/ loop.at = "delete" /\ loop.feed.id = s[2] /\ s \in late]_vars

(* The feed of a subscriber comes to be polled, with the link of its row,  *)
(* after restarts and after rows that stale polls have put back            *)
(* (feed_manager.go:58-77, 126-128).                                       *)
SubscribedIsPolled ==
  \A u \in Users, i \in IDs :
    <<u, i>> \in subs ~>
      (<<u, i>> \notin subs \/ (rows[i] # None /\ polled[i] = rows[i]))
=============================================================================
