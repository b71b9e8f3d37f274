---------------------------- MODULE Subscriptions ---------------------------
(***************************************************************************)
(* The state of hubbub.go: the rows of the subscriptions of feeds at their *)
(* hubs, the goroutines that post to the hubs, and where a subscription    *)
(* stands on its way from one to the other.                                *)
(***************************************************************************)
EXTENDS Naturals, Sequences

CONSTANTS
  MaxFeed, \* bound on the IDs of feeds
  MaxKept, \* bound on the list of the keeper at a call of Subscribe
  Tasks,   \* goroutines of Subscribe and Unsubscribe, as a bound
  Starter  \* the goroutine that works through the database

ASSUME MaxFeedAssumption == MaxFeed \in Nat
ASSUME StarterAssumption == Starter \notin Tasks

Feeds == 1 .. MaxFeed

VARIABLES
  driver,   \* the database, "postgres" or "sqlite3"
  feeds,    \* the IDs of the feeds with a hub link that have a row
  row,      \* row[f]: f's hubbub_subscriptions row: "none", "failed" for one
            \* with subscription_failure, or "verified"
  deleted,  \* IDs of feeds deleted since the start (history)
  task,     \* task[t]: what the goroutine t does for which feed
  left,     \* rows the starter has read and not yet dealt with
  keeper,   \* the keeper: at its select, renewing, or sending
  listed,   \* the subscriptions it keeps, copies of rows
  asked,    \* feeds whose hub has accepted a request and will call back
  timer     \* the keeper's timer has yet to fire

Free == [at |-> "free"]
Workers == Tasks \cup {Starter}

Subscribing(f) ==
  {t \in Workers : task[t] # Free /\ task[t].mode = "subscribe"
                   /\ task[t].feed = f}

(* Where it stands that a feed is to be asked for or has been.             *)
Places(f) ==
  ({"task"} \X Subscribing(f))
    \cup ({"left"} \X {s \in left : s.feed = f})
    \cup ({"listed"} \X {n \in DOMAIN listed : listed[n].feed = f})

(* A feed is asked for at its hub once per start: it is waiting in the     *)
(* starter's list, or being posted by one goroutine, or kept once, though  *)
(* both the starter and the manager's AddFeed see to it, and though posts  *)
(* that fail put back feeds that were deleted (hubbub.go:75-84, 134-153,   *)
(* 231-236).  With sqlite3 it takes an ID that no feed deleted since the   *)
(* start has had: what was begun for that one goes on for the next.        *)
OneRequestPerFeed ==
  \A f \in Feeds : driver = "postgres" \/ f \notin deleted =>
    \A p, q \in Places(f) : p = q
=============================================================================
