------------------------------ MODULE UserRows ------------------------------
(***************************************************************************)
(* The rows of a user, the requests that hold copies of them and the       *)
(* events that carry such copies to the monitor of the filters.            *)
(***************************************************************************)
EXTENDS Naturals, Sequences, FiniteSets

CONSTANTS
  Feeds,    \* feeds of the user
  Tags,     \* tags
  Requests, \* requests, as a bound on those under way
  MaxEvents \* events that wait for the monitor: a full stream blocks Dispatch

ASSUME MaxEventsAssumption == MaxEvents \in Nat \ {0}

VARIABLES
  row,     \* the row of users: present, and the filters of the profile
  member,  \* the user has users_feeds rows
  tags,    \* tags[f]: the tags of f in users_feeds_tags
  req,     \* req[r]: the request r
  events,  \* FeedSetTagsEvents the monitor has yet to take
  overlap  \* history: a request began before all else was dealt with

FeedsOf(t) == {f \in Feeds : t \in tags[f]}

Free == [at |-> "free"]
Drained == (\A r \in Requests : req[r] = Free) /\ events = <<>>

-----------------------------------------------------------------------------
(* "Add the feed id to the list of feeds", "Remove the feed id, if it was  *)
(* in the list": once everything is dealt with, the filter of a tag        *)
(* carries the feeds of the tag (user-filters.go:27-54).  It takes         *)
(* requests that do not overlap: the monitor works on the copy of the row  *)
(* that came with the event, and a write since then is lost.               *)
FiltersFollowTags ==
  ~overlap /\ Drained /\ row.present => \A t \in DOMAIN row.filters : row.filters[t] = FeedsOf(t)

(* The check of SetUserTags and its transaction leave no tags to a user    *)
(* who was deleted in between (content/repo/sql/feed.go:294-350).          *)
NoTagsWithoutUser == ~row.present => \A f \in Feeds : tags[f] = {}
=============================================================================
