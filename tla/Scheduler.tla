----------------------------- MODULE Scheduler -----------------------------
(***************************************************************************)
(* feed/scheduler.go and the goroutine of the feed manager that ranges     *)
(* over the channel ScheduleFeed returns (feed_manager.go:200-212).        *)
(*                                                                         *)
(* Three kinds of goroutines meet here.  The loop Start owns feedMap and   *)
(* runs the closures sent on s.ops.  A caller c calls ScheduleFeed for the *)
(* feed want[c] with a channel of its own, named c too, and then ranges    *)
(* over it.  If the loop accepts the feed it starts the updater of c, the  *)
(* goroutine updateFeed, which downloads, sends on c's channel and sleeps, *)
(* until it sees the context cancelled and asks the loop to close the      *)
(* channel.                                                                *)
(***************************************************************************)
EXTENDS Naturals

CONSTANTS
  Feeds,     \* feed IDs
  Callers,   \* scheduleFeed goroutines; each schedules one feed
  Contents,  \* documents a feed's link may serve, by their md5
  Kind,      \* Kind[d]: "articles", "empty" or "broken", what parsing d gives
  None       \* no feed, no caller, no hash

ASSUME NoneAssumption == None \notin Feeds \cup Callers \cup Contents
ASSUME KindAssumption == Kind \in [Contents -> {"articles", "empty", "broken"}]

VARIABLES
  want,       \* want[c]: the feed c schedules
  pc,         \* pc[c]: where the caller is
  feedMap,    \* feedMap[f]: the channel (caller) in f's payload, or None
  chan,       \* chan[c]: c's channel is "open" or "closed"
  updater,    \* updater[c]: where the updater started for c is
  hash,       \* hash[c]: contentHash of that updater, None when empty
  data,       \* data[c]: the UpdateData in its hands
  exited,     \* Start has returned
  cancelled,  \* ctx.Done() is closed
  panicked    \* a goroutine closed a nil or closed channel, or sent on one

vars == <<want, pc, feedMap, chan, updater, hash, data, exited, cancelled,
          panicked>>
updaterVars == <<updater, hash, data>>

Init ==
  /\ want = [c \in Callers |-> None]
  /\ pc = [c \in Callers |-> "idle"]
  /\ feedMap = [f \in Feeds |-> None]
  /\ chan = [c \in Callers |-> "open"]
  /\ updater = [c \in Callers |-> "none"]
  /\ hash = [c \in Callers |-> None]
  /\ data = [c \in Callers |-> "nothing"]
  /\ exited = FALSE
  /\ cancelled = FALSE
  /\ panicked = FALSE

-----------------------------------------------------------------------------
(* startUpdatingFeed: go fm.scheduleFeed(ctx, feed, d).                    *)
Call(c, f) ==
  /\ pc[c] = "idle"
  /\ pc' = [pc EXCEPT ![c] = "calling"]
  /\ want' = [want EXCEPT ![c] = f]
  /\ UNCHANGED <<feedMap, chan, updaterVars, exited, cancelled, panicked>>

(* Wrong: the closure does not look the feed up first.                     *)
ScheduleAgain(c) ==
  /\ ~exited
  /\ pc[c] = "calling"
  /\ pc' = [pc EXCEPT ![c] = "ranging"]
  /\ feedMap' = [feedMap EXCEPT ![want[c]] = c]
  /\ updater' = [updater EXCEPT ![c] = "check"]
  /\ UNCHANGED <<want, chan, hash, data, exited, cancelled, panicked>>

(* The loop runs ScheduleFeed's closure.  The channel of a caller whose    *)
(* feed is scheduled already is returned all the same.                     *)
Schedule(c) ==
  /\ ~exited
  /\ pc[c] = "calling"
  /\ pc' = [pc EXCEPT ![c] = "ranging"]
  /\ IF feedMap[want[c]] = None
     THEN /\ feedMap' = [feedMap EXCEPT ![want[c]] = c]
          /\ updater' = [updater EXCEPT ![c] = "check"]
     ELSE UNCHANGED <<feedMap, updater>>
  /\ UNCHANGED <<want, chan, hash, data, exited, cancelled, panicked>>

(* The first select of updateFeed, right after the start or the sleep.     *)
Check(c) ==
  /\ updater[c] \in {"check", "wait"}
  /\ updater' = [updater EXCEPT ![c] = IF cancelled THEN "unschedule"
                                       ELSE "download"]
  /\ UNCHANGED <<want, pc, feedMap, chan, hash, data, exited, cancelled,
                 panicked>>

(* SkipHours and SkipDays may spare the download, never the first one.     *)
Skip(c) ==
  /\ updater[c] = "download"
  /\ hash[c] # None
  /\ updater' = [updater EXCEPT ![c] = "recheck"]
  /\ data' = [data EXCEPT ![c] = "nothing"]
  /\ UNCHANGED <<want, pc, feedMap, chan, hash, exited, cancelled, panicked>>

(* Wrong: the updater gives the feed up after an error.                    *)
DownloadFailsForGood(c) ==
  /\ updater[c] = "download"
  /\ updater' = [updater EXCEPT ![c] = "unschedule"]
  /\ data' = [data EXCEPT ![c] = "error"]
  /\ UNCHANGED <<want, pc, feedMap, chan, hash, exited, cancelled, panicked>>

(* The connection, the status or the body is at fault; the hash stays.     *)
DownloadFails(c) ==
  /\ updater[c] = "download"
  /\ updater' = [updater EXCEPT ![c] = "recheck"]
  /\ data' = [data EXCEPT ![c] = "error"]
  /\ UNCHANGED <<want, pc, feedMap, chan, hash, exited, cancelled, panicked>>

(* What downloadFeed makes of a document: nothing when it is the last one  *)
(* again or has no articles (isUpdated), an error when it does not parse.  *)
Parsed(d, last) ==
  IF d = last \/ Kind[d] = "empty" THEN "nothing"
  ELSE IF Kind[d] = "broken" THEN "error" ELSE "update"

Download(c, d) ==
  /\ updater[c] = "download"
  /\ updater' = [updater EXCEPT ![c] = "recheck"]
  /\ data' = [data EXCEPT ![c] = Parsed(d, hash[c])]
  /\ hash' = [hash EXCEPT ![c] = d]
  /\ UNCHANGED <<want, pc, feedMap, chan, exited, cancelled, panicked>>

(* Wrong: updateFeed calls itself again only after it sent something.      *)
RecheckReturns(c) ==
  /\ updater[c] = "recheck"
  /\ updater' = [updater EXCEPT ![c] =
                   IF cancelled THEN "unschedule"
                   ELSE IF data[c] = "nothing" THEN "gone" ELSE "send"]
  /\ UNCHANGED <<want, pc, feedMap, chan, hash, data, exited, cancelled,
                 panicked>>

(* The second select, after the download.                                  *)
Recheck(c) ==
  /\ updater[c] = "recheck"
  /\ updater' = [updater EXCEPT ![c] =
                   IF cancelled THEN "unschedule"
                   ELSE IF data[c] = "nothing" THEN "wait" ELSE "send"]
  /\ UNCHANGED <<want, pc, feedMap, chan, hash, data, exited, cancelled,
                 panicked>>

(* payload.updateData <- data, received by the range over the channel; on  *)
(* a closed channel it would panic.                                        *)
Send(c) ==
  /\ updater[c] = "send"
  /\ chan[c] = "closed" \/ pc[c] = "ranging"
  /\ updater' = [updater EXCEPT ![c] = "wait"]
  /\ panicked' = (panicked \/ chan[c] = "closed")
  /\ pc' = [pc EXCEPT ![c] = IF chan[c] = "open" THEN "storing" ELSE @]
  /\ UNCHANGED <<want, feedMap, chan, hash, data, exited, cancelled>>

(* fm.updateFeed returns and the range goes back to the channel.           *)
Store(c) ==
  /\ pc[c] = "storing"
  /\ pc' = [pc EXCEPT ![c] = "ranging"]
  /\ UNCHANGED <<want, feedMap, chan, updaterVars, exited, cancelled, panicked>>

(* Wrong: updateFeed lacks the return after unscheduleFeed.                *)
UnscheduleGoesOn(c) ==
  /\ ~exited
  /\ updater[c] = "unschedule"
  /\ updater' = [updater EXCEPT ![c] = "wait"]
  /\ feedMap' = [feedMap EXCEPT ![want[c]] = None]
  /\ chan' = [ch \in Callers |-> IF ch = feedMap[want[c]] THEN "closed"
                                 ELSE chan[ch]]
  /\ panicked' = (panicked \/ feedMap[want[c]] = None
                           \/ chan[feedMap[want[c]]] = "closed")
  /\ UNCHANGED <<want, pc, hash, data, exited, cancelled>>

(* The loop runs unscheduleFeed's closure: it closes whatever channel the  *)
(* map holds for the feed and deletes the entry; the updater returns.      *)
Unschedule(c) ==
  /\ ~exited
  /\ updater[c] = "unschedule"
  /\ updater' = [updater EXCEPT ![c] = "gone"]
  /\ feedMap' = [feedMap EXCEPT ![want[c]] = None]
  /\ chan' = [ch \in Callers |-> IF ch = feedMap[want[c]] THEN "closed"
                                 ELSE chan[ch]]
  /\ panicked' = (panicked \/ feedMap[want[c]] = None
                           \/ chan[feedMap[want[c]]] = "closed")
  /\ UNCHANGED <<want, pc, hash, data, exited, cancelled>>

(* The range over a closed channel ends.                                   *)
RangeEnds(c) ==
  /\ pc[c] = "ranging"
  /\ chan[c] = "closed"
  /\ pc' = [pc EXCEPT ![c] = "done"]
  /\ UNCHANGED <<want, feedMap, chan, updaterVars, exited, cancelled, panicked>>

Cancel ==
  /\ ~cancelled
  /\ cancelled' = TRUE
  /\ UNCHANGED <<want, pc, feedMap, chan, updaterVars, exited, panicked>>

(* Start's select may choose ctx.Done() although updaters have yet to be   *)
(* unscheduled: these stay blocked on s.ops.                               *)
LoopExit ==
  /\ ~exited
  /\ cancelled
  /\ exited' = TRUE
  /\ UNCHANGED <<want, pc, feedMap, chan, updaterVars, cancelled, panicked>>

UpdaterStep(c) ==
  \/ Check(c) \/ Skip(c) \/ DownloadFails(c)
  \/ \E d \in Contents : Download(c, d)
  \/ Recheck(c) \/ Send(c)

Next ==
  \/ \E c \in Callers, f \in Feeds : Call(c, f)
  \/ \E c \in Callers :
       \/ Schedule(c) \/ Unschedule(c) \/ UpdaterStep(c)
       \/ Store(c) \/ RangeEnds(c)
  \/ Cancel
  \/ LoopExit

(* Every goroutine that can run does; an HTTP request ends because the     *)
(* client has a timeout of 30 seconds (scheduler.go:33); the loop takes    *)
(* the senders of s.ops in the order they came.                            *)
Fairness ==
  \A c \in Callers :
    /\ WF_vars(UpdaterStep(c)) /\ WF_vars(Store(c)) /\ WF_vars(RangeEnds(c))
    /\ SF_vars(Schedule(c)) /\ SF_vars(Unschedule(c))

Spec == Init /\ [][Next]_vars
FairSpec == Spec /\ Fairness

-----------------------------------------------------------------------------
UpdaterStates == {"none", "check", "download", "recheck", "send", "wait",
                  "unschedule", "gone"}

TypeOK ==
  /\ want \in [Callers -> Feeds \cup {None}]
  /\ pc \in [Callers -> {"idle", "calling", "ranging", "storing", "done"}]
  /\ feedMap \in [Feeds -> Callers \cup {None}]
  /\ chan \in [Callers -> {"open", "closed"}]
  /\ updater \in [Callers -> UpdaterStates]
  /\ hash \in [Callers -> Contents \cup {None}]
  /\ data \in [Callers -> {"nothing", "update", "error"}]
  /\ exited \in BOOLEAN
  /\ cancelled \in BOOLEAN
  /\ panicked \in BOOLEAN

Running(c) == updater[c] \notin {"none", "gone"}

(* No goroutine ever closes a channel twice, closes the nil channel of a   *)
(* missing payload, or sends on a closed channel (scheduler.go:68-76, 99), *)
(* each of which would bring the whole server down.                        *)
NoPanic == ~panicked

(* A feed has one updater at most, however often it is scheduled: the      *)
(* updaters that run are those the map points to (scheduler.go:50-63).     *)
OneUpdaterPerFeed ==
  \A c, d \in Callers :
    Running(c) /\ Running(d) /\ want[c] = want[d] => c = d

(* Updates of one feed are stored one after the other: no two goroutines   *)
(* of the feed manager are inside fm.updateFeed for the same feed          *)
(* (feed_manager.go:200-212).                                              *)
SerialStores ==
  \A c, d \in Callers :
    pc[c] = "storing" /\ pc[d] = "storing" /\ want[c] = want[d] => c = d

(* The scheduler implements the set of polled feeds.                       *)
Abstract == INSTANCE PollSet WITH
  active <- {f \in Feeds : feedMap[f] # None},
  updating <- {want[c] : c \in {x \in Callers : pc[x] = "storing"}},
  stopped <- cancelled
PollsAsSpecified == Abstract!PInit /\ [][Abstract!PNext]_(Abstract!pvars)

(* A scheduled feed is downloaded over and over, whatever the downloads    *)
(* bring and however many callers asked for it, until the context is       *)
(* cancelled.  (The step that begins the next round is the one that        *)
(* enters "download"; SkipHours may then spare the request.)               *)
KeepsPolling ==
  \A c \in Callers :
    [](Running(c) => <>(updater[c] = "download" \/ cancelled))
=============================================================================
