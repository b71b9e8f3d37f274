------------------------------- MODULE Hubbub -------------------------------
(***************************************************************************)
(* hubbub.go and the route of api/hubbub.go: subscriptions of feeds at     *)
(* their hubs.                                                             *)
(*                                                                         *)
(* The loop of the feed manager calls Subscribe and Unsubscribe; each      *)
(* starts a goroutine, here a task t, that posts to the hub and, when the  *)
(* hub accepts, hands the subscription over to the goroutine of            *)
(* InitSubscriptions, the keeper.  One task more works through the         *)
(* subscriptions of the database after a start.  The keeper posts itself   *)
(* when its timer, which is set once, fires.  A post that fails stores its *)
(* error with the feed.  A hub that has accepted a request calls back to   *)
(* verify it.                                                              *)
(*                                                                         *)
(* Copies of feeds and subscriptions are known by the ID of the feed.  The *)
(* manager calls Subscribe for feeds that are in the table or were.        *)
(***************************************************************************)
EXTENDS Subscriptions

table == <<driver, feeds, deleted, row>>
vars == <<table, task, left, keeper, listed, asked, timer>>

Job(at, mode, f, copy) == [at |-> at, mode |-> mode, feed |-> f, copy |-> copy]
Select == [at |-> "select"]

(* A start finds rows of earlier runs.                                     *)
Init ==
  /\ driver \in {"postgres", "sqlite3"}
  /\ feeds \in SUBSET Feeds
  /\ row \in [Feeds -> {"none", "failed", "verified"}]
  /\ \A f \in Feeds \ feeds : row[f] = "none"
  /\ deleted = {}
  /\ task = [t \in Workers |-> Free]
  /\ left = {[feed |-> f, copy |-> row[f]] : f \in {g \in Feeds : row[g] # "none"}}
  /\ keeper = Select
  /\ listed = <<>>
  /\ asked = {}
  /\ timer = TRUE

-----------------------------------------------------------------------------
(* An INSERT of a feed.  A sequence (postgres) never returns to an ID,     *)
(* INTEGER PRIMARY KEY without AUTOINCREMENT (sqlite3) takes the one after *)
(* the largest in the table.                                               *)
Insert(f) ==
  LET known == IF driver = "postgres" THEN feeds \cup deleted ELSE feeds IN
  /\ \A g \in known : g < f
  /\ f = 1 \/ f - 1 \in known
  /\ feeds' = feeds \cup {f}
  /\ UNCHANGED <<driver, deleted, row>>

(* A request or a poll creates a feed.                                     *)
Create(f) ==
  /\ Insert(f)
  /\ UNCHANGED <<task, left, keeper, listed, asked, timer>>

(* repo.Update of the copy of f that a post was for: a row that has gone   *)
(* is created under a new ID, unless another has its link by now.          *)
Update(f) ==
  \/ UNCHANGED table
  \/ f \notin feeds /\ \E n \in Feeds : Insert(n)

Give(t, job) == task[t] = Free /\ task' = [task EXCEPT ![t] = job]

(* Wrong: the existing subscription is not looked at.                      *)
SubscribeAnyway(t, f) ==
  /\ t \in Tasks
  /\ Len(listed) < MaxKept
  /\ f \in feeds
  /\ row' = [row EXCEPT ![f] = "failed"]
  /\ Give(t, Job("post", "subscribe", f, "failed"))
  /\ UNCHANGED <<driver, feeds, deleted, left, keeper, listed, asked, timer>>

(* Subscribe; with a row it returns ErrSubscribed.  A feed that has gone   *)
(* gets none: postgres fails to commit after the violated foreign key,     *)
(* sqlite3 commits, and the error of the statement is not looked at.       *)
Subscribe(t, f) ==
  /\ t \in Tasks
  /\ Len(listed) < MaxKept
  /\ f \in feeds \/ (driver = "sqlite3" /\ f \in deleted)
  /\ row[f] = "none"
  /\ row' = IF f \in feeds THEN [row EXCEPT ![f] = "failed"] ELSE row
  /\ Give(t, Job("post", "subscribe", f, "failed"))
  /\ UNCHANGED <<driver, feeds, deleted, left, keeper, listed, asked, timer>>

Unsubscribe(t, f) ==
  /\ t \in Tasks
  /\ row[f] # "none"
  /\ Give(t, Job("post", "unsubscribe", f, row[f]))
  /\ UNCHANGED <<table, left, keeper, listed, asked, timer>>

(* stopUpdatingFeed deletes an orphan; the row of its subscription goes    *)
(* with it.                                                                *)
Delete(f) ==
  /\ f \in feeds
  /\ feeds' = feeds \ {f}
  /\ deleted' = deleted \cup {f}
  /\ row' = [row EXCEPT ![f] = "none"]
  /\ UNCHANGED <<driver, task, left, keeper, listed, asked, timer>>

(* The starter takes the next row it has read; an ID that no feed has any  *)
(* longer is skipped.                                                      *)
StartNext(s) ==
  /\ s \in left
  /\ left' = left \ {s}
  /\ task[Starter] = Free
  /\ IF s.feed \notin feeds THEN UNCHANGED task
     ELSE Give(Starter, Job("post", "subscribe", s.feed, s.copy))
  /\ UNCHANGED <<table, keeper, listed, asked, timer>>

(* The hub answers 202.                                                    *)
Accepted(t) ==
  /\ task[t].at = "post"
  /\ task' = [task EXCEPT ![t].at = "hand"]
  /\ asked' = asked \cup {task[t].feed}
  /\ UNCHANGED <<table, left, keeper, listed, timer>>

(* The hub does not: the error is stored with the feed, and the            *)
(* subscription is forgotten until the next start.                         *)
Refused(t) ==
  /\ task[t].at = "post"
  /\ task' = [task EXCEPT ![t] = Free]
  /\ Update(task[t].feed)
  /\ UNCHANGED <<left, keeper, listed, asked, timer>>

Copy(job) == [feed |-> job.feed, copy |-> job.copy]

(* The loop that copies the list but for the copies of x.                  *)
Without(list, x) ==
  LET filtered[n \in 0 .. Len(list)] ==
        IF n = 0 THEN <<>>
        ELSE IF list[n] = x THEN filtered[n - 1]
        ELSE Append(filtered[n - 1], list[n])
  IN  filtered[Len(list)]

(* h.subscribe <- s or h.unsubscribe <- s, received by the keeper.         *)
Hand(t) ==
  /\ task[t].at = "hand"
  /\ keeper = Select
  /\ task' = [task EXCEPT ![t] = Free]
  /\ listed' = IF task[t].mode = "subscribe" THEN Append(listed, Copy(task[t]))
               ELSE Without(listed, Copy(task[t]))
  /\ UNCHANGED <<table, left, keeper, asked, timer>>

-----------------------------------------------------------------------------
(* The timer fires; it is not set again.                                   *)
Fire ==
  /\ keeper = Select
  /\ timer
  /\ timer' = FALSE
  /\ keeper' = [at |-> "renew", next |-> 1]
  /\ UNCHANGED <<table, task, left, listed, asked>>

Renewing == keeper.at = "renew" /\ keeper.next <= Len(listed)

(* A copy whose lease runs on, or whose feed has gone, is passed over.  A  *)
(* copy that was never verified has run out long ago.                      *)
PassOver ==
  /\ Renewing
  /\ \/ listed[keeper.next].copy = "verified"
     \/ listed[keeper.next].feed \notin feeds
  /\ keeper' = [keeper EXCEPT !.next = @ + 1]
  /\ UNCHANGED <<table, task, left, listed, asked, timer>>

(* h.subscription is called by the keeper itself.                          *)
Renew ==
  /\ Renewing
  /\ listed[keeper.next].feed \in feeds
  /\ keeper' = [at |-> "post", next |-> keeper.next]
  /\ UNCHANGED <<table, task, left, listed, asked, timer>>

RenewRefused ==
  /\ keeper.at = "post"
  /\ keeper' = [at |-> "renew", next |-> keeper.next + 1]
  /\ Update(listed[keeper.next].feed)
  /\ UNCHANGED <<task, left, listed, asked, timer>>

(* A hub that accepts leaves the keeper sending on the channel that only   *)
(* the keeper receives from.                                               *)
RenewAccepted ==
  /\ keeper.at = "post"
  /\ keeper' = [at |-> "hand"]
  /\ asked' = asked \cup {listed[keeper.next].feed}
  /\ UNCHANGED <<table, task, left, listed, timer>>

(* Wrong: the end of the renewals ends the keeper.                         *)
RenewEndsReturns ==
  /\ keeper.at = "renew"
  /\ keeper.next > Len(listed)
  /\ keeper' = [at |-> "returned"]
  /\ UNCHANGED <<table, task, left, listed, asked, timer>>

RenewEnds ==
  /\ keeper.at = "renew"
  /\ keeper.next > Len(listed)
  /\ keeper' = Select
  /\ UNCHANGED <<table, task, left, listed, asked, timer>>

(* The hub's GET of <callback URL>/api/v2/hubbub/<feed id>: the routes are *)
(* /hubbub/ alone, so the answer is 404 and the hub drops the request.     *)
CallBack(f) ==
  /\ f \in asked
  /\ asked' = asked \ {f}
  /\ UNCHANGED <<table, task, left, keeper, listed, timer>>

TaskStep(t) == Accepted(t) \/ Refused(t) \/ Hand(t)
KeeperStep == PassOver \/ Renew \/ RenewRefused \/ RenewAccepted \/ RenewEnds

Next ==
  \/ \E f \in Feeds :
       \/ \E t \in Tasks : Subscribe(t, f) \/ Unsubscribe(t, f)
       \/ Create(f) \/ Delete(f) \/ CallBack(f)
  \/ \E s \in left : StartNext(s)
  \/ \E t \in Workers : TaskStep(t)
  \/ Fire \/ KeeperStep

(* Goroutines run, posts end because the client has a timeout, and senders *)
(* on a channel are served in order.                                       *)
Fairness ==
  /\ \A t \in Workers : SF_vars(TaskStep(t))
  /\ WF_vars(KeeperStep)

Spec == Init /\ [][Next]_vars
FairSpec == Spec /\ Fairness

-----------------------------------------------------------------------------
(* What a hub has accepted is handed over to the keeper; only a renewal    *)
(* that a hub accepts can get in the way, and then for good                *)
(* (hubbub.go:155-187, 224-229).                                           *)
HandedOver ==
  \A t \in Workers :
    (task[t].at = "hand") ~> (task[t].at # "hand" \/ keeper.at = "hand")
=============================================================================
