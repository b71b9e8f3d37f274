---------------------------- MODULE IndexMonitor ----------------------------
(***************************************************************************)
(* content/monitor/index.go with the index of content/search/bleve.go: the *)
(* search index follows the articles of the database.                      *)
(*                                                                         *)
(* The updater of a feed stores new articles, the loop of the feed manager *)
(* deletes feeds; each dispatches an event after its transaction.  The     *)
(* monitor starts a goroutine, here a job, for every event: one that       *)
(* indexes the new articles, or one that searches for the documents of the *)
(* deleted feed and removes them, both in batches of BatchSize.            *)
(***************************************************************************)
EXTENDS Integers, Sequences, FiniteSets

CONSTANTS
  Feeds,      \* feeds, by ID
  MaxArticle, \* the largest ID of an article, as a bound
  MaxNew,     \* new articles of one update, as a bound
  BatchSize,  \* documents of a batch, from the configuration
  Jobs,       \* goroutines of the monitor, as a bound
  Manager,    \* the loop of the feed manager
  None        \* no feed

ASSUME SizesAssumption == {MaxArticle, MaxNew, BatchSize} \subseteq Nat \ {0}
ASSUME NamesAssumption == None \notin Feeds /\ Manager \notin Feeds

VARIABLES
  feeds,    \* feeds in the database
  articles, \* articles[i]: the feed of the article with ID i, or None
  seq,      \* the last ID that was given
  pending,  \* pending[c]: the event c is about to dispatch
  stream,   \* events the monitor has yet to take
  job,      \* job[j]: what the goroutine j has left to do
  index,    \* index[i]: the feed in the document i, or None
  failed,   \* articles and feeds whose job has met an error of the index
  driver,   \* "postgres" or "sqlite3"
  overlap   \* history: the database changed before all else was dealt with

vars == <<feeds, articles, seq, pending, stream, job, index, failed, driver,
          overlap>>

IDs == 1 .. MaxArticle
Callers == Feeds \cup {Manager}
NoEvent == [type |-> "none"]
Free == [at |-> "free"]
Idle ==
  /\ \A c \in Callers : pending[c] = NoEvent
  /\ stream = <<>>
  /\ \A j \in Jobs : job[j] = Free

Init ==
  /\ feeds = Feeds
  /\ articles = [i \in IDs |-> None]
  /\ seq = 0
  /\ pending = [c \in Callers |-> NoEvent]
  /\ stream = <<>>
  /\ job = [j \in Jobs |-> Free]
  /\ index = [i \in IDs |-> None]
  /\ failed = {}
  /\ driver \in {"postgres", "sqlite3"}
  /\ overlap = FALSE

-----------------------------------------------------------------------------
(* n is the ID before the next one: postgres never gives an ID again,      *)
(* sqlite3 gives those of deleted articles.                                *)
LastID(n) ==
  IF driver = "postgres" THEN n = seq
  ELSE /\ n \in {0} \cup {i \in IDs : articles[i] # None}
       /\ \A i \in IDs : articles[i] # None => i <= n

(* feedRepo.Update commits n new articles of f.                            *)
Store(f, n) ==
  /\ overlap' = (overlap \/ ~Idle)
  /\ f \in feeds /\ pending[f] = NoEvent
  /\ \E last \in 0 .. MaxArticle :
       LET new == (last + 1) .. (last + n) IN
       /\ LastID(last)
       /\ new \subseteq IDs
       /\ articles' = [i \in IDs |-> IF i \in new THEN f ELSE articles[i]]
       /\ seq' = last + n
       /\ pending' = [pending EXCEPT ![f] = [type |-> "update", feed |-> f, new |-> new]]
  /\ UNCHANGED <<feeds, stream, job, index, failed, driver>>

(* feedRepo.Delete; the foreign key takes the articles along.              *)
DeleteFeed(f) ==
  /\ overlap' = (overlap \/ ~Idle)
  /\ f \in feeds /\ pending[Manager] = NoEvent
  /\ feeds' = feeds \ {f}
  /\ articles' = [i \in IDs |-> IF articles[i] = f THEN None ELSE articles[i]]
  /\ pending' = [pending EXCEPT ![Manager] = [type |-> "delete", feed |-> f]]
  /\ UNCHANGED <<seq, stream, job, index, failed, driver>>

Dispatch(c) ==
  /\ pending[c] # NoEvent
  /\ stream' = Append(stream, pending[c])
  /\ pending' = [pending EXCEPT ![c] = NoEvent]
  /\ UNCHANGED <<feeds, articles, seq, job, index, failed, driver, overlap>>

(* Index starts the goroutine of the event.                                *)
Start(j) ==
  /\ stream # <<>> /\ job[j] = Free
  /\ stream' = Tail(stream)
  /\ job' = [job EXCEPT ![j] =
       IF Head(stream).type = "update"
         THEN [at |-> "add", feed |-> Head(stream).feed, left |-> Head(stream).new]
         ELSE [at |-> "search", feed |-> Head(stream).feed]]
  /\ UNCHANGED <<feeds, articles, seq, pending, index, failed, driver, overlap>>

(* Wrong: RemoveFeed matches the documents of all feeds.                   *)
SearchAll(j) ==
  /\ job[j].at = "search"
  /\ LET hits == {i \in IDs : index[i] # None}
     IN job' = [job EXCEPT ![j] =
          IF hits = {} THEN Free ELSE [at |-> "remove", feed |-> job[j].feed, left |-> hits]]
  /\ UNCHANGED <<feeds, articles, seq, pending, stream, index, failed, driver, overlap>>

(* RemoveFeed searches for the documents of the feed.                      *)
Search(j) ==
  /\ job[j].at = "search"
  /\ LET hits == {i \in IDs : index[i] = job[j].feed}
     IN job' = [job EXCEPT ![j] =
          IF hits = {} THEN Free ELSE [at |-> "remove", feed |-> job[j].feed, left |-> hits]]
  /\ UNCHANGED <<feeds, articles, seq, pending, stream, index, failed, driver, overlap>>

(* b is the next batch of j: full, or all there is.                        *)
NextBatch(j, b) ==
  /\ b \subseteq job[j].left
  /\ Cardinality(b) = IF Cardinality(job[j].left) < BatchSize
                        THEN Cardinality(job[j].left) ELSE BatchSize

(* Wrong: what is left over after the last full batch is forgotten.        *)
RestAfterFull(j, b) ==
  IF Cardinality(job[j].left \ b) < BatchSize
    THEN Free ELSE [job[j] EXCEPT !.left = @ \ b]

(* The job goes on, or ends after its last batch.                          *)
RestAfter(j, b) ==
  IF b = job[j].left THEN Free ELSE [job[j] EXCEPT !.left = @ \ b]

(* One index.Batch of BatchIndex, to add or to delete.                     *)
Batch(j) ==
  /\ job[j].at \in {"add", "remove"}
  /\ \E b \in SUBSET job[j].left :
       /\ NextBatch(j, b)
       /\ index' = [i \in IDs |->
            IF i \in b THEN (IF job[j].at = "add" THEN job[j].feed ELSE None)
                       ELSE index[i]]
       /\ job' = [job EXCEPT ![j] = RestAfter(j, b)]
  /\ UNCHANGED <<feeds, articles, seq, pending, stream, failed, driver, overlap>>

(* The index returns an error, and the job logs it and ends.               *)
Fail(j) ==
  /\ job[j].at \in {"add", "search", "remove"}
  /\ failed' = failed \cup (IF job[j].at = "add" THEN job[j].left
                                                 ELSE {i \in IDs : index[i] = job[j].feed})
  /\ job' = [job EXCEPT ![j] = Free]
  /\ UNCHANGED <<feeds, articles, seq, pending, stream, index, driver, overlap>>

Next ==
  \/ \E f \in Feeds : DeleteFeed(f) \/ \E n \in 1 .. MaxNew : Store(f, n)
  \/ \E c \in Callers : Dispatch(c)
  \/ \E j \in Jobs : Start(j) \/ Search(j) \/ Batch(j) \/ Fail(j)

Spec == Init /\ [][Next]_vars

-----------------------------------------------------------------------------
(* Once all events are dealt with, every article of the database is in the *)
(* index under its feed, however the jobs have interleaved, unless its own *)
(* batch met an error (index.go:20-26, bleve.go:216-259).  Where IDs come  *)
(* again it takes jobs that do not overlap: the removal of a feed may      *)
(* strike a later article.                                                 *)
NothingMissing ==
  Idle /\ (driver = "postgres" \/ ~overlap) =>
    \A i \in IDs : articles[i] # None => index[i] = articles[i] \/ i \in failed

(* A document goes only when its feed is deleted, though the search and    *)
(* the batches of a removal are steps of their own (bleve.go:261-286);     *)
(* with the same condition on IDs that come again.                         *)
RemovedOnlyWhenDeleted ==
  [][driver = "postgres" \/ ~overlap =>
       \A i \in IDs :
         index[i] # None /\ index'[i] # index[i] => index[i] \notin feeds]_vars

(* When the events are far enough apart, no document outlives its article  *)
(* (index.go:28-34).  Jobs that overlap may index the articles of a feed   *)
(* after the removal of the feed.                                          *)
NoOrphan ==
  Idle /\ ~overlap =>
    \A i \in IDs : index[i] # None => articles[i] # None \/ i \in failed
=============================================================================
