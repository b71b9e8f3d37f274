------------------------ MODULE IndexMonitorProofs -------------------------
(***************************************************************************)
(* The index follows the articles, for any feeds, sizes of batches and     *)
(* numbers of jobs at work at the same time.                               *)
(*                                                                         *)
(* What is said of events and of jobs is the same: articles of a feed are  *)
(* on their way to the index, or its documents are on their way out.  The  *)
(* invariant speaks of these ways (Adds, Removes, Takes), so that the      *)
(* steps that pass an event on are stutters of it.  It holds while IDs do  *)
(* not come again, or as long as nothing overlaps.                         *)
(***************************************************************************)
EXTENDS IndexMonitor, TLAPS

Updates == [type : {"update"}, feed : Feeds, new : SUBSET IDs]
Deletes == [type : {"delete"}, feed : Feeds]
Events == Updates \cup Deletes
Batches == [at : {"add", "remove"}, feed : Feeds, left : SUBSET IDs]
Searches == [at : {"search"}, feed : Feeds]

TInv ==
  /\ feeds \subseteq Feeds
  /\ articles \in [IDs -> Feeds \cup {None}]
  /\ seq \in Nat
  /\ pending \in [Callers -> Events \cup {NoEvent}]
  /\ stream \in Seq(Events)
  /\ job \in [Jobs -> Batches \cup Searches \cup {Free}]
  /\ index \in [IDs -> Feeds \cup {None}]

Waiting(e) ==
  \/ \E c \in Callers : pending[c] = e
  \/ \E k \in 1 .. Len(stream) : stream[k] = e

(* The article i of f is on its way to the index.                          *)
Adds(f, i) ==
  \/ \E e \in Updates : Waiting(e) /\ e.feed = f /\ i \in e.new
  \/ \E j \in Jobs : job[j].at = "add" /\ job[j].feed = f /\ i \in job[j].left

(* Documents of f are on their way out.                                    *)
Removes(f) ==
  \/ \E e \in Deletes : Waiting(e) /\ e.feed = f
  \/ \E j \in Jobs : job[j].at \in {"search", "remove"} /\ job[j].feed = f

(* The document i of f is one of them, or will be found to be one.         *)
Takes(f, i) ==
  \/ \E e \in Deletes : Waiting(e) /\ e.feed = f
  \/ \E j \in Jobs : /\ job[j].at \in {"search", "remove"} /\ job[j].feed = f
                     /\ job[j].at = "remove" => i \in job[j].left

-----------------------------------------------------------------------------
Postgres == driver = "postgres"
Reliable == Postgres \/ ~overlap

Known ==
  \A i \in IDs : articles[i] # None =>
    articles[i] \in feeds /\ (Postgres => i <= seq)

(* A document is that of the article with its ID, or of a feed that is     *)
(* gone; IDs that never come again have no other article.                  *)
Indexed ==
  \A i \in IDs : index[i] # None =>
    /\ articles[i] = index[i] \/ index[i] \notin feeds
    /\ Postgres => i <= seq /\ articles[i] \in {index[i], None}

Adding ==
  \A f \in Feeds, i \in IDs : Adds(f, i) =>
    /\ articles[i] = f \/ (articles[i] = None /\ f \notin feeds)
    /\ Postgres => i <= seq
    /\ ~overlap => articles[i] = f

Removing ==
  \A f \in Feeds : Removes(f) =>
    /\ f \notin feeds
    /\ \A i \in IDs : index[i] = f => articles[i] = None

(* What a removal has found is no article of the database.                 *)
Found ==
  \A j \in Jobs : job[j].at = "remove" =>
    \A i \in job[j].left : articles[i] = None /\ (Postgres => i <= seq)

Exclusive ==
  ~overlap => \A f, g \in Feeds, i \in IDs : ~(Adds(f, i) /\ Removes(g))

(* Nothing is missing but what is on its way.                              *)
Covered ==
  \A i \in IDs, f \in Feeds : articles[i] = f =>
    index[i] = f \/ i \in failed \/ Adds(f, i)

(* No document is left over but what is on its way out.                    *)
Passing ==
  ~overlap => \A i \in IDs, f \in Feeds : index[i] = f =>
    articles[i] = f \/ i \in failed \/ Takes(f, i)

IInv ==
  Reliable =>
    /\ Known /\ Indexed /\ Adding /\ Removing /\ Found
    /\ Exclusive /\ Covered /\ Passing

-----------------------------------------------------------------------------
(* Jobs and events that are none.                                          *)
LEMMA Nobody ==
  /\ Free.at = "free" /\ NoEvent.type = "none"
  /\ \A e \in Events : e # NoEvent
  /\ None \notin Feeds
BY NamesAssumption DEF Free, NoEvent, Events, Updates, Deletes

LEMMA JobCases ==
  ASSUME TInv, NEW j \in Jobs
  PROVE  /\ job[j].at \in {"add", "remove"} => job[j] \in Batches
         /\ job[j].at = "search" => job[j] \in Searches
BY DEF TInv, Free, Batches, Searches

LEMMA IdleIsEmpty ==
  ASSUME Idle
  PROVE  \A f \in Feeds : ~Removes(f) /\ \A i \in IDs : ~Adds(f, i)
<1>1. \A e \in Events : ~Waiting(e)
  BY Nobody DEF Idle, Waiting
<1>2. \A j \in Jobs : job[j].at = "free"
  BY Nobody DEF Idle
<1> QED BY <1>1, <1>2 DEF Adds, Removes, Events

LEMMA TakesIsRemoves ==
  \A f \in Feeds, i \in IDs : Takes(f, i) => Removes(f)
BY DEF Takes, Removes

LEMMA InitInv == Init => TInv /\ IInv
<1> SUFFICES ASSUME Init PROVE TInv /\ IInv
  OBVIOUS
<1>1. TInv
  BY DEF Init, TInv
<1>2. Idle
  BY DEF Init, Idle
<1>3. \A f \in Feeds : ~Removes(f) /\ \A i \in IDs : ~Adds(f, i)
  BY <1>2, IdleIsEmpty
<1>4. \A j \in Jobs : job[j].at = "free"
  BY Nobody DEF Init
<1>5. Known /\ Indexed /\ Found
  BY <1>4 DEF Init, Known, Indexed, Found
<1>6. Covered /\ Passing
  BY Nobody DEF Init, Covered, Passing
<1>7. Adding /\ Removing /\ Exclusive
  BY <1>3 DEF Adding, Removing, Exclusive
<1> QED BY <1>1, <1>5, <1>6, <1>7 DEF IInv

-----------------------------------------------------------------------------
(* A step that only passes on what is known to be on its way.              *)
LEMMA MovesInv ==
  ASSUME IInv,
         UNCHANGED <<feeds, articles, seq, index, failed, driver, overlap>>,
         Reliable /\ IInv => Found',
         \A f \in Feeds : Removes(f)' => Removes(f),
         \A f \in Feeds, i \in IDs :
           /\ Adds(f, i)' <=> Adds(f, i)
           /\ index[i] = f /\ Takes(f, i) => Takes(f, i)'
  PROVE  IInv'
<1> SUFFICES ASSUME Reliable'
             PROVE  /\ Known' /\ Indexed' /\ Adding' /\ Removing' /\ Found'
                    /\ Exclusive' /\ Covered' /\ Passing'
  BY DEF IInv
<1>1. Reliable /\ (Postgres' <=> Postgres)
  BY DEF Reliable, Postgres
<1>2. Known' /\ Indexed' /\ Found'
  BY <1>1 DEF IInv, Known, Indexed
<1>3. Adding' /\ Covered'
  BY <1>1 DEF IInv, Adding, Covered
<1>4. Removing'
  BY <1>1 DEF IInv, Removing
<1>5. Exclusive' /\ Passing'
  BY <1>1 DEF IInv, Exclusive, Passing
<1> QED BY <1>2, <1>3, <1>4, <1>5

LEMMA DispatchInv ==
  ASSUME TInv, IInv, NEW c \in Callers, Dispatch(c)
  PROVE  TInv' /\ IInv'
<1> DEFINE event == pending[c]
<1>1. event \in Events
  BY DEF TInv, Dispatch
<1>2. TInv'
  BY <1>1 DEF TInv, Dispatch
<1>3. \A e \in Events : Waiting(e)' <=> Waiting(e)
  <2> SUFFICES ASSUME NEW e \in Events PROVE Waiting(e)' <=> Waiting(e)
    OBVIOUS
  <2>1. /\ stream' \in Seq(Events) /\ Len(stream') = Len(stream) + 1
        /\ stream'[Len(stream) + 1] = event
        /\ \A k \in 1 .. Len(stream) : stream'[k] = stream[k]
    BY <1>1 DEF TInv, Dispatch
  <2>2. (\E k \in 1 .. Len(stream') : stream'[k] = e)
           <=> e = event \/ \E k \in 1 .. Len(stream) : stream[k] = e
    <3>1. Len(stream) \in Nat
      BY DEF TInv
    <3>2. \A k : k \in 1 .. Len(stream') <=> k \in 1 .. Len(stream) \/ k = Len(stream) + 1
      BY <2>1, <3>1
    <3> QED BY <2>1, <3>2
  <2>3. (\E d \in Callers : pending[d] = e)
           <=> e = event \/ \E d \in Callers : pending'[d] = e
    <3>1. \A d \in Callers : pending'[d] = IF d = c THEN NoEvent ELSE pending[d]
      BY DEF TInv, Dispatch
    <3> QED BY <3>1, Nobody
  <2> QED BY <2>2, <2>3 DEF Waiting
<1>4. \A f \in Feeds : /\ Removes(f)' <=> Removes(f)
                       /\ \A i \in IDs : /\ Adds(f, i)' <=> Adds(f, i)
                                         /\ Takes(f, i)' <=> Takes(f, i)
  BY <1>3 DEF Adds, Removes, Takes, Events, Dispatch
<1>5. Reliable /\ IInv => Found'
  BY DEF IInv, Found, Dispatch, Postgres
<1> QED BY <1>2, <1>4, <1>5, MovesInv DEF Dispatch

LEMMA StartInv ==
  ASSUME TInv, IInv, NEW j \in Jobs, Start(j)
  PROVE  TInv' /\ IInv'
<1> DEFINE event == Head(stream)
<1>1. /\ event \in Events /\ event = stream[1] /\ Len(stream) \in Nat \ {0}
      /\ stream' \in Seq(Events) /\ Len(stream') = Len(stream) - 1
      /\ \A k \in 1 .. Len(stream') : stream'[k] = stream[k + 1]
  BY DEF TInv, Start
<1>2. /\ event \in Updates => /\ event.type = "update"
                              /\ [at |-> "add", feed |-> event.feed, left |-> event.new] \in Batches
      /\ event \in Deletes => /\ event.type = "delete"
                              /\ [at |-> "search", feed |-> event.feed] \in Searches
  BY DEF Updates, Deletes, Batches, Searches
<1>3. \A k \in Jobs : job'[k] =
        IF k # j THEN job[k]
        ELSE IF event \in Updates
               THEN [at |-> "add", feed |-> event.feed, left |-> event.new]
               ELSE [at |-> "search", feed |-> event.feed]
  BY <1>1, <1>2 DEF TInv, Start, Events
<1>4. TInv'
  <2>1. job' \in [Jobs -> Batches \cup Searches \cup {Free}]
    BY <1>1, <1>2 DEF TInv, Start, Events
  <2> QED BY <1>1, <2>1 DEF TInv, Start
<1>5. \A e \in Events : Waiting(e) <=> Waiting(e)' \/ e = event
  <2> SUFFICES ASSUME NEW e \in Events PROVE Waiting(e) <=> Waiting(e)' \/ e = event
    OBVIOUS
  <2>1. (\E k \in 1 .. Len(stream) : stream[k] = e)
           <=> e = event \/ \E k \in 1 .. Len(stream') : stream'[k] = e
    <3>1. \A k : k \in 1 .. Len(stream) =>
            k = 1 \/ (k - 1 \in 1 .. Len(stream') /\ (k - 1) + 1 = k)
      BY <1>1
    <3>2. \A k \in 1 .. Len(stream') : k + 1 \in 1 .. Len(stream)
      BY <1>1
    <3>3. 1 \in 1 .. Len(stream)
      BY <1>1
    <3>4. ASSUME NEW k \in 1 .. Len(stream), stream[k] = e
          PROVE  e = event \/ \E m \in 1 .. Len(stream') : stream'[m] = e
      BY <1>1, <3>1, <3>4
    <3>5. ASSUME NEW m \in 1 .. Len(stream'), stream'[m] = e
          PROVE  \E k \in 1 .. Len(stream) : stream[k] = e
      BY <1>1, <3>2, <3>5
    <3> QED BY <1>1, <3>3, <3>4, <3>5
  <2> QED BY <2>1 DEF Waiting, Start
<1>6. job[j].at = "free"
  BY Nobody DEF Start
<1>7. \A f \in Feeds, i \in IDs : Adds(f, i)' <=> Adds(f, i)
  <2> SUFFICES ASSUME NEW f \in Feeds, NEW i \in IDs PROVE Adds(f, i)' <=> Adds(f, i)
    OBVIOUS
  <2>1. (\E k \in Jobs : job'[k].at = "add" /\ job'[k].feed = f /\ i \in job'[k].left)
          <=> \/ event \in Updates /\ event.feed = f /\ i \in event.new
              \/ \E k \in Jobs : job[k].at = "add" /\ job[k].feed = f /\ i \in job[k].left
    BY <1>3, <1>6
  <2> QED BY <1>1, <1>5, <2>1 DEF Adds, Events
<1>8. \A f \in Feeds : /\ Removes(f)' <=> Removes(f)
                       /\ \A i \in IDs : Takes(f, i)' <=> Takes(f, i)
  <2> SUFFICES ASSUME NEW f \in Feeds
               PROVE  /\ Removes(f)' <=> Removes(f)
                      /\ \A i \in IDs : Takes(f, i)' <=> Takes(f, i)
    OBVIOUS
  <2>1. event \notin Updates <=> event \in Deletes
    BY <1>1, <1>2 DEF Events
  <2>2. (\E k \in Jobs : job'[k].at \in {"search", "remove"} /\ job'[k].feed = f)
          <=> \/ event \in Deletes /\ event.feed = f
              \/ \E k \in Jobs : job[k].at \in {"search", "remove"} /\ job[k].feed = f
    BY <1>3, <1>6, <2>1
  <2>3. \A i \in IDs :
          (\E k \in Jobs : /\ job'[k].at \in {"search", "remove"} /\ job'[k].feed = f
                           /\ job'[k].at = "remove" => i \in job'[k].left)
          <=> \/ event \in Deletes /\ event.feed = f
              \/ \E k \in Jobs : /\ job[k].at \in {"search", "remove"} /\ job[k].feed = f
                                 /\ job[k].at = "remove" => i \in job[k].left
    BY <1>3, <1>6, <2>1
  <2> QED BY <1>1, <1>5, <2>2, <2>3 DEF Removes, Takes, Events
<1>9. Reliable /\ IInv => Found'
  BY <1>3 DEF IInv, Found, Start, Postgres
<1> QED BY <1>4, <1>7, <1>8, <1>9, MovesInv DEF Start

LEMMA SearchInv ==
  ASSUME TInv, IInv, NEW j \in Jobs, Search(j)
  PROVE  TInv' /\ IInv'
<1> DEFINE feed == job[j].feed
           hits == {i \in IDs : index[i] = feed}
<1>1. job[j] \in Searches /\ feed \in Feeds
  BY JobCases DEF Search, Searches
<1>2. \A k \in Jobs : job'[k] =
        IF k # j THEN job[k]
        ELSE IF hits = {} THEN Free ELSE [at |-> "remove", feed |-> feed, left |-> hits]
  BY DEF TInv, Search
<1>3. TInv'
  <2>1. [at |-> "remove", feed |-> feed, left |-> hits] \in Batches
    BY <1>1 DEF Batches
  <2> QED BY <2>1 DEF TInv, Search
<1>4. \A e \in Events : Waiting(e)' <=> Waiting(e)
  BY DEF Waiting, Search
<1>5. /\ job[j].at = "search" /\ job'[j].at \in {"free", "remove"}
      /\ hits # {} => /\ job'[j].at = "remove" /\ job'[j].feed = feed
                      /\ job'[j].left = hits
  <2>1. CASE hits = {}
    BY <1>2, <2>1, Nobody DEF Search
  <2>2. CASE hits # {}
    <3>1. job'[j] = [at |-> "remove", feed |-> feed, left |-> hits]
      BY <1>2, <2>2
    <3> QED BY <2>2, <3>1 DEF Search
  <2> QED BY <2>1, <2>2
<1>6. \A f \in Feeds, i \in IDs : Adds(f, i)' <=> Adds(f, i)
  BY <1>2, <1>4, <1>5 DEF Adds, Events
<1>7. \A f \in Feeds : Removes(f)' => Removes(f)
  BY <1>2, <1>4, <1>5, Nobody DEF Removes, Events
<1>8. \A f \in Feeds, i \in IDs : index[i] = f /\ Takes(f, i) => Takes(f, i)'
  BY <1>2, <1>4, <1>5 DEF Takes, Events
<1>9. ASSUME Reliable, IInv PROVE Found'
  <2>1. \A i \in hits : articles[i] = None /\ (Postgres => i <= seq)
    BY <1>1, <1>5, <1>9, Nobody DEF IInv, Indexed, Removing, Removes
  <2> QED BY <1>2, <1>9, <2>1, Nobody DEF IInv, Found, Search, Postgres
<1> QED BY <1>3, <1>6, <1>7, <1>8, <1>9, MovesInv DEF Search

-----------------------------------------------------------------------------
(* An event that a transaction of c leaves pending.                        *)
LEMMA NewEvent ==
  ASSUME TInv, NEW c \in Callers, NEW event \in Events, pending[c] = NoEvent,
         pending' = [pending EXCEPT ![c] = event], UNCHANGED stream
  PROVE  \A e \in Events : Waiting(e)' <=> Waiting(e) \/ e = event
<1>1. \A d \in Callers : pending'[d] = IF d = c THEN event ELSE pending[d]
  BY DEF TInv
<1> QED BY <1>1, Nobody DEF Waiting

LEMMA StoreInv ==
  ASSUME TInv, IInv, NEW f \in Feeds, NEW n \in 1 .. MaxNew, Store(f, n)
  PROVE  TInv' /\ IInv'
<1>1. PICK last \in 0 .. MaxArticle :
        LET new == (last + 1) .. (last + n) IN
        /\ LastID(last)
        /\ new \subseteq IDs
        /\ articles' = [i \in IDs |-> IF i \in new THEN f ELSE articles[i]]
        /\ seq' = last + n
        /\ pending' = [pending EXCEPT ![f] = [type |-> "update", feed |-> f, new |-> new]]
  BY DEF Store
<1> DEFINE new == (last + 1) .. (last + n)
           event == [type |-> "update", feed |-> f, new |-> new]
<1>2. /\ new \subseteq IDs /\ event \in Updates /\ event \notin Deletes
      /\ last \in Nat /\ n \in Nat /\ f \in Callers
      /\ seq' = last + n /\ seq \in Nat
      /\ UNCHANGED <<feeds, stream, job, index, failed, driver>>
      /\ \A i \in IDs : articles'[i] = IF i \in new THEN f ELSE articles[i]
  BY <1>1, SizesAssumption DEF Updates, Deletes, Callers, TInv, Store
<1>3. TInv'
  <2>1. articles' \in [IDs -> Feeds \cup {None}]
    BY <1>1 DEF TInv
  <2>2. pending' \in [Callers -> Events \cup {NoEvent}]
    BY <1>1, <1>2 DEF TInv, Events
  <2> QED BY <1>1, <1>2, <2>1, <2>2 DEF TInv, Store
<1>4. \A e \in Events : Waiting(e)' <=> Waiting(e) \/ e = event
  BY <1>1, <1>2, NewEvent DEF Store, Events
<1>5. \A g \in Feeds :
        /\ Removes(g)' <=> Removes(g)
        /\ \A i \in IDs : /\ Adds(g, i)' <=> Adds(g, i) \/ (g = f /\ i \in new)
                          /\ Takes(g, i)' <=> Takes(g, i)
  BY <1>2, <1>4 DEF Adds, Removes, Takes, Events, Store
<1> SUFFICES ASSUME Reliable'
             PROVE  /\ Known' /\ Indexed' /\ Adding' /\ Removing' /\ Found'
                    /\ Exclusive' /\ Covered' /\ Passing'
  BY <1>3 DEF IInv
<1>6. /\ Reliable /\ (Postgres' <=> Postgres) /\ f \in feeds
      /\ ~overlap' => ~overlap
      /\ Known /\ Indexed /\ Adding /\ Removing /\ Found /\ Exclusive /\ Covered /\ Passing
  BY DEF Store, Reliable, Postgres, IInv
<1>7. \/ /\ ~Postgres /\ ~overlap'
         /\ \A i \in IDs : articles[i] # None => i <= last
      \/ Postgres /\ last = seq
  BY <1>1 DEF LastID, Postgres, Reliable, Store
<1>8. ~overlap' => \A g \in Feeds : ~Removes(g) /\ \A i \in IDs : ~Adds(g, i)
  BY IdleIsEmpty DEF Store
<1>9. /\ \A i \in new : articles[i] = None
      /\ Postgres => \A i \in new : ~(i <= seq)
  <2>1. \A i \in new : i \in IDs /\ ~(i <= last)
    BY <1>2
  <2> QED BY <1>6, <1>7, <2>1 DEF Known
<1>10. /\ Postgres => \A i \in IDs : i <= seq => i <= seq'
       /\ \A i \in new : i <= seq'
  BY <1>2, <1>7 DEF IDs
<1>11. Known' /\ Indexed'
  <2>1. Known'
    <3> SUFFICES ASSUME NEW i \in IDs, articles'[i] # None
                 PROVE  articles'[i] \in feeds /\ (Postgres => i <= seq')
      BY <1>2, <1>6 DEF Known
    <3>1. CASE i \in new
      BY <1>2, <1>6, <1>10, <3>1
    <3>2. CASE i \notin new
      <4>1. articles[i] \in feeds /\ (Postgres => i <= seq)
        BY <1>2, <1>6, <3>2 DEF Known
      <4> QED BY <1>2, <1>10, <3>2, <4>1
    <3> QED BY <3>1, <3>2
  <2>2. Indexed'
    <3> SUFFICES ASSUME NEW i \in IDs, index[i] # None
                 PROVE  /\ articles'[i] = index[i] \/ index[i] \notin feeds
                        /\ Postgres => i <= seq' /\ articles'[i] \in {index[i], None}
      BY <1>2, <1>6 DEF Indexed
    <3>1. /\ articles[i] = index[i] \/ index[i] \notin feeds
          /\ Postgres => i <= seq /\ articles[i] \in {index[i], None}
      BY <1>6 DEF Indexed
    <3> QED BY <1>2, <1>9, <1>10, <3>1
  <2> QED BY <2>1, <2>2
<1>12. Adding'
  BY <1>2, <1>5, <1>6, <1>7, <1>8, <1>9, <1>10 DEF Adding
<1>13. Removing'
  BY <1>2, <1>5, <1>6, <1>7, <1>8, <1>9, Nobody DEF Removing, Indexed
<1>14. Found'
  <2>1. CASE ~overlap'
    BY <2>1, Nobody DEF Found, Store, Idle
  <2>2. CASE Postgres
    <3> SUFFICES ASSUME NEW j \in Jobs, job[j].at = "remove", NEW i \in job[j].left
                 PROVE  articles'[i] = None /\ i <= seq'
      BY DEF Found, Store
    <3>1. i \in IDs
      BY JobCases DEF Batches
    <3> QED BY <1>2, <1>6, <1>9, <1>10, <2>2, <3>1 DEF Found
  <2> QED BY <1>7, <2>1, <2>2
<1>15. Exclusive' /\ Covered'
  <2>1. Exclusive'
    BY <1>5, <1>8 DEF Exclusive
  <2>2. Covered'
    BY <1>2, <1>5, <1>6 DEF Covered
  <2> QED BY <2>1, <2>2
<1>16. Passing'
  <2> SUFFICES ASSUME ~overlap', NEW i \in IDs, NEW g \in Feeds, index[i] = g
               PROVE  articles'[i] = g \/ i \in failed \/ Takes(g, i)'
    BY <1>2 DEF Passing
  <2>1. articles[i] = g \/ i \in failed \/ Takes(g, i)
    BY <1>6 DEF Passing
  <2> QED BY <1>2, <1>5, <1>9, <2>1, Nobody
<1> QED BY <1>11, <1>12, <1>13, <1>14, <1>15, <1>16

LEMMA DeleteFeedInv ==
  ASSUME TInv, IInv, NEW f \in Feeds, DeleteFeed(f)
  PROVE  TInv' /\ IInv'
<1> DEFINE event == [type |-> "delete", feed |-> f]
<1>1. /\ event \in Deletes /\ event \notin Updates /\ Manager \in Callers
      /\ \A i \in IDs : articles'[i] = IF articles[i] = f THEN None ELSE articles[i]
      /\ feeds' = feeds \ {f} /\ f \in feeds
      /\ UNCHANGED <<seq, stream, job, index, failed, driver>>
  BY DEF Updates, Deletes, Callers, DeleteFeed
<1>2. TInv'
  <2>1. articles' \in [IDs -> Feeds \cup {None}]
    BY DEF TInv, DeleteFeed
  <2>2. pending' \in [Callers -> Events \cup {NoEvent}]
    BY <1>1 DEF TInv, DeleteFeed, Events
  <2> QED BY <1>1, <2>1, <2>2 DEF TInv, DeleteFeed
<1>3. \A e \in Events : Waiting(e)' <=> Waiting(e) \/ e = event
  BY <1>1, NewEvent DEF DeleteFeed, Events
<1>4. \A g \in Feeds :
        /\ Removes(g)' <=> Removes(g) \/ g = f
        /\ \A i \in IDs : /\ Adds(g, i)' <=> Adds(g, i)
                          /\ Takes(g, i)' <=> Takes(g, i) \/ g = f
  BY <1>1, <1>3 DEF Adds, Removes, Takes, Events, DeleteFeed
<1> SUFFICES ASSUME Reliable'
             PROVE  /\ Known' /\ Indexed' /\ Adding' /\ Removing' /\ Found'
                    /\ Exclusive' /\ Covered' /\ Passing'
  BY <1>2 DEF IInv
<1>5. /\ Reliable /\ (Postgres' <=> Postgres)
      /\ ~overlap' => ~overlap
      /\ Known /\ Indexed /\ Adding /\ Removing /\ Found /\ Exclusive /\ Covered /\ Passing
  BY DEF DeleteFeed, Reliable, Postgres, IInv
<1>6. ~overlap' => \A g \in Feeds, i \in IDs : ~Adds(g, i)
  BY IdleIsEmpty DEF DeleteFeed
<1>7. Known' /\ Indexed'
  <2>1. Known'
    BY <1>1, <1>5 DEF Known
  <2>2. Indexed'
    BY <1>1, <1>5, Nobody DEF Indexed
  <2> QED BY <2>1, <2>2
<1>8. Adding'
  BY <1>1, <1>4, <1>5, <1>6, Nobody DEF Adding
<1>9. Removing'
  <2> SUFFICES ASSUME NEW g \in Feeds, Removes(g) \/ g = f
               PROVE  /\ g \notin feeds'
                      /\ \A i \in IDs : index[i] = g => articles'[i] = None
    BY <1>4 DEF Removing, DeleteFeed
  <2>1. CASE g = f
    BY <1>1, <1>5, <2>1, Nobody DEF Indexed
  <2>2. CASE Removes(g)
    BY <1>1, <1>5, <2>2, Nobody DEF Removing
  <2> QED BY <2>1, <2>2
<1>10. Found'
  <2> SUFFICES ASSUME NEW j \in Jobs, job[j].at = "remove", NEW i \in job[j].left
               PROVE  articles'[i] = None /\ (Postgres => i <= seq)
    BY <1>5 DEF Found, DeleteFeed, Postgres
  <2>1. i \in IDs
    BY JobCases DEF Batches
  <2> QED BY <1>1, <1>5, <2>1 DEF Found
<1>11. Exclusive' /\ Covered'
  <2>1. Exclusive'
    BY <1>4, <1>6 DEF Exclusive
  <2>2. Covered'
    BY <1>1, <1>4, <1>5, Nobody DEF Covered
  <2> QED BY <2>1, <2>2
<1>12. Passing'
  <2> SUFFICES ASSUME ~overlap', NEW i \in IDs, NEW g \in Feeds, index[i] = g
               PROVE  articles'[i] = g \/ i \in failed \/ Takes(g, i)'
    BY <1>1 DEF Passing
  <2>1. articles[i] = g \/ i \in failed \/ Takes(g, i)
    BY <1>5 DEF Passing
  <2> QED BY <1>1, <1>4, <2>1
<1> QED BY <1>7, <1>8, <1>9, <1>10, <1>11, <1>12

-----------------------------------------------------------------------------
(* What is left of a batch job, and what has become of the others.         *)
LEMMA BatchInv ==
  ASSUME TInv, IInv, NEW j \in Jobs, Batch(j)
  PROVE  TInv' /\ IInv'
<1> DEFINE feed == job[j].feed
<1>1. PICK b \in SUBSET job[j].left :
        /\ index' = [i \in IDs |->
             IF i \in b THEN (IF job[j].at = "add" THEN feed ELSE None) ELSE index[i]]
        /\ job' = [job EXCEPT ![j] = RestAfter(j, b)]
  BY DEF Batch
<1>2. /\ job[j] \in Batches /\ feed \in Feeds /\ b \subseteq IDs
      /\ UNCHANGED <<feeds, articles, seq, pending, stream, failed, driver, overlap>>
  BY JobCases DEF Batch, Batches
<1>3. \A k \in Jobs : job'[k] =
        IF k # j THEN job[k]
        ELSE IF b = job[j].left THEN Free ELSE [job[j] EXCEPT !.left = @ \ b]
  BY <1>1 DEF TInv, RestAfter
<1>4. TInv'
  <2>1. [job[j] EXCEPT !.left = @ \ b] \in Batches
    BY <1>2 DEF Batches
  <2>2. index' \in [IDs -> Feeds \cup {None}]
    BY <1>1, <1>2 DEF TInv
  <2> QED BY <1>1, <1>2, <2>1, <2>2 DEF TInv, RestAfter
<1>5. \/ b = job[j].left /\ job'[j].at = "free"
      \/ /\ job'[j].at = job[j].at /\ job'[j].feed = feed
         /\ job'[j].left = job[j].left \ b
  <2>1. CASE b = job[j].left
    BY <1>3, <2>1, Nobody
  <2>2. CASE b # job[j].left
    <3>1. job'[j] = [job[j] EXCEPT !.left = @ \ b]
      BY <1>3, <2>2
    <3> QED BY <1>2, <3>1 DEF Batches
  <2> QED BY <2>1, <2>2
<1>6. \A e \in Events : Waiting(e)' <=> Waiting(e)
  BY <1>2 DEF Waiting
<1>7. \A k \in Jobs : k # j => job'[k] = job[k]
  BY <1>3
<1> SUFFICES ASSUME Reliable'
             PROVE  /\ Known' /\ Indexed' /\ Adding' /\ Removing' /\ Found'
                    /\ Exclusive' /\ Covered' /\ Passing'
  BY <1>4 DEF IInv
<1>8. /\ Known /\ Indexed /\ Adding /\ Removing /\ Found /\ Exclusive /\ Covered /\ Passing
      /\ Known'
  BY <1>2 DEF Reliable, Postgres, IInv, Known
<1>9. CASE job[j].at = "add"
  <2>1. \A i \in IDs : index'[i] = IF i \in b THEN feed ELSE index[i]
    BY <1>1, <1>9
  <2>2. \A f \in Feeds :
          /\ Removes(f)' <=> Removes(f)
          /\ \A i \in IDs : /\ Adds(f, i)' => Adds(f, i)
                            /\ Adds(f, i) => Adds(f, i)' \/ (f = feed /\ i \in b)
                            /\ Takes(f, i)' <=> Takes(f, i)
    BY <1>5, <1>6, <1>7, <1>9 DEF Adds, Removes, Takes, Events
  <2>3. \A i \in b :
          /\ i \in IDs
          /\ articles[i] = feed \/ (articles[i] = None /\ feed \notin feeds)
          /\ Postgres => i <= seq
          /\ ~overlap => articles[i] = feed
    BY <1>2, <1>8, <1>9 DEF Adding, Adds
  <2>4. Indexed'
    BY <1>2, <1>8, <2>1, <2>3 DEF Indexed, Postgres
  <2>5. Adding'
    BY <1>2, <1>8, <2>2 DEF Adding, Postgres
  <2>6. Removing'
    BY <1>2, <1>8, <2>1, <2>2, <2>3, Nobody DEF Removing, Known
  <2>7. Found'
    BY <1>2, <1>5, <1>7, <1>8, <1>9 DEF Found, Postgres
  <2>8. Exclusive'
    BY <1>2, <1>8, <2>2 DEF Exclusive
  <2>9. Covered'
    <3> SUFFICES ASSUME NEW i \in IDs, NEW f \in Feeds, articles[i] = f
                 PROVE  index'[i] = f \/ i \in failed \/ Adds(f, i)'
      BY <1>2 DEF Covered
    <3>1. index[i] = f \/ i \in failed \/ Adds(f, i)
      BY <1>8 DEF Covered
    <3> QED BY <2>1, <2>2, <2>3, <3>1, Nobody
  <2>10. Passing'
    <3> SUFFICES ASSUME ~overlap, NEW i \in IDs, NEW f \in Feeds, index'[i] = f
                 PROVE  articles[i] = f \/ i \in failed \/ Takes(f, i)'
      BY <1>2 DEF Passing
    <3>1. i \notin b => articles[i] = f \/ i \in failed \/ Takes(f, i)
      BY <1>8, <2>1 DEF Passing
    <3> QED BY <2>1, <2>2, <2>3, <3>1
  <2> QED BY <1>8, <2>4, <2>5, <2>6, <2>7, <2>8, <2>9, <2>10
<1>10. CASE job[j].at = "remove"
  <2>1. \A i \in IDs : index'[i] = IF i \in b THEN None ELSE index[i]
    BY <1>1, <1>10
  <2>2. \A f \in Feeds :
          /\ Removes(f)' => Removes(f)
          /\ \A i \in IDs : /\ Adds(f, i)' <=> Adds(f, i)
                            /\ Takes(f, i) => Takes(f, i)' \/ i \in b
    BY <1>5, <1>6, <1>7, <1>10 DEF Adds, Removes, Takes, Events
  <2>3. \A i \in b : articles[i] = None
    BY <1>8, <1>10 DEF Found
  <2>4. Indexed'
    BY <1>2, <1>8, <2>1 DEF Indexed, Postgres
  <2>5. Adding'
    BY <1>2, <1>8, <2>2 DEF Adding, Postgres
  <2>6. Removing'
    BY <1>2, <1>8, <2>1, <2>2, Nobody DEF Removing
  <2>7. Found'
    BY <1>2, <1>5, <1>7, <1>8, <1>10 DEF Found, Postgres
  <2>8. Exclusive'
    BY <1>2, <1>8, <2>2 DEF Exclusive
  <2>9. Covered'
    BY <1>2, <1>8, <2>1, <2>2, <2>3, Nobody DEF Covered
  <2>10. Passing'
    <3> SUFFICES ASSUME ~overlap, NEW i \in IDs, NEW f \in Feeds, index'[i] = f
                 PROVE  articles[i] = f \/ i \in failed \/ Takes(f, i)'
      BY <1>2 DEF Passing
    <3>1. i \notin b /\ index[i] = f
      BY <2>1, Nobody
    <3> QED BY <1>8, <2>2, <3>1 DEF Passing
  <2> QED BY <1>8, <2>4, <2>5, <2>6, <2>7, <2>8, <2>9, <2>10
<1> QED BY <1>9, <1>10 DEF Batch

LEMMA FailInv ==
  ASSUME TInv, IInv, NEW j \in Jobs, Fail(j)
  PROVE  TInv' /\ IInv'
<1> DEFINE feed == job[j].feed
           lost == IF job[j].at = "add" THEN job[j].left ELSE {i \in IDs : index[i] = feed}
<1>1. /\ failed' = failed \cup lost
      /\ UNCHANGED <<feeds, articles, seq, pending, stream, index, driver, overlap>>
  BY DEF Fail
<1>2. TInv'
  BY DEF TInv, Fail
<1>3. \A k \in Jobs : job'[k] = IF k = j THEN Free ELSE job[k]
  BY DEF TInv, Fail
<1>4. job'[j].at = "free" /\ \A k \in Jobs : k # j => job'[k] = job[k]
  BY <1>3, Nobody
<1>5. \A e \in Events : Waiting(e)' <=> Waiting(e)
  BY <1>1 DEF Waiting
<1>6. \A f \in Feeds :
        /\ Removes(f)' => Removes(f)
        /\ \A i \in IDs : /\ Adds(f, i)' => Adds(f, i)
                          /\ Adds(f, i) => Adds(f, i)' \/ i \in lost
                          /\ index[i] = f /\ Takes(f, i) => Takes(f, i)' \/ i \in lost
  BY <1>4, <1>5 DEF Adds, Removes, Takes, Events
<1> SUFFICES ASSUME Reliable'
             PROVE  /\ Known' /\ Indexed' /\ Adding' /\ Removing' /\ Found'
                    /\ Exclusive' /\ Covered' /\ Passing'
  BY <1>2 DEF IInv
<1>7. Known /\ Indexed /\ Adding /\ Removing /\ Found /\ Exclusive /\ Covered /\ Passing
  BY <1>1 DEF Reliable, Postgres, IInv
<1>8. Known' /\ Indexed' /\ Adding'
  BY <1>1, <1>6, <1>7 DEF Known, Indexed, Adding, Postgres
<1>9. Removing' /\ Exclusive'
  BY <1>1, <1>6, <1>7 DEF Removing, Exclusive
<1>10. Found'
  BY <1>1, <1>4, <1>7 DEF Found, Postgres
<1>11. Covered' /\ Passing'
  BY <1>1, <1>6, <1>7 DEF Covered, Passing
<1> QED BY <1>7, <1>8, <1>9, <1>10, <1>11

LEMMA NextInv == TInv /\ IInv /\ [Next]_vars => TInv' /\ IInv'
<1> SUFFICES ASSUME TInv, IInv, [Next]_vars PROVE TInv' /\ IInv'
  OBVIOUS
<1>1. ASSUME NEW f \in Feeds, DeleteFeed(f) PROVE TInv' /\ IInv'
  BY <1>1, DeleteFeedInv
<1>2. ASSUME NEW f \in Feeds, NEW n \in 1 .. MaxNew, Store(f, n) PROVE TInv' /\ IInv'
  BY <1>2, StoreInv
<1>3. ASSUME NEW c \in Callers, Dispatch(c) PROVE TInv' /\ IInv'
  BY <1>3, DispatchInv
<1>4. ASSUME NEW j \in Jobs, Start(j) \/ Search(j) \/ Batch(j) \/ Fail(j)
      PROVE  TInv' /\ IInv'
  BY <1>4, StartInv, SearchInv, BatchInv, FailInv
<1>5. CASE UNCHANGED vars
  <2>1. TInv'
    BY <1>5 DEF TInv, vars
  <2>2. \A f \in Feeds : /\ Removes(f)' <=> Removes(f)
                         /\ \A i \in IDs : /\ Adds(f, i)' <=> Adds(f, i)
                                           /\ Takes(f, i)' <=> Takes(f, i)
    BY <1>5 DEF Removes, Adds, Takes, Waiting, vars
  <2>3. Reliable /\ IInv => Found'
    BY <1>5 DEF IInv, Found, Postgres, vars
  <2> QED BY <1>5, <2>1, <2>2, <2>3, MovesInv DEF vars
<1> QED BY <1>1, <1>2, <1>3, <1>4, <1>5 DEF Next

LEMMA Invariants == Spec => [](TInv /\ IInv)
<1> QED BY InitInv, NextInv, PTL DEF Spec

-----------------------------------------------------------------------------
(* Once all events are dealt with, every article of the database is in the *)
(* index under its feed, unless its own batch met an error.                *)
THEOREM EveryArticleIndexed == Spec => []NothingMissing
<1>1. TInv /\ IInv => NothingMissing
  <2> SUFFICES ASSUME TInv, IInv, Idle, Reliable, NEW i \in IDs, articles[i] # None
               PROVE  index[i] = articles[i] \/ i \in failed
    BY DEF NothingMissing, Reliable, Postgres
  <2>1. articles[i] \in Feeds /\ ~Adds(articles[i], i)
    BY IdleIsEmpty DEF TInv
  <2> QED BY <2>1 DEF IInv, Covered
<1> QED BY <1>1, Invariants, PTL

(* When the events are far enough apart, no document outlives its article. *)
THEOREM NoDocumentOutlives == Spec => []NoOrphan
<1>1. TInv /\ IInv => NoOrphan
  <2> SUFFICES ASSUME TInv, IInv, Idle, ~overlap, NEW i \in IDs, index[i] # None
               PROVE  articles[i] # None \/ i \in failed
    BY DEF NoOrphan
  <2>1. index[i] \in Feeds /\ ~Takes(index[i], i)
    BY IdleIsEmpty, TakesIsRemoves DEF TInv
  <2> QED BY <2>1, Nobody DEF IInv, Reliable, Passing
<1> QED BY <1>1, Invariants, PTL

(* A document goes only when its feed is deleted, though the search and    *)
(* the batches of a removal are steps of their own.                        *)
THEOREM OnlyDeletedFeedsLose == Spec => RemovedOnlyWhenDeleted
<1> DEFINE Kept == driver = "postgres" \/ ~overlap =>
                     \A i \in IDs :
                       index[i] # None /\ index'[i] # index[i] => index[i] \notin feeds
<1>1. TInv /\ IInv /\ [Next]_vars => [Kept]_vars
  <2> SUFFICES ASSUME TInv, IInv, Next, Reliable, NEW i \in IDs,
                      index[i] # None, index'[i] # index[i]
               PROVE  index[i] \notin feeds
    BY DEF Reliable, Postgres, vars
  <2>1. PICK j \in Jobs : Batch(j)
    BY DEF Next, DeleteFeed, Store, Dispatch, Start, Search, Fail
  <2>2. i \in job[j].left /\ (job[j].at = "add" => index'[i] = job[j].feed)
    BY <2>1 DEF Batch
  <2>3. Indexed /\ Adding /\ Found
    BY DEF IInv
  <2>4. CASE job[j].at = "remove"
    BY <2>2, <2>3, <2>4, Nobody DEF Found, Indexed, TInv
  <2>5. CASE job[j].at = "add"
    <3>1. job[j].feed \in Feeds /\ Adds(job[j].feed, i)
      BY <2>2, <2>5, JobCases DEF Adds, Batches
    <3> QED BY <2>2, <2>3, <2>5, <3>1, Nobody DEF Adding, Indexed, TInv
  <2> QED BY <2>1, <2>4, <2>5 DEF Batch
<1> QED BY <1>1, Invariants, PTL DEF Spec, RemovedOnlyWhenDeleted
=============================================================================
