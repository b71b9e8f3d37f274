------------------------- MODULE FeedManagerProofs -------------------------
(***************************************************************************)
(* The feed manager for any users, links, requests and number of rows.     *)
(*                                                                         *)
(* With a sequence of IDs (postgres) all that carries an ID, in the        *)
(* database, in requests, on the way to the scheduler or in it, agrees on  *)
(* its link for ever (Agree), which makes a stale copy harmless and a      *)
(* subscription what was asked for.  Whatever the database and whatever    *)
(* requests overlap, the users that lose a feed to its deletion came after *)
(* the loop had asked for them (Late).                                     *)
(*                                                                         *)
(* The second part is about the subscriptions at hubs (Hubbub): no feed is *)
(* asked for twice, as long as its ID has had but one feed.                *)
(***************************************************************************)
EXTENDS FeedManager, Subscriptions, WellFoundedInduction, TLAPS

Steps == {"idle", "lookup", "find", "search", "create", "add", "attach", "detach",
          "users", "remove"}
Request == [at : Steps, user : Users \cup {None}, asked : Links \cup {None}, feed : Feed]

TInv ==
  /\ rows \in [IDs -> Links \cup {None}] /\ seq \in 0 .. MaxID
  /\ subs \subseteq Users \X IDs
  /\ req \in [Reqs -> Request]
  /\ loop \in [at : {"select", "users", "delete"}, feed : Feed]
  /\ starting \subseteq Feed
  /\ polled \in [IDs -> Links \cup {None}]

(* Where an ID is carried with a link.                                     *)
Stored == {Row(i) : i \in {j \in IDs : rows[j] # None}}
Polled == {[id |-> i, link |-> polled[i]] : i \in {j \in IDs : polled[j] # None}}
Holding == {"add", "attach", "detach", "users", "remove"}
Held == {req[r].feed : r \in {q \in Reqs : req[q].at \in Holding}}
Copies == Stored \cup Polled \cup Held \cup starting

Agree(copies, n) ==
  /\ \A f \in copies : f.id \in 1 .. n /\ f.link \in Links
  /\ \A f, g \in copies : f.id = g.id => f.link = g.link

Backed == \A s \in subs : rows[s[2]] # None

(* The feed in the hands of a request is one it may subscribe its user to. *)
Adding == {"lookup", "find", "search", "create", "add", "attach"}
Asking(q) ==
  /\ q.at # "idle" => q.user \in Users
  /\ q.at \in Adding => q.asked \in Links
  /\ q.at \in {"create", "add", "attach"} =>
       q.feed.link \in {q.asked} \cup Discovered[q.asked]
AsAsked == \A r \in Reqs : Asking(req[r])

IInv == TInv /\ Agree(Copies, seq) /\ Backed /\ AsAsked

-----------------------------------------------------------------------------
(* Of fewer copies the same holds. *)
LEMMA FewerAgree ==
  ASSUME NEW C, NEW D, NEW n, Agree(C, n), D \subseteq C
  PROVE  Agree(D, n)
BY DEF Agree

(* A copy with the next ID of the sequence agrees with all there are. *)
LEMMA NextAgrees ==
  ASSUME NEW C, NEW D, NEW n \in Nat, NEW l \in Links, Agree(C, n),
         D \subseteq C \cup {[id |-> n + 1, link |-> l]}
  PROVE  Agree(D, n + 1)
<1> DEFINE new == [id |-> n + 1, link |-> l]
<1>1. new.id = n + 1 /\ new.link = l
  OBVIOUS
<1> HIDE DEF new
<1>2. \A f \in D : f \in C \/ f = new
  BY DEF new
<1>3. \A f \in C : f.id \in 1 .. n /\ f.link \in Links /\ f.id # n + 1
  BY DEF Agree
<1> QED BY <1>1, <1>2, <1>3 DEF Agree

(* What stays where it is.                                                 *)
LEMMA SameCopies ==
  /\ UNCHANGED rows => Stored' = Stored
  /\ UNCHANGED polled => Polled' = Polled
  /\ UNCHANGED req => Held' = Held
BY DEF Stored, Row, Polled, Held

(* A request that goes on holds what it is given.                          *)
LEMMA GoHeld ==
  ASSUME TInv, NEW r \in Reqs, NEW from, NEW to, NEW f, Go(r, from, to, f)
  PROVE  /\ to \in Holding => Held' \subseteq Held \cup {f}
         /\ to \notin Holding => Held' \subseteq Held
<1>1. \A q \in Reqs : q # r => req'[q] = req[q]
  BY DEF TInv, Go
<1>2. to # "idle" => req'[r].at = to /\ req'[r].feed = f
  BY DEF TInv, Go, Request
<1>3. to = "idle" => req'[r].at \notin Holding
  BY DEF TInv, Go, NoReq, Holding
<1> QED BY <1>1, <1>2, <1>3 DEF Held

(* A request that goes on with the feed it holds, or to a step that holds  *)
(* none, carries nothing new.                                              *)
LEMMA MoveHeld ==
  ASSUME TInv, NEW r \in Reqs, NEW from, NEW to, Move(r, from, to),
         from \in Holding \/ to \notin Holding
  PROVE  Held' \subseteq Held
<1>1. Go(r, from, to, req[r].feed)
  BY DEF Move
<1>2. from \in Holding => req[r].feed \in Held
  BY <1>1 DEF Go, Held
<1> QED BY <1>1, <1>2, GoHeld

(* A request that goes on stays a request. *)
LEMMA GoType ==
  ASSUME TInv, NEW r \in Reqs, NEW from, NEW to \in Steps, NEW f \in Feed, Go(r, from, to, f)
  PROVE  /\ req' \in [Reqs -> Request]
         /\ \A q \in Reqs \ {r} : req'[q] = req[q]
         /\ req'[r].at = to
         /\ to # "idle" => /\ req'[r].user = req[r].user /\ req'[r].asked = req[r].asked
                           /\ req'[r].feed = f
<1>1. NoReq \in Request /\ NoReq.at = "idle"
  BY MaxIDAssumption DEF NoReq, Request, NoFeed, Feed, Steps, IDs
<1>2. [req[r] EXCEPT !.at = to, !.feed = f] \in Request
  BY DEF TInv, Request
<1> QED BY <1>1, <1>2 DEF TInv, Go, Request

-----------------------------------------------------------------------------
(* The request that waits asks for nothing. *)
LEMMA IdleAsks == NoReq \in Request /\ Asking(NoReq) /\ NoReq.at = "idle"
BY MaxIDAssumption DEF NoReq, Request, NoFeed, Feed, Steps, IDs, Asking, Adding

(* A step that changes one request and no more, and copies nothing new.    *)
LEMMA ReqInv ==
  ASSUME IInv, NEW r \in Reqs, UNCHANGED <<store, memory>>,
         req' \in [Reqs -> Request], \A q \in Reqs \ {r} : req'[q] = req[q],
         Asking(req'[r]), Held' \subseteq Copies
  PROVE  IInv'
<1>1. TInv'
  BY DEF IInv, TInv, store, memory
<1>2. Copies' \subseteq Copies
  BY SameCopies DEF Copies, store, memory
<1>3. Agree(Copies', seq')
  BY <1>2, FewerAgree DEF IInv, store
<1>4. Backed' /\ AsAsked'
  BY DEF IInv, Backed, AsAsked, store
<1> QED BY <1>1, <1>3, <1>4 DEF IInv

(* A row that is there is a copy. *)
LEMMA StoredCopy == ASSUME NEW i \in IDs, rows[i] # None PROVE Row(i) \in Copies
BY DEF Copies, Stored

(* A new request to add a feed holds no copy yet. *)
LEMMA AskAddInv ==
  ASSUME IInv, NEW r \in Reqs, NEW u \in Users, NEW l \in Links, AskAdd(r, u, l)
  PROVE  IInv'
<1>1. PICK at \in {"find", "lookup"} :
        req' = [req EXCEPT ![r] = [at |-> at, user |-> u, asked |-> l, feed |-> NoFeed]]
  BY DEF AskAdd
<1> DEFINE new == [at |-> at, user |-> u, asked |-> l, feed |-> NoFeed]
<1>2. new \in Request /\ Asking(new) /\ new.at \notin Holding
  BY MaxIDAssumption DEF Request, NoFeed, Feed, Steps, IDs, Asking, Adding, Holding
<1> HIDE DEF new
<1>3. req' = [req EXCEPT ![r] = new]
  BY <1>1 DEF new
<1>4. req' \in [Reqs -> Request] /\ req'[r] = new /\ \A q \in Reqs \ {r} : req'[q] = req[q]
  BY <1>2, <1>3 DEF IInv, TInv
<1>5. Held' \subseteq Held
  BY <1>2, <1>4 DEF Held
<1> QED BY <1>2, <1>4, <1>5, ReqInv DEF AskAdd, Copies

(* A request to delete a feed holds the row it has read. *)
LEMMA AskDeleteInv ==
  ASSUME IInv, NEW r \in Reqs, NEW u \in Users, NEW i \in IDs, AskDelete(r, u, i)
  PROVE  IInv'
<1> DEFINE new == [at |-> "detach", user |-> u, asked |-> None, feed |-> Row(i)]
<1>1. Row(i) \in Feed
  BY DEF IInv, TInv, Row, Feed
<1>2. new \in Request /\ Asking(new) /\ new.feed = Row(i)
  BY <1>1 DEF Request, Steps, Asking, Adding
<1>3. req' = [req EXCEPT ![r] = new]
  BY DEF AskDelete
<1> HIDE DEF new
<1>4. req' \in [Reqs -> Request] /\ req'[r] = new /\ \A q \in Reqs \ {r} : req'[q] = req[q]
  BY <1>2, <1>3 DEF IInv, TInv
<1>5. Held' \subseteq Held \cup {Row(i)}
  BY <1>2, <1>4 DEF Held
<1>6. rows[i] # None
  BY DEF AskDelete, IInv, Backed
<1>7. Held' \subseteq Copies
  BY <1>5, <1>6, StoredCopy DEF Copies
<1> QED BY <1>2, <1>4, <1>7, ReqInv DEF AskDelete

(* A request goes on with the row it has found.                            *)
LEMMA FoundInv ==
  ASSUME IInv, NEW r \in Reqs, NEW i \in IDs, NEW from \in Adding,
         NEW to \in {"idle", "add", "attach"}, rows[i] = req[r].asked,
         Go(r, from, to, Row(i)), UNCHANGED <<store, memory>>
  PROVE  IInv'
<1>1. req[r].at = from /\ req[r].asked \in Links /\ from # "idle" /\ req[r].user \in Users
  BY DEF Go, IInv, AsAsked, Asking, Adding
<1>2. rows[i] # None
  BY <1>1, NoneAssumption
<1>3. Row(i) \in Feed /\ Row(i).link = req[r].asked
  BY DEF IInv, TInv, Row, Feed
<1>4. /\ req' \in [Reqs -> Request] /\ \A q \in Reqs \ {r} : req'[q] = req[q]
      /\ req'[r].at = to
      /\ to # "idle" => /\ req'[r].user = req[r].user /\ req'[r].asked = req[r].asked
                        /\ req'[r].feed = Row(i)
  <2>1. TInv /\ to \in Steps
    BY DEF IInv, Steps
  <2> QED BY <1>3, <2>1, GoType
<1>5. Asking(req'[r])
  BY <1>1, <1>3, <1>4 DEF Asking, Adding
<1>6. Held' \subseteq Copies
  BY <1>2, GoHeld, StoredCopy DEF IInv, Copies
<1> QED BY <1>4, <1>5, <1>6, ReqInv

(* A request goes on with what it has.                                     *)
LEMMA MoveInv ==
  ASSUME IInv, NEW r \in Reqs, NEW from \in Steps \ {"idle"}, NEW to \in Steps,
         Move(r, from, to), UNCHANGED <<store, memory>>,
         from \in Holding \/ to \notin Holding,
         to \in Adding => from \in Adding,
         to \in {"create", "add", "attach"} => from \in {"create", "add", "attach"}
  PROVE  IInv'
<1>1. Go(r, from, to, req[r].feed)
  BY DEF Move
<1>2. /\ req[r] \in Request /\ Asking(req[r]) /\ req[r].at = from /\ req[r].feed \in Feed
  BY <1>1 DEF IInv, TInv, AsAsked, Go, Request
<1>3. /\ req' \in [Reqs -> Request] /\ \A q \in Reqs \ {r} : req'[q] = req[q]
      /\ req'[r].at = to
      /\ to # "idle" => /\ req'[r].user = req[r].user /\ req'[r].asked = req[r].asked
                        /\ req'[r].feed = req[r].feed
  <2>1. TInv
    BY DEF IInv
  <2> QED BY <1>1, <1>2, <2>1, GoType
<1>4. Asking(req'[r])
  BY <1>2, <1>3 DEF Asking, Adding
<1>5. Held' \subseteq Copies
  BY MoveHeld DEF IInv, Copies
<1> QED BY <1>3, <1>4, <1>5, ReqInv

(* The lookups of a link, before and after discovery. *)
LEMMA LookupInv == ASSUME IInv, NEW r \in Reqs, Lookup(r) \/ Find(r) PROVE IInv'
<1>1. UNCHANGED <<store, memory>>
  BY DEF Lookup, Find
<1>2. CASE Move(r, "lookup", "find") \/ Move(r, "find", "search")
  BY <1>1, <1>2, MoveInv DEF Steps, Holding, Adding
<1>3. CASE \E i \in IDs : rows[i] = req[r].asked /\ Go(r, "find", "add", Row(i))
  BY <1>1, <1>3, FoundInv DEF Adding
<1>4. CASE \E i \in IDs : /\ rows[i] = req[r].asked
                          /\ Go(r, "lookup", IF req[r].user \in UsersOf(i) THEN "idle" ELSE "attach",
                                Row(i))
  <2>1. PICK i \in IDs, to \in {"idle", "attach"} :
          rows[i] = req[r].asked /\ Go(r, "lookup", to, Row(i))
    BY <1>4
  <2> QED BY <1>1, <2>1, FoundInv DEF Adding
<1> QED BY <1>2, <1>3, <1>4 DEF Lookup, Find

(* Discovery leads to the links of the page that was asked for. *)
LEMMA SearchInv == ASSUME IInv, NEW r \in Reqs, Search(r) PROVE IInv'
<1>1. PICK l \in Discovered[req[r].asked] : Go(r, "search", "create", [id |-> 0, link |-> l])
  BY DEF Search
<1>2. req[r].at = "search" /\ req[r].asked \in Links /\ req[r].user \in Users
  BY DEF Search, IInv, AsAsked, Asking, Adding
<1>3. l \in Links
  BY <1>1, <1>2, DiscoveredAssumption
<1> DEFINE f == [id |-> 0, link |-> l]
<1>4. f \in Feed /\ f.link = l
  BY <1>3, MaxIDAssumption DEF Feed, IDs
<1> HIDE DEF f
<1>5. Go(r, "search", "create", f)
  BY <1>1 DEF f
<1>6. /\ req' \in [Reqs -> Request] /\ \A q \in Reqs \ {r} : req'[q] = req[q]
      /\ req'[r].at = "create" /\ req'[r].user = req[r].user /\ req'[r].asked = req[r].asked
      /\ req'[r].feed = f
  BY <1>4, <1>5, GoType DEF IInv, Steps
<1>7. Asking(req'[r])
  BY <1>2, <1>4, <1>6 DEF Asking, Adding
<1>8. Held' \subseteq Held
  BY <1>5, GoHeld DEF IInv, Holding
<1> QED BY <1>6, <1>7, <1>8, ReqInv DEF Search, Copies

(* A request that ends or finds users left. *)
LEMMA LeaveInv == ASSUME IInv, NEW r \in Reqs, UsersLeft(r) \/ Fail(r) PROVE IInv'
<1>1. UNCHANGED <<store, memory>>
  BY DEF UsersLeft, Fail
<1>2. PICK from \in Steps \ {"idle"}, to \in {"idle", "remove"} :
        Move(r, from, to) /\ (to = "remove" => from = "users")
  BY DEF UsersLeft, Fail, Steps
<1> QED BY <1>1, <1>2, MoveInv DEF Steps, Holding, Adding

-----------------------------------------------------------------------------
(* The sequence gives an ID that nothing carries.                          *)
LEMMA InsertsNew ==
  ASSUME Driver = "postgres", IInv, NEW l \in Links, Insert(l)
  PROVE  /\ seq + 1 \in IDs /\ rows[seq + 1] = None
         /\ rows' = [rows EXCEPT ![seq + 1] = l] /\ seq' = seq + 1
         /\ rows' \in [IDs -> Links \cup {None}] /\ seq' \in 0 .. MaxID
         /\ Stored' \subseteq Stored \cup {[id |-> seq + 1, link |-> l]}
         /\ Backed'
<1>1. /\ rows' = [rows EXCEPT ![seq + 1] = l] /\ seq' = seq + 1 /\ seq < MaxID
      /\ UNCHANGED subs
  BY DEF Insert, NewID
<1>2. seq + 1 \in IDs /\ seq \in Nat /\ seq' \in 0 .. MaxID
  BY <1>1, MaxIDAssumption DEF IInv, TInv, IDs
<1>3. rows[seq + 1] = None
  <2> SUFFICES ASSUME rows[seq + 1] # None PROVE FALSE
    OBVIOUS
  <2>1. Row(seq + 1) \in Copies /\ Row(seq + 1).id = seq + 1
    BY <1>2, StoredCopy DEF Row
  <2> QED BY <1>2, <2>1 DEF IInv, Agree
<1>4. rows' \in [IDs -> Links \cup {None}] /\ rows'[seq + 1] = l
      /\ \A i \in IDs \ {seq + 1} : rows'[i] = rows[i]
  BY <1>1, <1>2 DEF IInv, TInv
<1>5. Stored' \subseteq Stored \cup {[id |-> seq + 1, link |-> l]}
  BY <1>4 DEF Stored, Row
<1>6. Backed'
  <2>1. \A t \in subs : t[2] \in IDs /\ rows[t[2]] # None /\ rows'[t[2]] # None
    BY <1>3, <1>4 DEF IInv, TInv, Backed
  <2> QED BY <1>1, <2>1 DEF Backed
<1> QED BY <1>1, <1>2, <1>3, <1>4, <1>5, <1>6

(* The feed that a request creates. *)
LEMMA CreateInv ==
  ASSUME Driver = "postgres", IInv, NEW r \in Reqs, Create(r)
  PROVE  IInv'
<1> DEFINE l == req[r].feed.link
           f == [id |-> seq + 1, link |-> l]
<1>1. Insert(l) /\ Go(r, "create", "add", f) /\ UNCHANGED memory
  BY DEF Create, NewID
<1>2. req[r].at = "create" /\ Asking(req[r])
  BY <1>1 DEF Go, IInv, AsAsked
<1>3. l \in Links
  BY <1>2, DiscoveredAssumption DEF Asking, Adding
<1>4. /\ seq + 1 \in IDs /\ seq' = seq + 1
      /\ rows' \in [IDs -> Links \cup {None}] /\ seq' \in 0 .. MaxID
      /\ Stored' \subseteq Stored \cup {f} /\ Backed' /\ UNCHANGED subs
  BY <1>1, <1>3, InsertsNew DEF Insert
<1>5. f \in Feed /\ f.link = l
  BY <1>3, <1>4 DEF Feed
<1>6. /\ req' \in [Reqs -> Request] /\ \A q \in Reqs \ {r} : req'[q] = req[q]
      /\ req'[r].at = "add" /\ req'[r].user = req[r].user /\ req'[r].asked = req[r].asked
      /\ req'[r].feed = f
  <2>1. TInv /\ "add" \in Steps
    BY DEF IInv, Steps
  <2> QED BY <1>1, <1>5, <2>1, GoType
<1>7. Held' \subseteq Held \cup {f}
  BY <1>1, GoHeld DEF IInv, Holding
<1>8. AsAsked'
  <2>1. Asking(req'[r])
    BY <1>2, <1>5, <1>6 DEF Asking, Adding
  <2> QED BY <1>6, <2>1 DEF IInv, AsAsked
<1>9. Copies' \subseteq Copies \cup {f}
  BY <1>1, <1>4, <1>7, SameCopies DEF Copies, memory
<1>10. Agree(Copies', seq')
  BY <1>3, <1>4, <1>9, NextAgrees DEF IInv, TInv
<1>11. TInv'
  BY <1>1, <1>4, <1>6 DEF IInv, TInv, memory
<1> QED BY <1>4, <1>8, <1>10, <1>11 DEF IInv

(* A step that changes no row and copies nothing new.                      *)
LEMMA CopiesInv ==
  ASSUME IInv, UNCHANGED <<rows, seq>>, TInv', Copies' \subseteq Copies, AsAsked',
         \A s \in subs' : s \in subs \/ rows[s[2]] # None
  PROVE  IInv'
<1>1. Agree(Copies', seq')
  BY FewerAgree DEF IInv
<1>2. Backed'
  BY DEF IInv, Backed
<1> QED BY <1>1, <1>2 DEF IInv

(* What a request becomes that moves on with what it has.                  *)
LEMMA MoveOn ==
  ASSUME IInv, NEW r \in Reqs, NEW from \in Steps \ {"idle"}, NEW to \in Steps,
         Move(r, from, to),
         from \in Holding \/ to \notin Holding,
         to \in Adding => from \in {"add", "attach"}
  PROVE  /\ req' \in [Reqs -> Request] /\ AsAsked' /\ Held' \subseteq Held
         /\ req[r].at = from /\ req[r].user \in Users /\ req[r].feed \in Feed
         /\ from \in Holding => req[r].feed \in Held
<1>1. Go(r, from, to, req[r].feed)
  BY DEF Move
<1>2. /\ req[r] \in Request /\ Asking(req[r]) /\ req[r].at = from /\ req[r].feed \in Feed
  BY <1>1 DEF IInv, TInv, AsAsked, Go, Request
<1>3. /\ req' \in [Reqs -> Request] /\ \A q \in Reqs \ {r} : req'[q] = req[q]
      /\ req'[r].at = to
      /\ to # "idle" => /\ req'[r].user = req[r].user /\ req'[r].asked = req[r].asked
                        /\ req'[r].feed = req[r].feed
  <2>1. TInv
    BY DEF IInv
  <2> QED BY <1>1, <1>2, <2>1, GoType
<1>4. Asking(req'[r])
  BY <1>2, <1>3 DEF Asking, Adding
<1>5. AsAsked'
  BY <1>3, <1>4 DEF IInv, AsAsked
<1>6. Held' \subseteq Held
  BY MoveHeld DEF IInv
<1>7. from \in Holding => req[r].feed \in Held
  BY <1>2 DEF Held
<1> QED BY <1>2, <1>3, <1>5, <1>6, <1>7 DEF Asking

(* A user is attached to a feed or detached from it. *)
LEMMA SubscribeInv == ASSUME IInv, NEW r \in Reqs, Attach(r) \/ Detach(r) PROVE IInv'
<1>1. UNCHANGED <<rows, seq, loop, starting, polled>>
  BY DEF Attach, Detach, memory
<1>2. PICK from \in {"attach", "detach"}, to \in {"idle", "remove", "users"} : Move(r, from, to)
  BY DEF Attach, Detach
<1>3. /\ req' \in [Reqs -> Request] /\ AsAsked' /\ Held' \subseteq Held
      /\ req[r].user \in Users /\ req[r].feed \in Feed
  BY <1>2, MoveOn DEF Steps, Holding, Adding
<1>4. subs' \subseteq subs \cup {s \in Users \X IDs : rows[s[2]] # None}
  BY <1>3 DEF Attach, Detach, Feed
<1>5. TInv'
  BY <1>1, <1>3, <1>4 DEF IInv, TInv
<1>6. Copies' \subseteq Copies
  BY <1>1, <1>3, SameCopies DEF Copies
<1> QED BY <1>1, <1>3, <1>4, <1>5, <1>6, CopiesInv

(* The loop takes a feed from a request. *)
LEMMA LoopTakesInv == ASSUME IInv, NEW r \in Reqs, LoopAdd(r) \/ LoopRemove(r) PROVE IInv'
<1>1. UNCHANGED <<store, polled>>
  BY DEF LoopAdd, LoopRemove
<1>2. PICK from \in {"add", "remove"}, to \in {"attach", "idle"} :
        Move(r, from, to) /\ (to = "attach" => from = "add")
  BY DEF LoopAdd, LoopRemove
<1>3. /\ req' \in [Reqs -> Request] /\ AsAsked' /\ Held' \subseteq Held
      /\ req[r].feed \in Feed /\ req[r].feed \in Held
  BY <1>2, MoveOn DEF Steps, Holding, Adding
<1>4. /\ starting' \subseteq starting \cup {req[r].feed}
      /\ loop' \in [at : {"select", "users", "delete"}, feed : Feed]
  BY <1>3 DEF LoopAdd, LoopRemove, IInv, TInv
<1>5. TInv'
  BY <1>1, <1>3, <1>4 DEF IInv, TInv, store
<1>6. Copies' \subseteq Copies
  BY <1>1, <1>3, <1>4, SameCopies DEF Copies, store
<1> QED BY <1>1, <1>3, <1>5, <1>6, CopiesInv DEF store

(* The loop that waits holds no feed. *)
LEMMA IdleLoop == Idle \in [at : {"select", "users", "delete"}, feed : Feed]
BY MaxIDAssumption DEF Idle, NoFeed, Feed, IDs

(* The steps of the loop. *)
LEMMA LoopInv == ASSUME IInv, LoopStep PROVE IInv'
<1>1. UNCHANGED <<seq, req, starting, polled>> /\ AsAsked'
      /\ loop' \in [at : {"select", "users", "delete"}, feed : Feed]
  BY IdleLoop DEF LoopStep, LoopUsers, LoopDelete, LoopFails, IInv, TInv, AsAsked, store
<1>2. CASE UNCHANGED <<rows, subs>>
  <2>1. TInv'
    BY <1>1, <1>2 DEF IInv, TInv
  <2>2. Copies' \subseteq Copies
    BY <1>1, <1>2, SameCopies DEF Copies
  <2> QED BY <1>1, <1>2, <2>1, <2>2, CopiesInv
<1>3. CASE LoopDelete
  <2> DEFINE k == loop.feed.id
  <2>1. /\ k \in IDs /\ rows' = [rows EXCEPT ![k] = None] /\ subs' = {s \in subs : s[2] # k}
    BY <1>3 DEF LoopDelete, IInv, TInv, Feed
  <2>2. rows' \in [IDs -> Links \cup {None}] /\ rows'[k] = None
        /\ \A i \in IDs \ {k} : rows'[i] = rows[i]
    BY <2>1 DEF IInv, TInv
  <2>3. Stored' \subseteq Stored
    BY <2>2 DEF Stored, Row
  <2>4. Agree(Copies', seq')
    <3>1. Copies' \subseteq Copies
      BY <1>1, <2>3, SameCopies DEF Copies
    <3> QED BY <1>1, <3>1, FewerAgree DEF IInv
  <2>5. Backed'
    BY <2>1, <2>2 DEF IInv, TInv, Backed
  <2>6. TInv'
    BY <1>1, <2>1, <2>2 DEF IInv, TInv
  <2> QED BY <1>1, <2>4, <2>5, <2>6 DEF IInv
<1> QED BY <1>2, <1>3 DEF LoopStep, LoopUsers, LoopFails, store

(* A feed comes to the scheduler. *)
LEMMA ScheduleInv == ASSUME IInv, NEW f \in starting, Schedule(f) PROVE IInv'
<1>1. UNCHANGED <<store, req, loop>> /\ starting' = starting \ {f} /\ AsAsked'
  BY DEF Schedule, IInv, AsAsked
<1>2. f \in Feed /\ f \in Copies /\ f.id \in IDs
  BY DEF IInv, TInv, Feed, Copies
<1>3. /\ polled' \in [IDs -> Links \cup {None}]
      /\ \A i \in IDs : polled'[i] = polled[i] \/ (i = f.id /\ polled'[i] = f.link)
  BY <1>2 DEF Schedule, IInv, TInv, Feed
<1>4. f = [id |-> f.id, link |-> f.link]
  BY <1>2 DEF Feed
<1>5. Polled' \subseteq Polled \cup {f}
  BY <1>3, <1>4 DEF Polled
<1>6. Copies' \subseteq Copies
  BY <1>1, <1>2, <1>5, SameCopies DEF Copies, store
<1>7. TInv'
  BY <1>1, <1>3 DEF IInv, TInv, store
<1> QED BY <1>1, <1>6, <1>7, CopiesInv DEF store

(* An update may create the feed that was deleted meanwhile. *)
LEMMA PollInv ==
  ASSUME Driver = "postgres", IInv, NEW i \in IDs, Poll(i)
  PROVE  IInv'
<1> DEFINE l == polled[i]
<1>1. UNCHANGED <<subs, req, memory>> /\ AsAsked' /\ l \in Links
  BY DEF Poll, Insert, IInv, TInv, AsAsked
<1>2. CASE rows[i] # None /\ rows' = [rows EXCEPT ![i] = l] /\ UNCHANGED seq
  <2>1. [id |-> i, link |-> l] \in Copies /\ Row(i) \in Copies
    BY <1>1, <1>2, StoredCopy, NoneAssumption DEF Copies, Polled
  <2>2. l = rows[i]
    <3>1. /\ [id |-> i, link |-> l].id = Row(i).id
          /\ [id |-> i, link |-> l].link = l /\ Row(i).link = rows[i]
      BY DEF Row
    <3> HIDE DEF l
    <3> QED BY <2>1, <3>1 DEF IInv, Agree
  <2>3. rows' = rows
    BY <1>2, <2>2 DEF IInv, TInv
  <2>4. TInv'
    BY <1>1, <1>2, <2>3 DEF IInv, TInv, memory
  <2>5. Copies' \subseteq Copies
    BY <1>1, <2>3, SameCopies DEF Copies, memory
  <2> QED BY <1>1, <1>2, <2>3, <2>4, <2>5, CopiesInv
<1>3. CASE Insert(l)
  <2>1. /\ rows' \in [IDs -> Links \cup {None}] /\ seq' \in 0 .. MaxID /\ seq' = seq + 1
        /\ Stored' \subseteq Stored \cup {[id |-> seq + 1, link |-> l]} /\ Backed'
    BY <1>1, <1>3, InsertsNew
  <2>2. Copies' \subseteq Copies \cup {[id |-> seq + 1, link |-> l]}
    BY <1>1, <2>1, SameCopies DEF Copies, memory
  <2>3. Agree(Copies', seq')
    BY <1>1, <2>1, <2>2, NextAgrees DEF IInv, TInv
  <2>4. TInv'
    BY <1>1, <2>1 DEF IInv, TInv, memory
  <2> QED BY <1>1, <2>1, <2>3, <2>4 DEF IInv
<1> QED BY <1>2, <1>3 DEF Poll

(* A restart forgets all but the database. *)
LEMMA RestartInv == ASSUME IInv, Restart PROVE IInv'
<1>1. /\ UNCHANGED <<rows, seq, subs>> /\ req' = [r \in Reqs |-> NoReq] /\ loop' = Idle
      /\ starting' = Stored /\ polled' = [i \in IDs |-> None]
  BY DEF Restart, store, Stored
<1>2. Stored \subseteq Feed
  BY DEF Stored, Row, Feed, IInv, TInv
<1>3. TInv'
  BY <1>1, <1>2, IdleLoop, IdleAsks DEF IInv, TInv
<1>4. Polled' = {} /\ Held' = {} /\ Stored' = Stored
  BY <1>1, SameCopies, IdleAsks DEF Polled, Held, Holding
<1>5. Copies' \subseteq Copies
  BY <1>1, <1>4 DEF Copies
<1>6. AsAsked'
  BY <1>1, IdleAsks DEF AsAsked
<1> QED BY <1>1, <1>3, <1>5, <1>6, CopiesInv

(* The first state. *)
LEMMA InitIInv == Init => IInv
<1> SUFFICES ASSUME Init PROVE IInv
  OBVIOUS
<1>1. TInv
  BY MaxIDAssumption, IdleLoop, IdleAsks DEF Init, TInv, IDs
<1>2. Copies = {}
  BY IdleAsks DEF Init, Copies, Stored, Polled, Held, Holding
<1>3. Agree(Copies, seq)
  BY <1>2 DEF Agree
<1>4. Backed /\ AsAsked
  BY IdleAsks DEF Init, Backed, AsAsked
<1> QED BY <1>1, <1>3, <1>4 DEF IInv

(* Every step, with the sequence of postgres. *)
LEMMA NextIInv == Driver = "postgres" /\ IInv /\ [Next]_vars => IInv'
<1> SUFFICES ASSUME Driver = "postgres", IInv, [Next]_vars PROVE IInv'
  OBVIOUS
<1>1. ASSUME NEW r \in Reqs, ReqStep(r) PROVE IInv'
  BY <1>1, AskAddInv, AskDeleteInv, LookupInv, SearchInv, CreateInv, SubscribeInv, LeaveInv,
     LoopTakesInv DEF ReqStep
<1>2. CASE UNCHANGED vars
  <2>1. UNCHANGED <<rows, seq, subs, req, loop, starting, polled>>
    BY <1>2 DEF vars, store, memory
  <2>2. TInv' /\ Copies' = Copies /\ AsAsked'
    BY <2>1, SameCopies DEF IInv, TInv, Copies, AsAsked
  <2> QED BY <2>1, <2>2, CopiesInv
<1> QED BY <1>1, <1>2, LoopInv, ScheduleInv, PollInv, RestartInv DEF Next

(* The invariant. *)
LEMMA FeedsAgree == Driver = "postgres" => (Spec => []IInv)
<1> SUFFICES ASSUME Driver = "postgres" PROVE Spec => []IInv
  OBVIOUS
<1>1. IInv /\ [Next]_vars => IInv'
  BY NextIInv
<1> QED BY InitIInv, <1>1, PTL DEF Spec

(* A row keeps its link as long as it exists: a stale copy that a poll     *)
(* stores under an ID has the link the row of that ID has, where IDs come  *)
(* from a sequence.                                                        *)
THEOREM RowKeepsLink == Driver = "postgres" => (Spec => LinkStable)
<1> SUFFICES ASSUME Driver = "postgres" PROVE Spec => LinkStable
  OBVIOUS
<1> DEFINE Kept == \A i \in IDs : rows[i] # None /\ rows'[i] # None => rows'[i] = rows[i]
<1>1. IInv /\ [Next]_vars => [Kept]_vars
  <2> SUFFICES ASSUME IInv, Next, NEW i \in IDs, rows[i] # None, rows'[i] # None
               PROVE  rows'[i] = rows[i]
    OBVIOUS
  <2>1. ASSUME NEW l \in Links, Insert(l) PROVE rows'[i] = rows[i]
    BY <2>1, InsertsNew DEF IInv, TInv
  <2>2. ASSUME NEW r \in Reqs, Create(r) PROVE rows'[i] = rows[i]
    <3>1. Insert(req[r].feed.link) /\ req[r].at = "create" /\ Asking(req[r])
      BY <2>2 DEF Create, Go, IInv, AsAsked
    <3>2. req[r].feed.link \in Links
      BY <3>1, DiscoveredAssumption DEF Asking, Adding
    <3> QED BY <2>1, <3>1, <3>2
  <2>3. ASSUME NEW j \in IDs, Poll(j) PROVE rows'[i] = rows[i]
    <3>1. polled[j] \in Links
      BY <2>3 DEF Poll, IInv, TInv
    <3>2. CASE rows[j] # None /\ rows' = [rows EXCEPT ![j] = polled[j]]
      <4> DEFINE f == [id |-> j, link |-> polled[j]]
      <4>1. f \in Copies /\ Row(j) \in Copies
        BY <3>1, <3>2, StoredCopy, NoneAssumption DEF Copies, Polled
      <4>2. f.id = Row(j).id /\ f.link = polled[j] /\ Row(j).link = rows[j]
        BY DEF Row
      <4> HIDE DEF f
      <4>3. polled[j] = rows[j]
        BY <4>1, <4>2 DEF IInv, Agree
      <4> QED BY <3>2, <4>3 DEF IInv, TInv
    <3> QED BY <2>1, <2>3, <3>1, <3>2 DEF Poll
  <2>4. CASE LoopStep
    BY <2>4 DEF LoopStep, LoopUsers, LoopDelete, LoopFails, store, IInv, TInv
  <2>5. ASSUME NEW r \in Reqs, ReqStep(r) PROVE Create(r) \/ UNCHANGED rows
    BY <2>5 DEF ReqStep, AskAdd, AskDelete, Lookup, Find, Search, Attach, Detach, UsersLeft,
                Fail, LoopAdd, LoopRemove, store
  <2>6. CASE Restart \/ (\E f \in starting : Schedule(f))
    BY <2>6 DEF Restart, Schedule, store
  <2> QED BY <2>2, <2>3, <2>4, <2>5, <2>6 DEF Next
<1> QED BY <1>1, FeedsAgree, PTL DEF Spec, LinkStable

(* A request subscribes its user to the feed it asked for or to one found  *)
(* at its link: the row it subscribes to is still that feed's.             *)
THEOREM SubscribedAsAsked == Driver = "postgres" => (Spec => AttachedAsAsked)
<1> SUFFICES ASSUME Driver = "postgres" PROVE Spec => AttachedAsAsked
  OBVIOUS
<1> DEFINE Asked(s) ==
      \E r \in Reqs : /\ req[r].at = "attach" /\ req[r].user = s[1]
                      /\ rows[s[2]] \in {req[r].asked} \cup Discovered[req[r].asked]
                      /\ req'[r] = NoReq
<1>1. IInv /\ [Next]_vars => [\A s \in subs' \ subs : Asked(s)]_vars
  <2> SUFFICES ASSUME IInv, Next, NEW s \in subs', s \notin subs PROVE Asked(s)
    OBVIOUS
  <2>1. ASSUME NEW r \in Reqs, Attach(r) PROVE Asked(s)
    <3> DEFINE f == req[r].feed
    <3>1. /\ s = <<req[r].user, f.id>> /\ rows[f.id] # None
          /\ Go(r, "attach", "idle", f)
      BY <2>1 DEF Attach, Move
    <3>2. /\ req[r].at = "attach" /\ req'[r] = NoReq /\ req[r] \in Request
      BY <3>1 DEF Go, IInv, TInv
    <3>3. f \in Copies /\ f.id \in IDs
      BY <3>2 DEF Copies, Held, Holding, Request, Feed
    <3>4. Row(f.id) \in Copies /\ Row(f.id).id = f.id /\ Row(f.id).link = rows[f.id]
      BY <3>1, <3>3, StoredCopy DEF Row
    <3>5. rows[f.id] = f.link
      BY <3>3, <3>4 DEF IInv, Agree
    <3>6. f.link \in {req[r].asked} \cup Discovered[req[r].asked]
      BY <3>2 DEF IInv, AsAsked, Asking
    <3>7. s[1] = req[r].user /\ s[2] = f.id
      BY <3>1
    <3> QED BY <3>2, <3>5, <3>6, <3>7
  <2>2. ASSUME NEW r \in Reqs, ReqStep(r) PROVE Attach(r) \/ subs' \subseteq subs
    BY <2>2 DEF ReqStep, AskAdd, AskDelete, Lookup, Find, Search, Create, Insert, Detach,
                UsersLeft, Fail, LoopAdd, LoopRemove, store
  <2>3. CASE LoopStep
    BY <2>3 DEF LoopStep, LoopUsers, LoopDelete, LoopFails, store
  <2>4. CASE Restart \/ (\E f \in starting : Schedule(f)) \/ (\E i \in IDs : Poll(i))
    BY <2>4 DEF Restart, Schedule, Poll, Insert, store
  <2> QED BY <2>1, <2>2, <2>3, <2>4 DEF Next
<1> QED BY <1>1, FeedsAgree, PTL DEF Spec, AttachedAsAsked

-----------------------------------------------------------------------------
(* Whatever requests overlap: the subscriptions of the feed that the loop  *)
(* is about to delete were all made after it asked for them.               *)
Late ==
  /\ DOMAIN req = Reqs /\ DOMAIN loop = {"at", "feed"}
  /\ \A r \in Reqs : /\ DOMAIN req[r] = {"at", "user", "asked", "feed"}
                     /\ req[r].at # "idle" => req[r].user \in Users
  /\ \A s \in subs : s = <<s[1], s[2]>> /\ s[1] \in Users
  /\ loop.at = "delete" => \A s \in subs : s[2] = loop.feed.id => s \in late

(* At first there is no request. *)
LEMMA InitLate == Init => Late
BY DEF Init, Late, Idle, NoReq

(* A request that moves on.                                                *)
LEMMA LateGoes ==
  ASSUME Late, NEW r \in Reqs, NEW from, from # "idle", NEW to, NEW f, Go(r, from, to, f)
  PROVE  /\ DOMAIN req' = Reqs
         /\ \A q \in Reqs : /\ DOMAIN req'[q] = {"at", "user", "asked", "feed"}
                            /\ req'[q].at # "idle" => req'[q].user \in Users
         /\ req[r].user \in Users
BY DEF Late, Go, NoReq

(* ... while the loop stays and nobody subscribes.                         *)
LEMMA LateMoves ==
  ASSUME Late, NEW r \in Reqs, NEW from, from # "idle", NEW to, NEW f, Go(r, from, to, f),
         UNCHANGED <<loop, late>>, subs' \subseteq subs
  PROVE  Late'
<1>1. /\ DOMAIN req' = Reqs
      /\ \A q \in Reqs : /\ DOMAIN req'[q] = {"at", "user", "asked", "feed"}
                         /\ req'[q].at # "idle" => req'[q].user \in Users
  BY LateGoes
<1> QED BY <1>1 DEF Late

(* A request that begins.                                                  *)
LEMMA LateBegins ==
  ASSUME Late, NEW r \in Reqs, NEW new, req' = [req EXCEPT ![r] = new],
         UNCHANGED <<subs, loop, late>>,
         DOMAIN new = {"at", "user", "asked", "feed"}, new.user \in Users
  PROVE  Late'
BY DEF Late

(* Every step of a request. *)
LEMMA RequestLate == ASSUME Late, NEW r \in Reqs, ReqStep(r) PROVE Late'
<1>1. ASSUME NEW u \in Users, NEW l \in Links, AskAdd(r, u, l) PROVE Late'
  <2>1. PICK c \in Clients :
          req' = [req EXCEPT ![r] = [at |-> IF c = "api" THEN "find" ELSE "lookup",
                                     user |-> u, asked |-> l, feed |-> NoFeed]]
    BY <1>1 DEF AskAdd
  <2> DEFINE new == [at |-> IF c = "api" THEN "find" ELSE "lookup",
                     user |-> u, asked |-> l, feed |-> NoFeed]
  <2>2. DOMAIN new = {"at", "user", "asked", "feed"} /\ new.user = u
        /\ req' = [req EXCEPT ![r] = new] /\ UNCHANGED <<subs, loop, late>>
    BY <1>1, <2>1 DEF AskAdd, store, memory
  <2> HIDE DEF new
  <2> QED BY <2>2, LateBegins
<1>2. ASSUME NEW u \in Users, NEW i \in IDs, AskDelete(r, u, i) PROVE Late'
  <2> DEFINE new == [at |-> "detach", user |-> u, asked |-> None, feed |-> Row(i)]
  <2>1. DOMAIN new = {"at", "user", "asked", "feed"} /\ new.user = u
        /\ req' = [req EXCEPT ![r] = new] /\ UNCHANGED <<subs, loop, late>>
    BY <1>2 DEF AskDelete, store, memory
  <2> HIDE DEF new
  <2> QED BY <2>1, LateBegins
<1>3. CASE Attach(r)
  <2> DEFINE s == <<req[r].user, req[r].feed.id>>
  <2>1. /\ Go(r, "attach", "idle", req[r].feed) /\ loop' = loop
        /\ subs' = subs \cup {s}
        /\ late' = IF loop.at = "delete" /\ loop.feed.id = s[2] THEN late \cup {s} ELSE late
    BY <1>3 DEF Attach, Move
  <2>2. /\ DOMAIN req' = Reqs /\ req[r].user \in Users
        /\ \A q \in Reqs : /\ DOMAIN req'[q] = {"at", "user", "asked", "feed"}
                           /\ req'[q].at # "idle" => req'[q].user \in Users
    BY <2>1, LateGoes
  <2>3. s = <<s[1], s[2]>> /\ s[1] \in Users
    BY <2>2
  <2> HIDE DEF s
  <2> QED BY <2>1, <2>2, <2>3 DEF Late
<1>4. ASSUME NEW from, from # "idle", NEW to, NEW f, Go(r, from, to, f),
             UNCHANGED <<loop, late>>, subs' \subseteq subs
      PROVE  Late'
  BY <1>4, LateMoves
<1>5. CASE Lookup(r) \/ Find(r) \/ Search(r) \/ Create(r) \/ Detach(r) \/ UsersLeft(r)
           \/ Fail(r) \/ LoopAdd(r)
  <2>1. UNCHANGED <<loop, late>> /\ subs' \subseteq subs
    BY <1>5 DEF Lookup, Find, Search, Create, Insert, Detach, UsersLeft, Fail, LoopAdd,
                store, memory
  <2>2. \E from \in Steps \ {"idle"} : \E to, f : Go(r, from, to, f)
    <3>1. \A from \in Steps \ {"idle"} : \A to :
            Move(r, from, to) => \E f : Go(r, from, to, f)
      BY DEF Move
    <3>2. CASE Search(r) \/ Create(r)
      BY <3>2 DEF Search, Create, Steps
    <3>3. CASE Lookup(r) \/ Find(r)
      BY <3>1, <3>3 DEF Lookup, Find, Steps
    <3>4. CASE Detach(r)
      BY <3>1, <3>4 DEF Detach, Steps
    <3>5. CASE UsersLeft(r) \/ LoopAdd(r)
      BY <3>1, <3>5 DEF UsersLeft, LoopAdd, Steps
    <3>6. CASE Fail(r)
      BY <3>1, <3>6 DEF Fail, Steps
    <3> QED BY <1>5, <3>2, <3>3, <3>4, <3>5, <3>6
  <2> QED BY <1>4, <2>1, <2>2
<1>6. CASE LoopRemove(r)
  <2>1. /\ Go(r, "remove", "idle", req[r].feed) /\ subs' = subs
        /\ loop' = [at |-> "users", feed |-> req[r].feed]
    BY <1>6 DEF LoopRemove, Move, store
  <2>2. /\ DOMAIN req' = Reqs
        /\ \A q \in Reqs : /\ DOMAIN req'[q] = {"at", "user", "asked", "feed"}
                           /\ req'[q].at # "idle" => req'[q].user \in Users
    BY <2>1, LateGoes
  <2>3. DOMAIN loop' = {"at", "feed"} /\ loop'.at = "users"
    BY <2>1
  <2> QED BY <2>1, <2>2, <2>3 DEF Late
<1> QED BY <1>1, <1>2, <1>3, <1>5, <1>6 DEF ReqStep

(* Every step. *)
LEMMA NextLate == Late /\ [Next]_vars => Late'
<1> SUFFICES ASSUME Late, [Next]_vars PROVE Late'
  OBVIOUS
<1>1. ASSUME UNCHANGED <<subs, req, loop, late>> PROVE Late'
  BY <1>1 DEF Late
<1>2. CASE LoopStep
  <2>1. req' = req /\ subs' \subseteq subs /\ DOMAIN loop' = {"at", "feed"}
    BY <1>2 DEF LoopStep, LoopUsers, LoopDelete, LoopFails, Late, Idle, store
  <2>2. (loop.at = "delete" => \A s \in subs : s[2] = loop.feed.id => s \in late)'
    <3>1. CASE LoopUsers
      <4>1. CASE UsersOf(loop.feed.id) = {}
        <5>1. \A s \in subs : s[2] # loop.feed.id
          BY <4>1 DEF Late, UsersOf
        <5>2. subs' = subs /\ loop'.feed = loop.feed
          BY <3>1, <4>1 DEF LoopUsers, Late, store
        <5> QED BY <5>1, <5>2
      <4>2. CASE UsersOf(loop.feed.id) # {}
        BY <3>1, <4>2 DEF LoopUsers, Idle
      <4> QED BY <4>1, <4>2
    <3>2. CASE LoopDelete \/ LoopFails
      BY <3>2 DEF LoopDelete, LoopFails, Idle
    <3> QED BY <1>2, <3>1, <3>2 DEF LoopStep
  <2> QED BY <2>1, <2>2 DEF Late
<1>3. CASE Restart
  <2>1. /\ req' = [r \in Reqs |-> NoReq] /\ loop' = Idle /\ subs' = subs
    BY <1>3 DEF Restart, store
  <2> QED BY <2>1 DEF Late, NoReq, Idle
<1>4. CASE (\E f \in starting : Schedule(f)) \/ (\E i \in IDs : Poll(i)) \/ UNCHANGED vars
  BY <1>1, <1>4 DEF Schedule, Poll, Insert, vars, store, memory
<1> QED BY <1>2, <1>3, <1>4, RequestLate DEF Next

(* Whatever requests overlap and whatever the database: a subscription     *)
(* ends by its user's own request, or with its feed when it was made after *)
(* the loop had found the feed without users (feed_manager.go:221-231).    *)
THEOREM OnlyUnsubscribed == Spec => SubscriptionStays
<1> DEFINE Own(s) == \E r \in Reqs : /\ req[r].at = "detach"
                                     /\ <<req[r].user, req[r].feed.id>> = s
           Lost(s) == loop.at = "delete" /\ loop.feed.id = s[2] /\ s \in late
           Stays == \A s \in subs \ subs' : Own(s) \/ Lost(s)
<1>1. Late /\ [Next]_vars => [Stays]_vars
  <2> SUFFICES ASSUME Late, Next, NEW s \in subs, s \notin subs' PROVE Own(s) \/ Lost(s)
    OBVIOUS
  <2>1. ASSUME NEW r \in Reqs, Detach(r) PROVE Own(s)
    BY <2>1 DEF Detach, Move, Go
  <2>2. ASSUME NEW r \in Reqs, ReqStep(r) PROVE Detach(r) \/ subs \subseteq subs'
    BY <2>2 DEF ReqStep, AskAdd, AskDelete, Lookup, Find, Search, Create, Insert, Attach,
                UsersLeft, Fail, LoopAdd, LoopRemove, store
  <2>3. CASE LoopStep
    <3>1. loop.at = "delete" /\ s[2] = loop.feed.id
      BY <2>3 DEF LoopStep, LoopUsers, LoopDelete, LoopFails, store
    <3> QED BY <3>1 DEF Late
  <2>4. CASE Restart \/ (\E f \in starting : Schedule(f)) \/ (\E i \in IDs : Poll(i))
    BY <2>4 DEF Restart, Schedule, Poll, Insert, store
  <2> QED BY <2>1, <2>2, <2>3, <2>4 DEF Next
<1>2. Late /\ [Next]_vars => Late'
  BY NextLate
<1>3. [][Stays]_vars => SubscriptionStays
  <2>1. Stays => \A s \in subs \ subs' :
          \/ \E r \in Reqs : /\ req[r].at = "detach"
                             /\ <<req[r].user, req[r].feed.id>> = s
          \/ loop.at = "delete" /\ loop.feed.id = s[2] /\ s \in late
    OBVIOUS
  <2> QED BY <2>1, PTL DEF SubscriptionStays
<1> QED BY InitLate, <1>1, <1>2, <1>3, PTL DEF Spec

-----------------------------------------------------------------------------
(* The hubs.  From the rows that a start finds to the list of the keeper a *)
(* feed is in one place at most, and as long as it is in one its row is    *)
(* there, which stops a second Subscribe, or it was deleted, and its ID    *)
(* comes from a sequence and does not come back.                           *)
Hubs == INSTANCE Hubbub

(* A set of numbers has a least element. *)
LEMMA Least ==
  ASSUME NEW T, T \subseteq Nat, T # {}
  PROVE  \E x \in T : \A y \in T : x <= y
<1> DEFINE R == {ss \in Nat \X Nat : ss[1] < ss[2]}
<1>1. IsWellFoundedOn(R, Nat)
  BY NatLessThanWellFounded DEF OpToRel
<1>2. \A m, n \in Nat : <<m, n>> \notin R => n <= m
  OBVIOUS
<1> HIDE DEF R
<1>3. PICK x \in T : \A y \in T : <<y, x>> \notin R
  BY <1>1, WFMin
<1> QED
  BY <1>2, <1>3

(* What holds of zero and of every successor holds of every number. *)
LEMMA SetInduction ==
  ASSUME NEW S, 0 \in S, \A n \in Nat : n \in S => n + 1 \in S
  PROVE  Nat \subseteq S
<1> SUFFICES ASSUME Nat \ S # {} PROVE FALSE
  OBVIOUS
<1>1. PICK x \in Nat \ S : \A y \in Nat \ S : x <= y
  BY Least
<1>2. x # 0
  BY <1>1
<1>3. x - 1 \in Nat
  BY <1>1, <1>2
<1>4. x - 1 \in S
  BY <1>1, <1>3
<1> QED
  BY <1>1, <1>3, <1>4

(* f is what the loop of Without computes up to n.                         *)
Filtering(f, list, x, n) ==
  f = [m \in 0 .. n |-> IF m = 0 THEN <<>>
                        ELSE IF list[m] = x THEN f[m - 1]
                        ELSE Append(f[m - 1], list[m])]

(* The first n elements of list without those equal to x                    *)
IsPart(s, list, n) ==
  \E g \in [DOMAIN s -> 1 .. n] :
    /\ \A i, j \in DOMAIN s : g[i] = g[j] => i = j
    /\ \A i \in DOMAIN s : s[i] = list[g[i]]


(* There is the function that Without takes its answer from. *)
LEMMA FilteringExists ==
  ASSUME NEW list, NEW x, NEW n \in Nat
  PROVE  \E f : Filtering(f, list, x, n)
<1> DEFINE Done == {m \in Nat : \E f : Filtering(f, list, x, m)}
<1>1. 0 \in Done
  <2> DEFINE f == [m \in 0 .. 0 |-> <<>>]
  <2>1. Filtering(f, list, x, 0)
    BY DEF Filtering
  <2> HIDE DEF f
  <2> QED
    BY <2>1
<1>2. ASSUME NEW m \in Nat, m \in Done PROVE m + 1 \in Done
  <2>1. PICK f : Filtering(f, list, x, m)
    BY <1>2
  <2> DEFINE s == IF list[m + 1] = x THEN f[m] ELSE Append(f[m], list[m + 1])
             h == [k \in 0 .. m + 1 |-> IF k = m + 1 THEN s ELSE f[k]]
  <2>2. \A k \in 0 .. m : f[k] = (IF k = 0 THEN <<>>
                                  ELSE IF list[k] = x THEN f[k - 1]
                                  ELSE Append(f[k - 1], list[k]))
    BY <2>1 DEF Filtering
  <2>3. /\ h[m + 1] = (IF list[m + 1] = x THEN h[m] ELSE Append(h[m], list[m + 1]))
        /\ \A k \in 0 .. m : h[k] = f[k]
        /\ h = [k \in 0 .. m + 1 |-> h[k]]
    OBVIOUS
  <2> HIDE DEF s, h
  <2>4. \A k \in 0 .. m + 1 : h[k] = (IF k = 0 THEN <<>>
                                      ELSE IF list[k] = x THEN h[k - 1]
                                      ELSE Append(h[k - 1], list[k]))
    <3>1. ASSUME NEW k \in 0 .. m
          PROVE  h[k] = (IF k = 0 THEN <<>>
                         ELSE IF list[k] = x THEN h[k - 1]
                         ELSE Append(h[k - 1], list[k]))
      <4>1. k # 0 => k - 1 \in 0 .. m
        OBVIOUS
      <4>2. k # 0 => h[k - 1] = f[k - 1]
        BY <4>1, <2>3
      <4> QED
        BY <4>2, <2>2, <2>3
    <3>2. m + 1 # 0 /\ m + 1 - 1 = m /\ \A k \in 0 .. m + 1 : k \in 0 .. m \/ k = m + 1
      OBVIOUS
    <3> QED
      BY <3>1, <3>2, <2>3
  <2>5. Filtering(h, list, x, m + 1)
    BY <2>3, <2>4 DEF Filtering
  <2> QED
    BY <2>5
<1> HIDE DEF Done
<1>3. n \in Done
  BY <1>1, <1>2, SetInduction
<1> QED
  BY <1>3 DEF Done

(* A list without some of its elements is a part of it, in its order. *)
LEMMA WithoutFacts ==
  ASSUME NEW S, NEW list \in Seq(S), NEW x
  PROVE  /\ Hubs!Without(list, x) \in Seq(S)
         /\ IsPart(Hubs!Without(list, x), list, Len(list))
<1> DEFINE f == CHOOSE f : Filtering(f, list, x, Len(list))
<1>1. Filtering(f, list, x, Len(list))
  BY FilteringExists
<1>2. Hubs!Without(list, x) = f[Len(list)]
  BY DEF Hubs!Without, Filtering
<1> HIDE DEF f
<1>6. \A k \in 0 .. Len(list) : f[k] = (IF k = 0 THEN <<>>
                                       ELSE IF list[k] = x THEN f[k - 1]
                                       ELSE Append(f[k - 1], list[k]))
  BY <1>1 DEF Filtering
<1> DEFINE Done == {m \in Nat : m <= Len(list) => f[m] \in Seq(S) /\ IsPart(f[m], list, m)}
<1>3. 0 \in Done
  <2>1. f[0] = <<>> /\ <<>> \in Seq(S)
    BY <1>1 DEF Filtering
  <2>2. DOMAIN <<>> = {}
    OBVIOUS
  <2>3. [i \in {} |-> 1] \in [DOMAIN <<>> -> 1 .. 0]
    BY <2>2
  <2>4. IsPart(<<>>, list, 0)
    BY <2>2, <2>3 DEF IsPart
  <2> QED
    BY <2>1, <2>4
<1>4. ASSUME NEW m \in Nat, m \in Done PROVE m + 1 \in Done
  <2> SUFFICES ASSUME m + 1 <= Len(list)
               PROVE  f[m + 1] \in Seq(S) /\ IsPart(f[m + 1], list, m + 1)
    OBVIOUS
  <2> DEFINE q == f[m]
             s == f[m + 1]
  <2>1. q \in Seq(S) /\ IsPart(q, list, m)
    BY <1>4
  <2>2. list[m + 1] \in S
    OBVIOUS
  <2>3. s = (IF list[m + 1] = x THEN q ELSE Append(q, list[m + 1]))
    <3>1. m + 1 \in 0 .. Len(list) /\ m + 1 # 0 /\ m + 1 - 1 = m
      OBVIOUS
    <3> QED
      BY <1>6, <3>1
  <2> HIDE DEF q, s
  <2>4. s \in Seq(S)
    BY <2>1, <2>2, <2>3
  <2>5. PICK g \in [DOMAIN q -> 1 .. m] :
          /\ \A i, j \in DOMAIN q : g[i] = g[j] => i = j
          /\ \A i \in DOMAIN q : q[i] = list[g[i]]
    BY <2>1 DEF IsPart
  <2>6. CASE list[m + 1] = x
    <3>1. g \in [DOMAIN s -> 1 .. m + 1]
      BY <2>3, <2>5, <2>6
    <3>2. IsPart(s, list, m + 1)
      BY <2>3, <2>5, <2>6, <3>1 DEF IsPart
    <3> QED
      BY <2>4, <3>2 DEF s
  <2>7. CASE list[m + 1] # x
    <3> DEFINE e == [i \in DOMAIN s |-> IF i \in DOMAIN q THEN g[i] ELSE m + 1]
    <3>1. DOMAIN s = 1 .. Len(q) + 1 /\ DOMAIN q = 1 .. Len(q) /\ Len(q) \in Nat
      BY <2>1, <2>2, <2>3, <2>7
    <3>2. e \in [DOMAIN s -> 1 .. m + 1]
      BY <2>5, <3>1
    <3>3. \A i, j \in DOMAIN s : e[i] = e[j] => i = j
      BY <2>5, <3>1
    <3>4. \A i \in DOMAIN s : s[i] = list[e[i]]
      BY <2>1, <2>2, <2>3, <2>5, <2>7, <3>1
    <3>5. IsPart(s, list, m + 1)
      BY <3>2, <3>3, <3>4 DEF IsPart
    <3> QED
      BY <2>4, <3>5 DEF s
  <2> QED
    BY <2>6, <2>7
<1> HIDE DEF Done
<1>5. Len(list) \in Done
  BY <1>3, <1>4, SetInduction
<1> QED
  BY <1>2, <1>5 DEF Done

Modes == {"subscribe", "unsubscribe"}
Remembered == [feed : Feeds, copy : {"none", "failed", "verified"}]
Jobs == [at : {"post", "hand"}, mode : Modes, feed : Feeds, copy : {"none", "failed", "verified"}]

HTypeInv ==
  /\ driver \in {"postgres", "sqlite3"}
  /\ feeds \subseteq Feeds
  /\ row \in [Feeds -> {"none", "failed", "verified"}]
  /\ deleted \subseteq Feeds
  /\ task \in [Hubs!Workers -> {Hubs!Free} \cup Jobs]
  /\ left \subseteq Remembered
  /\ listed \in Seq(Remembered)

(* t is subscribing to f. *)
Posts(t, f) == task[t] # Hubs!Free /\ task[t].mode = "subscribe" /\ task[t].feed = f
Awaits(f) == \E s \in left : s.feed = f
Lists(f) == \E n \in DOMAIN listed : listed[n].feed = f

OnePlace(f) ==
  /\ \A t, v \in Hubs!Workers : Posts(t, f) /\ Posts(v, f) => t = v
  /\ \A s, r \in left : s.feed = f /\ r.feed = f => s = r
  /\ \A m, n \in DOMAIN listed : listed[m].feed = f /\ listed[n].feed = f => m = n
  /\ (\E t \in Hubs!Workers : Posts(t, f)) => ~Awaits(f) /\ ~Lists(f)
  /\ Awaits(f) => ~Lists(f)

(* Whoever is asked for has a row, or its row has gone. *)
HasRow(f) ==
  (\E t \in Hubs!Workers : Posts(t, f)) \/ Awaits(f) \/ Lists(f) => row[f] # "none" \/ f \in deleted

(* The ID of a feed that has gone is not given to another. *)
NotAgain == driver = "postgres" => feeds \cap deleted = {}

(* The ID f has had but one feed since the start. *)
Once(f) == driver = "postgres" \/ f \notin deleted

HInv == HTypeInv /\ NotAgain /\ \A f \in Feeds : Once(f) => OnePlace(f) /\ HasRow(f)

(* What a list of subscriptions holds. *)
LEMMA ListedFacts ==
  ASSUME NEW q \in Seq(Remembered)
  PROVE  /\ DOMAIN q = 1 .. Len(q) /\ Len(q) \in Nat
         /\ \A n \in DOMAIN q : q[n] \in Remembered
OBVIOUS

(* A list is a part of itself. *)
LEMMA SamePart == ASSUME NEW q \in Seq(Remembered) PROVE IsPart(q, q, Len(q))
<1> DEFINE g == [i \in DOMAIN q |-> i]
<1>1. g \in [DOMAIN q -> 1 .. Len(q)]
  BY ListedFacts
<1> QED
  BY <1>1 DEF IsPart

(* Nothing is asked for that was not asked for before. *)
LEMMA Fewer ==
  ASSUME HTypeInv, NEW g \in Feeds, OnePlace(g), HasRow(g),
         \A t \in Hubs!Workers : Posts(t, g)' => Posts(t, g),
         left' \subseteq left,
         IsPart(listed', listed, Len(listed)),
         row[g] # "none" \/ g \in deleted => (row[g] # "none" \/ g \in deleted)'
  PROVE  OnePlace(g)' /\ HasRow(g)'
<1>1. PICK e \in [DOMAIN listed' -> DOMAIN listed] :
        /\ \A i, j \in DOMAIN listed' : e[i] = e[j] => i = j
        /\ \A i \in DOMAIN listed' : listed'[i] = listed[e[i]]
  BY ListedFacts DEF IsPart, HTypeInv
<1>2. Lists(g)' => Lists(g)
  BY <1>1 DEF Lists
<1>3. Awaits(g)' => Awaits(g)
  BY DEF Awaits
<1>4. \A m, n \in DOMAIN listed' : listed'[m].feed = g /\ listed'[n].feed = g => m = n
  <2> SUFFICES ASSUME NEW m \in DOMAIN listed', NEW n \in DOMAIN listed',
                      listed'[m].feed = g, listed'[n].feed = g
               PROVE  m = n
    OBVIOUS
  <2>1. listed[e[m]].feed = g /\ listed[e[n]].feed = g
    BY <1>1
  <2>2. e[m] \in DOMAIN listed /\ e[n] \in DOMAIN listed
    BY <1>1
  <2>3. e[m] = e[n]
    BY <2>1, <2>2 DEF OnePlace
  <2> QED
    BY <1>1, <2>3
<1>5. OnePlace(g)'
  <2>1. \A s, r \in left' : s.feed = g /\ r.feed = g => s = r
    BY DEF OnePlace
  <2>2. \A t, v \in Hubs!Workers : (Posts(t, g) /\ Posts(v, g))' => t = v
    BY DEF OnePlace
  <2>3. (\E t \in Hubs!Workers : Posts(t, g))' => (~Awaits(g) /\ ~Lists(g))'
    BY <1>2, <1>3 DEF OnePlace
  <2>4. Awaits(g)' => ~Lists(g)'
    BY <1>2, <1>3 DEF OnePlace
  <2> QED
    BY <1>4, <2>1, <2>2, <2>3, <2>4 DEF OnePlace
<1>6. HasRow(g)'
  BY <1>2, <1>3 DEF HasRow
<1> QED
  BY <1>5, <1>6

(* At first a feed is among the rows that the start will go through, or nowhere. *)
LEMMA InitHInv == Hubs!Init => HInv
<1> SUFFICES ASSUME Hubs!Init PROVE HInv
  OBVIOUS
<1>1. HTypeInv
  BY DEF Hubs!Init, HTypeInv, Remembered, Hubs!Feeds, Feeds
<1>2. ASSUME NEW f \in Feeds PROVE OnePlace(f) /\ HasRow(f)
  <2>1. (\A t \in Hubs!Workers : ~Posts(t, f)) /\ ~Lists(f)
    BY DEF Hubs!Init, Posts, Lists
  <2>2. \A s \in left : s.feed = f => s = [feed |-> f, copy |-> row[f]] /\ row[f] # "none"
    BY DEF Hubs!Init
  <2>3. OnePlace(f)
    BY <2>1, <2>2 DEF OnePlace, Hubs!Init
  <2> QED
    BY <2>1, <2>2, <2>3 DEF HasRow, Awaits
<1>3. NotAgain
  BY DEF Hubs!Init, NotAgain
<1> QED
  BY <1>1, <1>2, <1>3 DEF HInv

(* What a job says. *)
LEMMA JobFacts ==
  ASSUME NEW at, NEW mode, NEW f, NEW c
  PROVE  /\ Hubs!Job(at, mode, f, c) # Hubs!Free
         /\ Hubs!Job(at, mode, f, c).mode = mode
         /\ Hubs!Job(at, mode, f, c).feed = f
         /\ Hubs!Job(at, mode, f, c).at = at
         /\ Hubs!Job(at, mode, f, c).copy = c
BY DEF Hubs!Job, Hubs!Free

(* An ID that has had but one feed had but one before. *)
LEMMA OnceBefore ==
  ASSUME driver' = driver, deleted \subseteq deleted', NEW f, Once(f)'
  PROVE  Once(f)
BY DEF Once

(* A feed without a row is asked for. *)
LEMMA NextSubscribe ==
  ASSUME HInv, NEW t \in Tasks, NEW f \in Feeds, Hubs!Subscribe(t, f)
  PROVE  HInv'
<1> DEFINE j == Hubs!Job("post", "subscribe", f, "failed")
<1>1. HTypeInv
  BY DEF HInv
<1>2. t \in Hubs!Workers /\ task[t] = Hubs!Free /\ task' = [task EXCEPT ![t] = j]
  BY DEF Hubs!Subscribe, Hubs!Give, Hubs!Workers
<1>3. j \in Jobs
  BY DEF Hubs!Job, Jobs, Modes
<1>4. HTypeInv'
  BY <1>1, <1>2, <1>3 DEF HTypeInv, Hubs!Subscribe
<1>5. task'[t] = j /\ \A v \in Hubs!Workers \ {t} : task'[v] = task[v]
  BY <1>1, <1>2 DEF HTypeInv
<1>6. Once(f) => /\ ~Lists(f) /\ ~Awaits(f) /\ \A v \in Hubs!Workers : ~Posts(v, f)
                 /\ f \in feeds
  BY DEF HInv, HasRow, Hubs!Subscribe, Once, NotAgain
<1>7. ASSUME NEW g \in Feeds \ {f}, Once(g) PROVE OnePlace(g)' /\ HasRow(g)'
  <2>1. \A v \in Hubs!Workers : Posts(v, g)' => Posts(v, g)
    BY <1>5, JobFacts DEF Posts
  <2>2. IsPart(listed', listed, Len(listed))
    BY <1>1, SamePart DEF HTypeInv, Hubs!Subscribe
  <2>3. row'[g] = row[g] /\ deleted' = deleted
    BY <1>1 DEF HTypeInv, Hubs!Subscribe
  <2> QED
    BY <1>1, <1>7, <2>1, <2>2, <2>3, Fewer DEF HInv, Hubs!Subscribe
<1>8. ASSUME Once(f) PROVE OnePlace(f)' /\ HasRow(f)'
  <2>1. \A v \in Hubs!Workers : Posts(v, f)' => v = t
    BY <1>5, <1>6, <1>8 DEF Posts
  <2>2. left' = left /\ listed' = listed
    BY DEF Hubs!Subscribe
  <2>3. ~Lists(f)' /\ ~Awaits(f)'
    BY <1>6, <1>8, <2>2 DEF Lists, Awaits
  <2>4. OnePlace(f)'
    BY <2>1, <2>3 DEF OnePlace, Lists, Awaits
  <2>5. row'[f] # "none"
    BY <1>1, <1>6, <1>8 DEF HTypeInv, Hubs!Subscribe
  <2> QED
    BY <2>4, <2>5 DEF HasRow
<1>9. NotAgain' /\ \A g \in Feeds : Once(g)' => Once(g)
  BY OnceBefore DEF HInv, NotAgain, Hubs!Subscribe
<1> QED
  BY <1>4, <1>7, <1>8, <1>9 DEF HInv

(* Steps that ask for nothing and do not touch the list. *)
LEMMA NextFewer ==
  ASSUME HInv, HTypeInv', UNCHANGED <<driver, listed>>, left' \subseteq left,
         deleted \subseteq deleted', NotAgain',
         \A f \in Feeds : \A v \in Hubs!Workers : Posts(v, f)' => Posts(v, f),
         \A f \in Feeds : row[f] # "none" \/ f \in deleted => (row[f] # "none" \/ f \in deleted)'
  PROVE  HInv'
<1>1. IsPart(listed', listed, Len(listed))
  BY SamePart DEF HInv, HTypeInv
<1>2. ASSUME NEW g \in Feeds, Once(g)' PROVE OnePlace(g)' /\ HasRow(g)'
  BY <1>1, <1>2, OnceBefore, Fewer DEF HInv
<1> QED
  BY <1>2 DEF HInv

(* ... nor the table. *)
LEMMA SameTable ==
  ASSUME HInv, HTypeInv', UNCHANGED listed, left' \subseteq left, UNCHANGED Hubs!table,
         \A f \in Feeds : \A v \in Hubs!Workers : Posts(v, f)' => Posts(v, f)
  PROVE  HInv'
<1>1. UNCHANGED <<driver, feeds, deleted, row>>
  BY DEF Hubs!table
<1>2. NotAgain'
  BY <1>1 DEF HInv, NotAgain
<1> QED
  BY <1>1, <1>2, NextFewer

(* A subscription is given up. *)
LEMMA NextUnsubscribe ==
  ASSUME HInv, NEW t \in Tasks, NEW f \in Feeds, Hubs!Unsubscribe(t, f)
  PROVE  HInv'
<1> DEFINE j == Hubs!Job("post", "unsubscribe", f, row[f])
<1>1. HTypeInv
  BY DEF HInv
<1>2. t \in Hubs!Workers /\ task' = [task EXCEPT ![t] = j]
  BY DEF Hubs!Unsubscribe, Hubs!Give, Hubs!Workers
<1>3. j \in Jobs
  BY <1>1 DEF Hubs!Job, Jobs, Modes, HTypeInv
<1>4. HTypeInv'
  BY <1>1, <1>2, <1>3 DEF HTypeInv, Hubs!Unsubscribe, Hubs!table
<1>5. task'[t] = j /\ \A v \in Hubs!Workers \ {t} : task'[v] = task[v]
  BY <1>1, <1>2 DEF HTypeInv
<1>6. \A g \in Feeds, v \in Hubs!Workers : Posts(v, g)' => Posts(v, g)
  BY <1>5, JobFacts DEF Posts
<1> QED
  BY <1>4, <1>6, SameTable DEF Hubs!Unsubscribe

(* A feed is deleted with its row. *)
LEMMA NextDelete ==
  ASSUME HInv, NEW f \in Feeds, Hubs!Delete(f)
  PROVE  HInv'
<1>1. HTypeInv'
  BY DEF HInv, HTypeInv, Hubs!Delete
<1>2. \A g \in Feeds : row[g] # "none" \/ g \in deleted => (row[g] # "none" \/ g \in deleted)'
  BY DEF HInv, HTypeInv, Hubs!Delete
<1>3. NotAgain'
  BY DEF HInv, NotAgain, Hubs!Delete
<1> QED
  BY <1>1, <1>2, <1>3, NextFewer DEF Hubs!Delete, Posts

(* A feed is created, or put back. *)
LEMMA InsertFacts ==
  ASSUME HInv, NEW f \in Feeds, Hubs!Insert(f)
  PROVE  /\ UNCHANGED <<driver, deleted, row>> /\ feeds' \subseteq Feeds
         /\ NotAgain'
<1>1. feeds' = feeds \cup {f} /\ UNCHANGED <<driver, deleted, row>>
  BY DEF Hubs!Insert
<1>2. driver = "postgres" => f \notin deleted
  <2> SUFFICES ASSUME driver = "postgres", f \in deleted PROVE FALSE
    OBVIOUS
  <2>1. f < f
    BY DEF Hubs!Insert
  <2> QED BY <2>1 DEF Feeds
<1> QED
  BY <1>1, <1>2 DEF HInv, HTypeInv, NotAgain

LEMMA UpdateFacts ==
  ASSUME HInv, NEW f, Hubs!Update(f)
  PROVE  /\ UNCHANGED <<driver, deleted, row>> /\ feeds' \subseteq Feeds
         /\ NotAgain'
<1>1. CASE UNCHANGED Hubs!table
  BY <1>1 DEF Hubs!table, HInv, HTypeInv, NotAgain
<1>2. ASSUME NEW n \in Feeds, Hubs!Insert(n)
      PROVE  /\ UNCHANGED <<driver, deleted, row>> /\ feeds' \subseteq Feeds
             /\ NotAgain'
  BY <1>2, InsertFacts
<1> QED
  BY <1>1, <1>2 DEF Hubs!Update, Hubs!Feeds, Feeds

LEMMA NextCreate ==
  ASSUME HInv, NEW f \in Feeds, Hubs!Create(f)
  PROVE  HInv'
<1>1. UNCHANGED <<driver, deleted, row>> /\ feeds' \subseteq Feeds /\ NotAgain'
  BY InsertFacts DEF Hubs!Create
<1>2. HTypeInv'
  BY <1>1 DEF HInv, HTypeInv, Hubs!Create
<1> QED
  BY <1>1, <1>2, NextFewer DEF Hubs!Create, Posts

(* The start takes one of the rows it has found. *)
LEMMA NextStart ==
  ASSUME HInv, NEW s \in left, Hubs!StartNext(s)
  PROVE  HInv'
<1>1. HTypeInv /\ s \in Remembered /\ s.feed \in Feeds
  BY DEF HInv, HTypeInv, Remembered
<1>2. Starter \in Hubs!Workers /\ task[Starter] = Hubs!Free
  BY DEF Hubs!StartNext, Hubs!Workers
<1>3. CASE s.feed \notin feeds
  <2>1. HTypeInv'
    BY <1>1, <1>3 DEF HTypeInv, Hubs!StartNext, Hubs!table
  <2> QED
    BY <1>3, <2>1, SameTable DEF Hubs!StartNext, Posts
<1>4. CASE s.feed \in feeds
  <2> DEFINE j == Hubs!Job("post", "subscribe", s.feed, s.copy)
  <2>1. task' = [task EXCEPT ![Starter] = j]
    BY <1>4 DEF Hubs!StartNext, Hubs!Give
  <2>2. j \in Jobs
    BY <1>1 DEF Hubs!Job, Jobs, Modes, Remembered
  <2>3. HTypeInv'
    BY <1>1, <2>1, <2>2 DEF HTypeInv, Hubs!StartNext, Hubs!table
  <2>4. task'[Starter] = j /\ \A v \in Hubs!Workers \ {Starter} : task'[v] = task[v]
    BY <1>1, <1>2, <2>1 DEF HTypeInv
  <2>5. ASSUME NEW g \in Feeds \ {s.feed}, Once(g) PROVE OnePlace(g)' /\ HasRow(g)'
    <3>1. \A v \in Hubs!Workers : Posts(v, g)' => Posts(v, g)
      BY <2>4, JobFacts DEF Posts
    <3>2. IsPart(listed', listed, Len(listed))
      BY <1>1, SamePart DEF HTypeInv, Hubs!StartNext, Hubs!table
    <3> QED
      BY <1>1, <2>5, <3>1, <3>2, Fewer DEF HInv, Hubs!StartNext, Hubs!table
  <2>6. ASSUME Once(s.feed) PROVE OnePlace(s.feed)' /\ HasRow(s.feed)'
    <3>1. Awaits(s.feed) /\ OnePlace(s.feed) /\ HasRow(s.feed)
      BY <1>1, <2>6 DEF Awaits, HInv
    <3>2. ~Lists(s.feed) /\ \A v \in Hubs!Workers : ~Posts(v, s.feed)
      BY <3>1 DEF OnePlace
    <3>3. ~Lists(s.feed)'
      BY <3>2 DEF Lists, Hubs!StartNext
    <3>4. ~Awaits(s.feed)'
      BY <3>1 DEF Awaits, OnePlace, Hubs!StartNext
    <3>5. \A v \in Hubs!Workers : Posts(v, s.feed)' => v = Starter
      BY <2>4, <3>2 DEF Posts
    <3>6. OnePlace(s.feed)'
      BY <3>3, <3>4, <3>5 DEF OnePlace, Lists, Awaits
    <3>7. row' = row /\ deleted' = deleted
      BY DEF Hubs!StartNext, Hubs!table
    <3> QED
      BY <3>1, <3>6, <3>7 DEF HasRow
  <2>7. NotAgain' /\ \A g \in Feeds : Once(g)' => Once(g)
    BY OnceBefore DEF HInv, NotAgain, Hubs!StartNext, Hubs!table
  <2> QED
    BY <2>3, <2>5, <2>6, <2>7 DEF HInv
<1> QED
  BY <1>3, <1>4

(* The hub has answered a request. *)
LEMMA NextAnswered ==
  ASSUME HInv, NEW t \in Hubs!Workers, Hubs!Accepted(t) \/ Hubs!Refused(t)
  PROVE  HInv'
<1>1. HTypeInv
  BY DEF HInv
<1>2. task[t].at = "post"
  BY DEF Hubs!Accepted, Hubs!Refused
<1>3. task[t] \in Jobs
  BY <1>1, <1>2 DEF HTypeInv, Hubs!Free
<1>4. CASE Hubs!Accepted(t)
  <2>1. [task[t] EXCEPT !.at = "hand"] \in Jobs
    BY <1>3 DEF Jobs
  <2>2. task' = [task EXCEPT ![t] = [task[t] EXCEPT !.at = "hand"]]
    BY <1>4 DEF Hubs!Accepted
  <2>3. HTypeInv'
    BY <1>1, <1>4, <2>1, <2>2 DEF HTypeInv, Hubs!Accepted, Hubs!table
  <2>4. /\ task'[t] = [task[t] EXCEPT !.at = "hand"]
        /\ \A v \in Hubs!Workers \ {t} : task'[v] = task[v]
    BY <1>1, <2>2 DEF HTypeInv
  <2>5. task'[t].mode = task[t].mode /\ task'[t].feed = task[t].feed /\ task[t] # Hubs!Free
    BY <1>3, <2>4 DEF Jobs, Hubs!Free
  <2>6. \A g \in Feeds, v \in Hubs!Workers : Posts(v, g)' => Posts(v, g)
    BY <2>4, <2>5 DEF Posts
  <2> QED
    BY <1>4, <2>3, <2>6, SameTable DEF Hubs!Accepted
<1>5. CASE Hubs!Refused(t)
  <2>0. UNCHANGED <<driver, deleted, row>> /\ feeds' \subseteq Feeds /\ NotAgain'
    BY <1>5, UpdateFacts DEF Hubs!Refused
  <2>1. HTypeInv'
    BY <1>1, <1>5, <2>0 DEF HTypeInv, Hubs!Refused
  <2>2. task'[t] = Hubs!Free /\ \A v \in Hubs!Workers \ {t} : task'[v] = task[v]
    BY <1>1, <1>5 DEF HTypeInv, Hubs!Refused
  <2>3. \A g \in Feeds, v \in Hubs!Workers : Posts(v, g)' => Posts(v, g)
    BY <2>2 DEF Posts
  <2> QED
    BY <1>5, <2>0, <2>1, <2>3, NextFewer DEF Hubs!Refused
<1> QED
  BY <1>4, <1>5

(* The keeper adds a subscription to its list, or takes one off. *)
LEMMA NextHand ==
  ASSUME HInv, NEW t \in Hubs!Workers, Hubs!Hand(t)
  PROVE  HInv'
<1> DEFINE f == task[t].feed
           c == Hubs!Copy(task[t])
<1>1. HTypeInv
  BY DEF HInv
<1>2. task[t] \in Jobs
  BY <1>1 DEF HTypeInv, Hubs!Free, Hubs!Hand
<1>3. f \in Feeds /\ c \in Remembered /\ c.feed = f /\ task[t] # Hubs!Free
  BY <1>2 DEF Jobs, Hubs!Copy, Remembered, Hubs!Free
<1>4. task'[t] = Hubs!Free /\ \A v \in Hubs!Workers \ {t} : task'[v] = task[v]
  BY <1>1 DEF HTypeInv, Hubs!Hand, Hubs!table
<1>5. \A g \in Feeds, v \in Hubs!Workers : Posts(v, g)' => Posts(v, g) /\ v # t
  BY <1>4 DEF Posts
<1>6. task' \in [Hubs!Workers -> {Hubs!Free} \cup Jobs]
  BY <1>1 DEF HTypeInv, Hubs!Hand, Hubs!table
<1>9. NotAgain' /\ \A g \in Feeds : Once(g)' => Once(g)
  BY OnceBefore DEF HInv, NotAgain, Hubs!Hand, Hubs!table
<1>7. CASE task[t].mode = "subscribe"
  <2>1. listed' = Append(listed, c)
    BY <1>7 DEF Hubs!Hand
  <2>2. listed' \in Seq(Remembered)
    BY <1>1, <1>3, <2>1 DEF HTypeInv
  <2>3. HTypeInv'
    BY <1>1, <1>6, <2>2 DEF HTypeInv, Hubs!Hand, Hubs!table
  <2>4. /\ DOMAIN listed = 1 .. Len(listed) /\ Len(listed) \in Nat
        /\ DOMAIN listed' = 1 .. Len(listed) + 1
        /\ \A n \in DOMAIN listed : listed'[n] = listed[n]
        /\ listed'[Len(listed) + 1] = c
    BY <1>1, <1>3, <2>1 DEF HTypeInv
  <2>5. Posts(t, f)
    BY <1>3, <1>7 DEF Posts
  <2>6. Once(f) => ~Lists(f) /\ ~Awaits(f) /\ \A v \in Hubs!Workers : Posts(v, f) => v = t
    BY <1>3, <2>5 DEF HInv, OnePlace
  <2>7. ASSUME NEW g \in Feeds, Once(g) PROVE OnePlace(g)' /\ HasRow(g)'
    <3>0. OnePlace(g) /\ HasRow(g)
      BY <2>7 DEF HInv
    <3>1. CASE g = f
      <4>1. \A m \in DOMAIN listed' : listed'[m].feed = f => m = Len(listed) + 1
        BY <2>4, <2>6, <2>7, <3>1 DEF Lists
      <4>2. ~Awaits(g)' /\ \A v \in Hubs!Workers : ~Posts(v, g)'
        BY <1>5, <2>6, <2>7, <3>1 DEF Awaits, Hubs!Hand
      <4>3. OnePlace(g)'
        BY <3>1, <4>1, <4>2 DEF OnePlace, Awaits
      <4>4. row[f] # "none" \/ f \in deleted
        BY <2>5, <3>0, <3>1 DEF HasRow
      <4> QED
        BY <3>1, <4>3, <4>4 DEF HasRow, Hubs!Hand, Hubs!table
    <3>2. CASE g # f
      <4>1. \A m \in DOMAIN listed' : listed'[m].feed = g => m \in DOMAIN listed
        BY <1>3, <2>4, <3>2
      <4>2. Lists(g)' => Lists(g)
        BY <2>4, <4>1 DEF Lists
      <4>3. left' = left /\ row' = row /\ deleted' = deleted
        BY DEF Hubs!Hand, Hubs!table
      <4>4. Awaits(g)' <=> Awaits(g)
        BY <4>3 DEF Awaits
      <4>5. \A m, n \in DOMAIN listed' : listed'[m].feed = g /\ listed'[n].feed = g => m = n
        BY <2>4, <4>1, <3>0 DEF OnePlace
      <4>6. OnePlace(g)'
        BY <1>5, <3>0, <4>2, <4>3, <4>4, <4>5 DEF OnePlace
      <4>7. HasRow(g)'
        BY <1>5, <3>0, <4>2, <4>3, <4>4 DEF HasRow
      <4> QED
        BY <4>6, <4>7
    <3> QED
      BY <3>1, <3>2
  <2> QED
    BY <1>9, <2>3, <2>7 DEF HInv
<1>8. CASE task[t].mode # "subscribe"
  <2>1. listed' = Hubs!Without(listed, c)
    BY <1>8 DEF Hubs!Hand
  <2>2. listed' \in Seq(Remembered) /\ IsPart(listed', listed, Len(listed))
    BY <1>1, <2>1, WithoutFacts DEF HTypeInv
  <2>3. HTypeInv'
    BY <1>1, <1>6, <2>2 DEF HTypeInv, Hubs!Hand, Hubs!table
  <2>4. ASSUME NEW g \in Feeds, Once(g) PROVE OnePlace(g)' /\ HasRow(g)'
    BY <1>1, <1>5, <2>2, <2>4, Fewer DEF HInv, Hubs!Hand, Hubs!table
  <2> QED
    BY <1>9, <2>3, <2>4 DEF HInv
<1> QED
  BY <1>7, <1>8

(* A renewal that a hub refuses puts back a feed that has gone. *)
LEMMA NextRenewal ==
  ASSUME HInv, Hubs!RenewRefused
  PROVE  HInv'
<1>1. UNCHANGED <<driver, deleted, row>> /\ feeds' \subseteq Feeds /\ NotAgain'
  BY UpdateFacts DEF Hubs!RenewRefused
<1>2. HTypeInv'
  BY <1>1 DEF HInv, HTypeInv, Hubs!RenewRefused
<1> QED
  BY <1>1, <1>2, NextFewer DEF Hubs!RenewRefused, Posts

(* Every step. *)
LEMMA NextHInv == HInv /\ [Hubs!Next]_(Hubs!vars) => HInv'
<1> SUFFICES ASSUME HInv, [Hubs!Next]_(Hubs!vars) PROVE HInv'
  OBVIOUS
<1>1. ASSUME UNCHANGED <<Hubs!table, task, left, listed>> PROVE HInv'
  <2>1. HTypeInv'
    BY <1>1 DEF HInv, HTypeInv, Hubs!table
  <2> QED
    BY <1>1, <2>1, SameTable DEF Posts
<1>2. ASSUME NEW f \in Feeds, Hubs!CallBack(f) PROVE HInv'
  BY <1>1, <1>2 DEF Hubs!CallBack
<1>3. CASE Hubs!Fire \/ Hubs!PassOver \/ Hubs!Renew \/ Hubs!RenewAccepted \/ Hubs!RenewEnds
  BY <1>1, <1>3 DEF Hubs!Fire, Hubs!PassOver, Hubs!Renew, Hubs!RenewAccepted, Hubs!RenewEnds
<1>4. CASE UNCHANGED Hubs!vars
  BY <1>1, <1>4 DEF Hubs!vars
<1> QED
  BY <1>2, <1>3, <1>4, NextSubscribe, NextUnsubscribe, NextCreate, NextDelete, NextStart,
     NextAnswered, NextHand, NextRenewal
  DEF Hubs!Next, Hubs!TaskStep, Hubs!KeeperStep, Hubs!Feeds, Feeds

(* A feed is asked for at its hub once per start, whatever the manager     *)
(* subscribes, unsubscribes, creates and deletes meanwhile and whatever    *)
(* failing posts put back: with postgres every feed, with sqlite3 every    *)
(* feed whose ID no feed deleted since the start has had (hubbub.go:75-84, *)
(* 134-153, 231-236).                                                      *)
THEOREM AskedOnce == Hubs!Spec => []OneRequestPerFeed
<1>1. HInv => OneRequestPerFeed
  <2> SUFFICES ASSUME HInv, NEW f \in Feeds,
                      driver = "postgres" \/ f \notin deleted
               PROVE  \A p, q \in Places(f) : p = q
    BY DEF OneRequestPerFeed
  <2> DEFINE A == Subscribing(f)
             B == {s \in left : s.feed = f}
             C == {n \in DOMAIN listed : listed[n].feed = f}
  <2>1. OnePlace(f)
    BY DEF HInv, Once
  <2>2. \A x, y \in A : x = y
    BY <2>1 DEF OnePlace, Subscribing, Workers, Free, Hubs!Workers, Hubs!Free, Posts
  <2>3. \A x, y \in B : x = y
    BY <2>1 DEF OnePlace
  <2>4. \A x, y \in C : x = y
    BY <2>1 DEF OnePlace
  <2>5. (A # {} => B = {} /\ C = {}) /\ (B # {} => C = {})
    BY <2>1 DEF OnePlace, Subscribing, Workers, Free, Hubs!Workers, Hubs!Free, Posts, Awaits, Lists
  <2>6. Places(f) = ({"task"} \X A) \cup ({"left"} \X B) \cup ({"listed"} \X C)
    BY DEF Places
  <2> HIDE DEF A, B, C
  <2> QED
    BY <2>2, <2>3, <2>4, <2>5, <2>6
<1> QED
  BY <1>1, InitHInv, NextHInv, PTL DEF Hubs!Spec
=============================================================================
