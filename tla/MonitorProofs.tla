---------------------------- MODULE MonitorProofs ----------------------------
(***************************************************************************)
(* Proofs about two monitors of content/monitor: the one that generates    *)
(* thumbnails (Thumbnailer), for any set of articles and any number of     *)
(* workers, and the one of the filters of a user (UserFilters), for any *)
(* feeds, tags, numbers of requests and lengths of the stream.             *)
(***************************************************************************)
EXTENDS Thumbnailer, UserRows, FiniteSetTheorems, TLAPS

-----------------------------------------------------------------------------
(* The thumbnails. The inductive invariant accounts for each article: it is *)
(* with the feeder, in the hands of exactly one worker, or was generated    *)
(* once.                                                                    *)

Holds(w, a) == worker[w] \in {At("check", a), At("generate", a)}

WithFeeder(a) == a \in left /\ calls[a] = 0 /\ \A w \in Workers : ~Holds(w, a)
WithWorker(a) ==
  /\ a \notin left /\ calls[a] = 0
  /\ \E w \in Workers : Holds(w, a) /\ \A v \in Workers : Holds(v, a) => v = w
Generated(a) == a \notin left /\ calls[a] = 1 /\ \A w \in Workers : ~Holds(w, a)

(* Each article is in one place.                                           *)
Accounted == \A a \in Articles : WithFeeder(a) \/ WithWorker(a) \/ Generated(a)

(* A worker ends when it has met an error or the articles have run out.    *)
Ends ==
  /\ closed => left = {}
  /\ \A w \in Workers : worker[w] \in {Leaving, Finished} => closed \/ w \in failed

(* The counter is the number of the workers that have yet to take          *)
(* themselves off.                                                         *)
Running == {w \in Workers : worker[w] # Finished}
Counted == wg = Cardinality(Running)

(* The handler returns after the closer, which comes after all workers.    *)
Last ==
  /\ errClosed => \A w \in Workers : worker[w] = Finished
  /\ returned => errClosed

IInv == TypeOK /\ Accounted /\ Ends /\ Counted /\ Last

(* The places of a worker are told apart by name and article.              *)
LEMMA Places ==
  ASSUME NEW a \in Articles, NEW b \in Articles
  PROVE  /\ At("check", a) # At("generate", b)
         /\ At("check", a) = At("check", b) => a = b
         /\ At("generate", a) = At("generate", b) => a = b
         /\ At("check", a) \notin {Receiving, Leaving, Finished, At("report", None)}
         /\ At("generate", a) \notin {Receiving, Leaving, Finished, At("report", None)}
         /\ At("check", a).at = "check" /\ At("check", a).article = a
         /\ At("generate", a).at = "generate" /\ At("generate", a).article = a
         /\ [At("check", a) EXCEPT !.at = "generate"] = At("generate", a)
         /\ Receiving.at = "receive" /\ Finished.at = "finished"
         /\ At("report", None).at = "report" /\ Leaving.at = "leaving"
         /\ Finished \notin {Receiving, Leaving, At("report", None)}
         /\ Leaving \notin {Receiving, Finished, At("report", None)}
BY NoneAssumption DEF At, Receiving, Leaving, Finished

(* A worker is at one of six places.                                       *)
LEMMA WorkerCases ==
  ASSUME TypeOK, NEW w \in Workers
  PROVE  \/ worker[w] = Receiving
         \/ worker[w] = Leaving
         \/ worker[w] = Finished
         \/ worker[w] = At("report", None)
         \/ \E a \in Articles : worker[w] = At("check", a)
         \/ \E a \in Articles : worker[w] = At("generate", a)
BY DEF TypeOK

LEMMA RunningIsFinite ==
  /\ IsFiniteSet(Running) /\ Cardinality(Running) \in Nat
  /\ Cardinality(Running) = 0 <=> Running = {}
<1>1. IsFiniteSet(Running)
  BY WorkersAssumption, FS_Subset DEF Running
<1> QED
  BY <1>1, FS_CardinalityType, FS_EmptySet

LEMMA InitIInv == Init => IInv
<1> SUFFICES ASSUME Init PROVE IInv
  OBVIOUS
<1>1. TypeOK
  <2>1. worker \in [Workers -> {Receiving}]
    BY DEF Init, Started
  <2>2. worker \in [Workers -> {Receiving, Leaving, Finished, At("report", None)}
                              \cup {At(p, a) : p \in {"check", "generate"}, a \in Articles}]
    BY <2>1
  <2>3. calls \in [Articles -> Nat]
    BY DEF Init, Started
  <2>4. left \subseteq Articles /\ failed \subseteq Workers
    BY DEF Init, Started
  <2>5. closed \in BOOLEAN /\ errClosed \in BOOLEAN /\ returned \in BOOLEAN
    BY DEF Init, Started
  <2>6. wg \in Int
    BY WorkersAssumption, FS_CardinalityType DEF Init, Started
  <2> QED
    BY <2>2, <2>3, <2>4, <2>5, <2>6 DEF TypeOK
<1>2. Accounted
  <2> SUFFICES ASSUME NEW a \in Articles PROVE WithFeeder(a)
    BY DEF Accounted
  <2>1. \A w \in Workers : ~Holds(w, a)
    BY Places DEF Init, Started, Holds
  <2> QED
    BY <2>1 DEF Init, Started, WithFeeder
<1>3. Ends /\ Last
  BY DEF Init, Started, Ends, Last, At, Receiving, Leaving, Finished
<1>4. Counted
  <2>1. Running = Workers
    BY DEF Init, Started, Running, At, Receiving, Finished
  <2> QED
    BY <2>1 DEF Init, Started, Counted
<1> QED
  BY <1>1, <1>2, <1>3, <1>4 DEF IInv

(* A step of w to the place p, of those TypeOK allows.                     *)
LEMMA Moves ==
  ASSUME TypeOK, NEW w \in Workers, NEW p,
         p \in {Receiving, Leaving, Finished, At("report", None)}
           \/ \E a \in Articles : p \in {At("check", a), At("generate", a)},
         worker' = [worker EXCEPT ![w] = p],
         left' \subseteq Articles, closed' \in BOOLEAN, calls' \in [Articles -> Nat],
         failed' \subseteq Workers, wg' \in Int, errClosed' \in BOOLEAN, returned' \in BOOLEAN
  PROVE  TypeOK' /\ worker'[w] = p /\ \A v \in Workers \ {w} : worker'[v] = worker[v]
<1>1. p \in {Receiving, Leaving, Finished, At("report", None)}
            \cup {At(q, a) : q \in {"check", "generate"}, a \in Articles}
  OBVIOUS
<1> QED
  BY <1>1 DEF TypeOK

(* As long as no article changes hands, all stay accounted for.            *)
LEMMA AccountedKept ==
  ASSUME Accounted, UNCHANGED <<left, calls>>,
         \A w \in Workers, a \in Articles : Holds(w, a)' <=> Holds(w, a)
  PROVE  Accounted'
<1> SUFFICES ASSUME NEW a \in Articles
             PROVE  (WithFeeder(a) \/ WithWorker(a) \/ Generated(a))'
  BY DEF Accounted
<1>1. CASE WithFeeder(a)
  BY <1>1 DEF WithFeeder
<1>2. CASE WithWorker(a)
  BY <1>2 DEF WithWorker
<1>3. CASE Generated(a)
  BY <1>3 DEF Generated
<1> QED
  BY <1>1, <1>2, <1>3 DEF Accounted

(* As long as no worker takes itself off, the counter stays.               *)
LEMMA CountedKept ==
  ASSUME Counted, UNCHANGED wg,
         \A w \in Workers : worker'[w] = Finished <=> worker[w] = Finished
  PROVE  Counted'
<1>1. Running' = Running
  BY DEF Running
<1> QED
  BY <1>1 DEF Counted

LEMMA NextHand ==
  ASSUME IInv, NEW w \in Workers, NEW a \in Articles, Hand(w, a)
  PROVE  IInv'
<1> USE DEF IInv
<1>1. worker' = [worker EXCEPT ![w] = At("check", a)] /\ worker[w].at = "receive"
  BY DEF Hand, Goes
<1>2. TypeOK' /\ worker'[w] = At("check", a) /\ \A v \in Workers \ {w} : worker'[v] = worker[v]
  <2>1. left' \subseteq Articles
    BY DEF Hand, TypeOK
  <2> QED
    BY <1>1, <2>1, Moves DEF Hand, TypeOK
<1>3. \A b \in Articles : ~Holds(w, b)
  BY <1>1, Places DEF Holds
<1>4. Holds(w, a)' /\ \A b \in Articles \ {a} : ~Holds(w, b)'
  BY <1>2, Places DEF Holds
<1>5. \A v \in Workers \ {w}, b \in Articles : Holds(v, b)' <=> Holds(v, b)
  BY <1>2 DEF Holds
<1>6. Accounted'
  <2> SUFFICES ASSUME NEW b \in Articles
               PROVE  (WithFeeder(b) \/ WithWorker(b) \/ Generated(b))'
    BY DEF Accounted
  <2>1. CASE b = a
    <3>1. WithFeeder(a)
      BY DEF Accounted, Hand, WithWorker, Generated
    <3>2. \A v \in Workers : Holds(v, a)' => v = w
      BY <3>1, <1>5 DEF WithFeeder
    <3> QED
      BY <2>1, <3>1, <3>2, <1>4 DEF WithFeeder, WithWorker, Hand
  <2>2. CASE b # a
    <3>1. \A v \in Workers : Holds(v, b)' <=> Holds(v, b)
      BY <2>2, <1>3, <1>4, <1>5
    <3>2. (b \in left' <=> b \in left) /\ calls' = calls
      BY <2>2 DEF Hand
    <3>3. WithFeeder(b) \/ WithWorker(b) \/ Generated(b)
      BY DEF Accounted
    <3> QED
      BY <3>1, <3>2, <3>3 DEF WithFeeder, WithWorker, Generated
  <2> QED
    BY <2>1, <2>2
<1>7. Ends' /\ Last'
  BY <1>1, <1>2, Places DEF Ends, Last, Hand
<1>8. Counted'
  <2>1. worker[w] # Finished /\ worker'[w] # Finished
    BY <1>1, <1>2, Places
  <2> QED
    BY <2>1, <1>2, CountedKept DEF Hand
<1> QED
  BY <1>2, <1>6, <1>7, <1>8

LEMMA NextCheck ==
  ASSUME IInv, NEW w \in Workers, Check(w)
  PROVE  IInv'
<1> USE DEF IInv
<1>0. worker[w].at = "check"
  BY DEF Check, Goes
<1>1. PICK a \in Articles : worker[w] = At("check", a)
  <2>1. worker[w] \notin {Receiving, Leaving, Finished, At("report", None)}
    BY <1>0 DEF At, Receiving, Leaving, Finished
  <2>2. ~\E a \in Articles : worker[w] = At("generate", a)
    BY <1>0, Places
  <2> QED
    BY <2>1, <2>2, WorkerCases
<1>2. ~returned /\ ~errClosed
  BY <1>1, Places DEF Last
<1>3. worker' = [worker EXCEPT ![w] = At("generate", a)]
  BY <1>1, <1>2, Places, ZenonT(60) DEF Check, Goes
<1>4. TypeOK' /\ worker'[w] = At("generate", a) /\ \A v \in Workers \ {w} : worker'[v] = worker[v]
  BY <1>3, Moves DEF Check, TypeOK
<1>5. \A v \in Workers, b \in Articles : Holds(v, b)' <=> Holds(v, b)
  BY <1>1, <1>4, Places DEF Holds
<1>6. Accounted'
  BY <1>5, AccountedKept DEF Check
<1>7. Ends' /\ Last'
  BY <1>2, <1>4, Places DEF Ends, Last, Check
<1>8. Counted'
  <2>1. worker[w] # Finished /\ worker'[w] # Finished
    BY <1>1, <1>4, Places
  <2> QED
    BY <2>1, <1>4, CountedKept DEF Check
<1> QED
  BY <1>4, <1>6, <1>7, <1>8

LEMMA NextGenerate ==
  ASSUME IInv, NEW w \in Workers, Generate(w)
  PROVE  IInv'
<1> USE DEF IInv
<1>0. worker[w].at = "generate"
  BY DEF Generate, Goes
<1>1. PICK a \in Articles : worker[w] = At("generate", a)
  <2>1. worker[w] \notin {Receiving, Leaving, Finished, At("report", None)}
    BY <1>0 DEF At, Receiving, Leaving, Finished
  <2>2. ~\E a \in Articles : worker[w] = At("check", a)
    BY <1>0, Places
  <2> QED
    BY <2>1, <2>2, WorkerCases
<1>2. PICK p \in {Receiving, At("report", None)} : worker' = [worker EXCEPT ![w] = p]
  BY DEF Generate, Goes
<1>3. calls' = [calls EXCEPT ![a] = @ + 1]
  BY <1>1, Places, ZenonT(60) DEF Generate
<1>4. TypeOK' /\ worker'[w] = p /\ \A v \in Workers \ {w} : worker'[v] = worker[v]
  <2>1. calls' \in [Articles -> Nat]
    BY <1>3 DEF TypeOK
  <2> QED
    BY <1>2, <2>1, Moves DEF Generate, TypeOK
<1>5. \A b \in Articles : ~Holds(w, b)'
  BY <1>2, <1>4, Places DEF Holds
<1>6. Holds(w, a) /\ \A b \in Articles \ {a} : ~Holds(w, b)
  BY <1>1, Places DEF Holds
<1>7. \A v \in Workers \ {w}, b \in Articles : Holds(v, b)' <=> Holds(v, b)
  BY <1>4 DEF Holds
<1>8. Accounted'
  <2> SUFFICES ASSUME NEW b \in Articles
               PROVE  (WithFeeder(b) \/ WithWorker(b) \/ Generated(b))'
    BY DEF Accounted
  <2>1. CASE b = a
    <3>1. WithWorker(a)
      BY <1>6 DEF Accounted, WithFeeder, Generated
    <3>2. \A v \in Workers : ~Holds(v, a)'
      BY <3>1, <1>5, <1>6, <1>7 DEF WithWorker
    <3>3. a \notin left' /\ calls'[a] = 1
      BY <3>1, <1>3 DEF WithWorker, Generate, TypeOK
    <3> QED
      BY <2>1, <3>2, <3>3 DEF Generated
  <2>2. CASE b # a
    <3>1. \A v \in Workers : Holds(v, b)' <=> Holds(v, b)
      BY <2>2, <1>5, <1>6, <1>7
    <3>2. left' = left /\ calls'[b] = calls[b]
      BY <2>2, <1>3 DEF Generate, TypeOK
    <3>3. WithFeeder(b) \/ WithWorker(b) \/ Generated(b)
      BY DEF Accounted
    <3> QED
      BY <3>1, <3>2, <3>3 DEF WithFeeder, WithWorker, Generated
  <2> QED
    BY <2>1, <2>2
<1>9. p \notin {Leaving, Finished} /\ worker[w] # Finished
  BY <1>1, <1>2, Places
<1>10. Ends' /\ Last'
  BY <1>4, <1>9 DEF Ends, Last, Generate
<1>11. Counted'
  BY <1>4, <1>9, CountedKept DEF Generate
<1> QED
  BY <1>4, <1>8, <1>10, <1>11

(* A worker without an article leaves.                                     *)
LEMMA NextLeaves ==
  ASSUME IInv, NEW w \in Workers, RunsOut(w) \/ Report(w)
  PROVE  IInv'
<1> USE DEF IInv
<1>1. worker[w].at \in {"receive", "report"} /\ worker' = [worker EXCEPT ![w] = Leaving]
  BY DEF RunsOut, Report, Goes
<1>2. TypeOK' /\ worker'[w] = Leaving /\ \A v \in Workers \ {w} : worker'[v] = worker[v]
  <2>1. failed' \subseteq Workers
    BY DEF RunsOut, Report, TypeOK
  <2> QED
    BY <1>1, <2>1, Moves DEF RunsOut, Report, TypeOK
<1>3. \A v \in Workers, b \in Articles : Holds(v, b)' <=> Holds(v, b)
  BY <1>1, <1>2, Places DEF Holds
<1>4. Accounted'
  BY <1>3, AccountedKept DEF RunsOut, Report
<1>5. worker[w] # Finished /\ Leaving # Finished
  BY <1>1 DEF At, Leaving, Finished
<1>6. Ends'
  BY <1>2 DEF Ends, RunsOut, Report
<1>7. Counted'
  BY <1>2, <1>5, CountedKept DEF RunsOut, Report
<1>8. Last'
  BY <1>2, <1>5 DEF Last, RunsOut, Report
<1> QED
  BY <1>2, <1>4, <1>6, <1>7, <1>8

(* A worker takes itself off the counter.                                  *)
LEMMA NextDone ==
  ASSUME IInv, NEW w \in Workers, Done(w)
  PROVE  IInv'
<1> USE DEF IInv
<1>1. worker[w].at = "leaving" /\ worker' = [worker EXCEPT ![w] = Finished]
  BY DEF Done, Goes
<1>2. TypeOK' /\ worker'[w] = Finished /\ \A v \in Workers \ {w} : worker'[v] = worker[v]
  <2>1. wg' \in Int
    BY DEF Done, TypeOK
  <2> QED
    BY <1>1, <2>1, Moves DEF Done, TypeOK
<1>3. worker[w] = Leaving /\ Leaving # Finished
  <2>1. worker[w] \notin {Receiving, Finished, At("report", None)} /\ Leaving # Finished
    BY <1>1 DEF At, Receiving, Leaving, Finished
  <2>2. ~\E a \in Articles : worker[w] = At("check", a) \/ worker[w] = At("generate", a)
    BY <1>1, Places
  <2> QED
    BY <2>1, <2>2, WorkerCases
<1>4. \A v \in Workers, b \in Articles : Holds(v, b)' <=> Holds(v, b)
  BY <1>2, <1>3, Places DEF Holds
<1>5. Accounted'
  BY <1>4, AccountedKept DEF Done
<1>6. Ends'
  BY <1>2, <1>3 DEF Ends, Done
<1>7. Counted'
  <2>1. Running' = Running \ {w} /\ w \in Running
    BY <1>2, <1>3 DEF Running
  <2>2. Cardinality(Running \ {w}) = Cardinality(Running) - 1
    BY <2>1, RunningIsFinite, FS_RemoveElement
  <2> QED
    BY <2>1, <2>2 DEF Counted, Done
<1>8. Last'
  BY <1>2 DEF Last, Done
<1> QED
  BY <1>2, <1>5, <1>6, <1>7, <1>8

(* The steps that leave the workers alone.                                 *)
LEMMA NextCloses ==
  ASSUME IInv, CloseArticles \/ CloseErrors \/ Return \/ UNCHANGED vars
  PROVE  IInv'
<1> USE DEF IInv
<1>1. UNCHANGED <<left, worker, calls, failed>>
  BY DEF CloseArticles, CloseErrors, Return, vars
<1>2. UNCHANGED wg
  BY DEF CloseArticles, CloseErrors, Return, vars
<1>3. TypeOK'
  <2>1. closed' \in BOOLEAN /\ errClosed' \in BOOLEAN /\ returned' \in BOOLEAN
    <3>1. CASE CloseArticles
      BY <3>1 DEF TypeOK, CloseArticles
    <3>2. CASE CloseErrors
      BY <3>2 DEF TypeOK, CloseErrors
    <3>3. CASE Return
      BY <3>3 DEF TypeOK, Return
    <3>4. CASE UNCHANGED vars
      BY <3>4 DEF TypeOK, vars
    <3> QED
      BY <3>1, <3>2, <3>3, <3>4
  <2> QED
    BY <1>1, <1>2, <2>1 DEF TypeOK
<1>4. Accounted'
  BY <1>1, AccountedKept DEF Holds
<1>5. Ends'
  BY <1>1 DEF Ends, CloseArticles, CloseErrors, Return, vars
<1>6. Counted'
  BY <1>1, <1>2, CountedKept
<1>7. Last'
  <2>1. CASE CloseErrors
    <3>1. Running = {}
      BY <2>1, RunningIsFinite DEF Counted, CloseErrors
    <3>2. \A w \in Workers : worker[w] = Finished
      BY <3>1 DEF Running
    <3> QED
      BY <2>1, <1>1, <3>2 DEF Last, CloseErrors
  <2>2. CASE CloseArticles \/ Return \/ UNCHANGED vars
    BY <2>2, <1>1 DEF Last, CloseArticles, Return, vars
  <2> QED
    BY <2>1, <2>2
<1> QED
  BY <1>3, <1>4, <1>5, <1>6, <1>7

LEMMA Invariance == Spec => []IInv
<1>1. IInv /\ [Next]_vars => IInv'
  BY NextHand, NextCheck, NextGenerate, NextLeaves, NextDone, NextCloses DEF Next, Run
<1> QED
  BY InitIInv, <1>1, PTL DEF Spec

(* Every variable of Thumbnailer keeps its type.                           *)
THEOREM TypeCorrect == Spec => []TypeOK
<1>1. IInv => TypeOK
  BY DEF IInv
<1> QED
  BY <1>1, Invariance, PTL

(* No article is generated twice (thumbnailer.go:55-82), whatever the      *)
(* number of workers.                                                      *)
THEOREM NeverTwice == Spec => []OncePerArticle
<1>1. IInv => OncePerArticle
  <2> SUFFICES ASSUME IInv, NEW a \in Articles PROVE calls[a] <= 1
    BY DEF OncePerArticle
  <2>1. calls[a] = 0 \/ calls[a] = 1
    BY DEF IInv, Accounted, WithFeeder, WithWorker, Generated
  <2> QED
    BY <2>1
<1> QED
  BY <1>1, Invariance, PTL

(* The handler returns only when each article was tried, or when every     *)
(* worker has met an error (thumbnailer.go:50-52, 69-82).                  *)
THEOREM NoneLeftOut == Spec => []AllTried
<1>1. IInv => AllTried
  <2> SUFFICES ASSUME IInv, returned, failed # Workers
               PROVE  \A a \in Articles : calls[a] = 1
    BY DEF AllTried
  <2>1. \A w \in Workers : worker[w] = Finished
    BY DEF IInv, Last
  <2>2. left = {}
    BY <2>1, WorkersAssumption DEF IInv, Ends, TypeOK
  <2>3. \A w \in Workers, a \in Articles : ~Holds(w, a)
    BY <2>1, Places DEF Holds
  <2> QED
    BY <2>2, <2>3 DEF IInv, Accounted, WithFeeder, WithWorker, Generated
<1> QED
  BY <1>1, Invariance, PTL

(* The counter is never taken below zero, and when it lets the channel of   *)
(* the errors be closed, no worker has anything left to send               *)
(* (thumbnailer.go:30-48).                                                 *)
THEOREM NoSendOnClosed == Spec => []NoneCutShort
<1>1. IInv => NoneCutShort
  <2> SUFFICES ASSUME IInv PROVE NoneCutShort
    OBVIOUS
  <2>1. wg >= 0
    BY RunningIsFinite DEF IInv, Counted
  <2>2. Finished.at \notin {"receive", "check", "generate", "report"}
    BY DEF Finished, At
  <2> QED
    BY <2>1, <2>2 DEF IInv, Last, NoneCutShort
<1> QED
  BY <1>1, Invariance, PTL

-----------------------------------------------------------------------------
(* The filters of a user. No tags are left to a user who is gone. The row   *)
(* may go, and a late write may bring it back, between any two steps of a   *)
(* request; what has to be known is that whatever is written to the row is  *)
(* the row of a user, and that a request past the check of the feed's users *)
(* has tags to store.                                                       *)
(*                                                                          *)
(* The filters follow the tags as long as nothing overlaps: then there is   *)
(* at most one request or event, its copy of the row is the row, and the    *)
(* filters are right but for the one feed it is about.                      *)
Profiles == INSTANCE UserFilters

User == [present : BOOLEAN, filters : Profiles!Filters]
Op == Profiles!TagOps \cup {Profiles!SettingOp} \cup [kind : {"profile"}, filters : Profiles!Filters]
Event == [feed : Feeds, tags : SUBSET Tags, user : User]

Request(q) ==
  /\ q \in [at : {"began", "checked", "stored"}, op : Op, user : User]
  /\ q.at = "began" \/ q.op \in Profiles!TagOps

TInv ==
  /\ row \in User
  /\ tags \in [Feeds -> SUBSET Tags]
  /\ DOMAIN req = Requests
  /\ \A r \in Requests : req[r] = Profiles!Free \/ Request(req[r])
  /\ events \in Seq(Event)

TagInv == TInv /\ NoTagsWithoutUser

-----------------------------------------------------------------------------
(* The filters that the monitor puts together are filters of a profile.    *)
LEMMA FiltersAfterType ==
  ASSUME NEW e \in Event
  PROVE  Profiles!FiltersAfter(e) \in Profiles!Filters
<1> DEFINE D == {u \in DOMAIN e.user.filters : Profiles!FeedsAfter(e, u) # {}}
<1>1. e.user.filters \in Profiles!Filters /\ e.feed \in Feeds
  BY DEF Event, User
<1>2. PICK S \in SUBSET Tags : e.user.filters \in [S -> SUBSET Feeds]
  BY <1>1 DEF Profiles!Filters
<1>3. D \in SUBSET Tags
  BY <1>2
<1>4. \A t \in D : Profiles!FeedsAfter(e, t) \in SUBSET Feeds
  BY <1>1, <1>2 DEF Profiles!FeedsAfter
<1>5. Profiles!FiltersAfter(e) \in [D -> SUBSET Feeds]
  BY <1>4 DEF Profiles!FiltersAfter
<1> QED BY <1>3, <1>5 DEF Profiles!Filters

(* The filters of a profile request are those of the tags it names.        *)
LEMMA ProfileOpsType == Profiles!ProfileOps \subseteq Op
<1> SUFFICES ASSUME NEW D \in SUBSET Tags
             PROVE  [kind |-> "profile", filters |-> [t \in D |-> Profiles!FeedsOf(t)]] \in Op
  BY DEF Profiles!ProfileOps
<1>1. [t \in D |-> Profiles!FeedsOf(t)] \in [D -> SUBSET Feeds]
  BY DEF Profiles!FeedsOf
<1>2. [t \in D |-> Profiles!FeedsOf(t)] \in Profiles!Filters
  BY <1>1 DEF Profiles!Filters
<1> QED BY <1>2 DEF Op

LEMMA InitTagInv == Profiles!Init => TagInv
<1> SUFFICES ASSUME Profiles!Init PROVE TagInv
  OBVIOUS
<1>1. row \in User
  <2>1. <<>> \in [{} -> SUBSET Feeds]
    OBVIOUS
  <2>2. <<>> \in Profiles!Filters
    BY <2>1 DEF Profiles!Filters
  <2> QED BY <2>2 DEF Profiles!Init, User
<1>2. TInv
  BY <1>1 DEF Profiles!Init, TInv
<1> QED BY <1>2 DEF TagInv, NoTagsWithoutUser, Profiles!Init

(* A whole-row write leaves the row of a user who is there.                *)
LEMMA UpdateType ==
  ASSUME NEW u \in User, Profiles!Update(u)
  PROVE  row' \in User /\ row'.present
BY DEF Profiles!Update, User

(* Putting one request in another state touches no other.                  *)
LEMMA OneRequest ==
  ASSUME TInv, NEW r \in Requests, NEW q, q = Profiles!Free \/ Request(q),
         req' = [req EXCEPT ![r] = q]
  PROVE  /\ DOMAIN req' = Requests
         /\ \A s \in Requests : req'[s] = Profiles!Free \/ Request(req'[s])
BY DEF TInv

-----------------------------------------------------------------------------
LEMMA NextTagInv == TagInv /\ [Profiles!Next]_(Profiles!vars) => TagInv'
<1> SUFFICES ASSUME TagInv, [Profiles!Next]_(Profiles!vars) PROVE TagInv'
  OBVIOUS
<1> USE DEF TagInv
<1>0. \A r \in Requests : req[r] # Profiles!Free => Request(req[r])
  BY DEF TInv
<1>1. ASSUME NEW r \in Requests, NEW op \in Profiles!TagOps \cup {Profiles!SettingOp} \cup Profiles!ProfileOps,
             Profiles!Begin(r, op)
      PROVE  TagInv'
  <2>1. op \in Op
    BY ProfileOpsType DEF Op
  <2>2. Request([at |-> "began", op |-> op, user |-> row])
    BY <2>1 DEF Request, TInv
  <2> QED BY <1>1, <2>2, OneRequest DEF Profiles!Begin, TInv, NoTagsWithoutUser
<1>2. ASSUME NEW r \in Requests, Profiles!SetSetting(r) \/ Profiles!SetProfile(r)
      PROVE  TagInv'
  <2>1. req[r].at = "began" /\ req' = [req EXCEPT ![r] = Profiles!Free] /\ UNCHANGED <<tags, events>>
    BY <1>2 DEF Profiles!SetSetting, Profiles!SetProfile
  <2>2. req[r].user \in User /\ req[r].op \in Op
    BY <1>0, <2>1 DEF Request, Profiles!Free
  <2>3. row' \in User /\ row'.present
    <3>1. CASE Profiles!SetSetting(r)
      BY <3>1, <2>2, UpdateType DEF Profiles!SetSetting
    <3>2. CASE Profiles!SetProfile(r)
      <4>1. req[r].op.filters \in Profiles!Filters
        BY <3>2, <2>2 DEF Profiles!SetProfile, Op, Profiles!TagOps, Profiles!SettingOp
      <4>2. [req[r].user EXCEPT !.filters = req[r].op.filters] \in User
        BY <4>1, <2>2 DEF User
      <4> QED BY <3>2, <4>2, UpdateType DEF Profiles!SetProfile
    <3> QED BY <1>2, <3>1, <3>2
  <2> QED BY <2>1, <2>3, OneRequest DEF TInv, NoTagsWithoutUser
<1>3. ASSUME NEW r \in Requests, Profiles!CheckUsers(r) PROVE TagInv'
  <2>1. Request(req[r]) /\ req[r].op \in Profiles!TagOps
    BY <1>0, <1>3 DEF Profiles!CheckUsers, Request, Profiles!Free, Op, Profiles!SettingOp
  <2> QED BY <1>3, <2>1 DEF Profiles!CheckUsers, Request, TInv, NoTagsWithoutUser
<1>4. ASSUME NEW r \in Requests, Profiles!StoreTags(r) PROVE TagInv'
  <2>1. Request(req[r]) /\ req[r].op \in Profiles!TagOps
    BY <1>0, <1>4 DEF Profiles!StoreTags, Request, Profiles!Free
  <2>2. row' = row /\ events' = events
    BY <1>4 DEF Profiles!StoreTags
  <2>3. TInv'
    <3>1. Request([req[r] EXCEPT !.at = "stored"])
      BY <2>1 DEF Request
    <3>2. \A s \in Requests : req'[s] = Profiles!Free \/ Request(req'[s])
      BY <1>4, <3>1, OneRequest DEF Profiles!StoreTags
    <3>3. tags' \in [Feeds -> SUBSET Tags] /\ DOMAIN req' = Requests
      BY <1>4, <2>1 DEF Profiles!StoreTags, Profiles!TagOps, TInv
    <3> QED BY <2>2, <3>2, <3>3 DEF TInv
  <2>4. NoTagsWithoutUser'
    BY <1>4, <2>1, <2>2 DEF Profiles!StoreTags, NoTagsWithoutUser, Profiles!TagOps, TInv
  <2> QED BY <2>3, <2>4
<1>5. ASSUME NEW r \in Requests, Profiles!Dispatch(r) PROVE TagInv'
  <2>1. Request(req[r]) /\ req[r].op \in Profiles!TagOps
    BY <1>0, <1>5 DEF Profiles!Dispatch, Request, Profiles!Free
  <2>2. [feed |-> req[r].op.feed, tags |-> req[r].op.tags, user |-> req[r].user] \in Event
    BY <2>1 DEF Request, Profiles!TagOps, Event
  <2> QED BY <1>5, <2>2, OneRequest DEF Profiles!Dispatch, TInv, NoTagsWithoutUser
<1>6. ASSUME Profiles!DeleteUser PROVE TagInv'
  BY <1>6 DEF Profiles!DeleteUser, TInv, User, NoTagsWithoutUser
<1>7. ASSUME Profiles!Monitor PROVE TagInv'
  <2>1. events # <<>> /\ events' = Tail(events) /\ UNCHANGED <<tags, req>>
    BY <1>7 DEF Profiles!Monitor
  <2>2. Head(events) \in Event /\ Tail(events) \in Seq(Event)
    BY <2>1 DEF TInv
  <2>3. CASE UNCHANGED row
    BY <2>1, <2>2, <2>3 DEF TInv, NoTagsWithoutUser
  <2>4. CASE Profiles!Update([Head(events).user EXCEPT !.filters = Profiles!FiltersAfter(Head(events))])
    <3>1. [Head(events).user EXCEPT !.filters = Profiles!FiltersAfter(Head(events))] \in User
      BY <2>2, FiltersAfterType DEF Event, User
    <3>2. row' \in User /\ row'.present
      BY <3>1, <2>4, UpdateType
    <3> QED BY <2>1, <2>2, <3>2 DEF TInv, NoTagsWithoutUser
  <2> QED BY <1>7, <2>3, <2>4 DEF Profiles!Monitor
<1>8. CASE UNCHANGED Profiles!vars
  BY <1>8 DEF Profiles!vars, TInv, NoTagsWithoutUser
<1> QED BY <1>1, <1>2, <1>3, <1>4, <1>5, <1>6, <1>7, <1>8 DEF Profiles!Next

-----------------------------------------------------------------------------
(* A user who is deleted leaves no tags of feeds behind, although          *)
(* SetUserTags looks for the user before its transaction and the monitor   *)
(* and late requests write rows of users that are gone                     *)
(* (content/repo/sql/feed.go:294-350, content/repo/sql/user.go:47-75).     *)
THEOREM NothingLeftBehind == Profiles!Spec => []NoTagsWithoutUser
<1>1. TagInv => NoTagsWithoutUser
  BY DEF TagInv
<1> QED BY <1>1, InitTagInv, NextTagInv, PTL DEF Profiles!Spec

-----------------------------------------------------------------------------
(* Every filter carries the feeds of its tag.                              *)
Follow == \A t \in DOMAIN row.filters : row.filters[t] = Profiles!FeedsOf(t)

(* The tags T of f are stored, and the filters have yet to hear of them.   *)
Settled(f, T) ==
  /\ tags[f] = T
  /\ \A t \in DOMAIN row.filters : row.filters[t] \ {f} = Profiles!FeedsOf(t) \ {f}

AllFree == \A r \in Requests : req[r] = Profiles!Free

Alone(r) ==
  /\ events = <<>> /\ row.present
  /\ req[r] # Profiles!Free /\ req[r].user = row
  /\ \A s \in Requests \ {r} : req[s] = Profiles!Free

Quiet == Profiles!Drained /\ (row.present => Follow)
Asking(r) ==
  /\ Alone(r) /\ Follow
  /\ req[r].at \in {"began", "checked"}
  /\ req[r].op.kind = "profile" =>
       \A t \in DOMAIN req[r].op.filters : req[r].op.filters[t] = Profiles!FeedsOf(t)
Stored(r) ==
  /\ Alone(r) /\ req[r].at = "stored"
  /\ Settled(req[r].op.feed, req[r].op.tags)
Announced ==
  /\ AllFree /\ Len(events) = 1 /\ row.present
  /\ Head(events).user = row
  /\ Settled(Head(events).feed, Head(events).tags)

Serial == Quiet \/ (\E r \in Requests : Asking(r) \/ Stored(r)) \/ Announced
FilterInv == ~overlap => Serial

(* A state that allows one action more is settled, or busy with it alone.  *)
LEMMA BusyRequest ==
  ASSUME Serial, NEW r \in Requests, req[r] # Profiles!Free
  PROVE  Asking(r) \/ Stored(r)
BY DEF Serial, Quiet, Profiles!Drained, Announced, AllFree, Asking, Stored, Alone

LEMMA InitFilterInv == Profiles!Init => FilterInv
BY DEF Profiles!Init, FilterInv, Serial, Quiet, Profiles!Drained, Follow

(* Whoever begins with nothing else under way has the row and the tags as  *)
(* they are.                                                               *)
LEMMA BeginFilterInv ==
  ASSUME TInv, FilterInv, NEW r \in Requests,
         NEW op \in Profiles!TagOps \cup {Profiles!SettingOp} \cup Profiles!ProfileOps, Profiles!Begin(r, op)
  PROVE  FilterInv'
<1> SUFFICES ASSUME ~overlap' PROVE Serial'
  BY DEF FilterInv
<1>1. /\ ~overlap /\ Profiles!Drained /\ row.present
      /\ req' = [req EXCEPT ![r] = [at |-> "began", op |-> op, user |-> row]]
      /\ UNCHANGED <<row, tags, events>>
  BY DEF Profiles!Begin
<1>2. Follow /\ events = <<>>
  BY <1>1 DEF FilterInv, Serial, Quiet, Asking, Stored, Announced, Alone, Profiles!Drained
<1>3. /\ req'[r] = [at |-> "began", op |-> op, user |-> row]
      /\ \A s \in Requests \ {r} : req'[s] = Profiles!Free
  BY <1>1 DEF Profiles!Drained, TInv
<1>4. Alone(r)'
  BY <1>1, <1>2, <1>3 DEF Alone, Profiles!Free
<1>5. Follow'
  BY <1>1, <1>2 DEF Follow, Profiles!FeedsOf
<1>6. ASSUME op.kind = "profile", NEW t \in DOMAIN op.filters
      PROVE  op.filters[t] = Profiles!FeedsOf(t)'
  <2>1. op \in Profiles!ProfileOps
    BY <1>6 DEF Profiles!TagOps, Profiles!SettingOp
  <2>2. PICK D \in SUBSET Tags :
          op = [kind |-> "profile", filters |-> [u \in D |-> Profiles!FeedsOf(u)]]
    BY <2>1 DEF Profiles!ProfileOps
  <2>3. op.filters = [u \in D |-> Profiles!FeedsOf(u)]
    BY <2>2
  <2>4. op.filters[t] = Profiles!FeedsOf(t)
    BY <1>6, <2>3
  <2> QED BY <2>4, <1>1 DEF Profiles!FeedsOf
<1>7. Asking(r)'
  BY <1>3, <1>4, <1>5, <1>6 DEF Asking
<1> QED BY <1>7 DEF Serial

(* Writing the row of the request is writing the row that is there.        *)
LEMMA SettingFilterInv ==
  ASSUME TInv, FilterInv, NEW r \in Requests, Profiles!SetSetting(r) \/ Profiles!SetProfile(r)
  PROVE  FilterInv'
<1> SUFFICES ASSUME ~overlap PROVE Serial'
  BY DEF FilterInv, Profiles!SetSetting, Profiles!SetProfile
<1>1. /\ req[r].at = "began" /\ req' = [req EXCEPT ![r] = Profiles!Free]
      /\ UNCHANGED <<tags, events>>
  BY DEF Profiles!SetSetting, Profiles!SetProfile
<1>2. Asking(r)
  BY <1>1, BusyRequest DEF FilterInv, Stored, Profiles!Free
<1>3. Profiles!Drained'
  BY <1>1, <1>2 DEF Profiles!Drained, Asking, Alone, TInv
<1>4. \A t : Profiles!FeedsOf(t)' = Profiles!FeedsOf(t)
  BY <1>1 DEF Profiles!FeedsOf
<1>5. Follow'
  <2>1. CASE Profiles!SetSetting(r)
    <3>1. row'.filters = row.filters
      BY <2>1, <1>2 DEF Profiles!SetSetting, Profiles!Update, Asking, Alone, TInv, User
    <3> QED BY <3>1, <1>2, <1>4 DEF Asking, Follow
  <2>2. CASE Profiles!SetProfile(r)
    <3>1. row'.filters = req[r].op.filters /\ req[r].op.kind = "profile"
      BY <2>2, <1>2 DEF Profiles!SetProfile, Profiles!Update, Asking, Alone, TInv, User
    <3> QED BY <3>1, <1>2, <1>4 DEF Asking, Follow
  <2> QED BY <2>1, <2>2
<1> QED BY <1>3, <1>5 DEF Serial, Quiet

LEMMA CheckFilterInv ==
  ASSUME TInv, FilterInv, NEW r \in Requests, Profiles!CheckUsers(r)
  PROVE  FilterInv'
<1> SUFFICES ASSUME ~overlap PROVE Serial'
  BY DEF FilterInv, Profiles!CheckUsers
<1>1. /\ req[r].at = "began" /\ req[r].op.kind = "tags"
      /\ req' = [req EXCEPT ![r] = IF member THEN [@ EXCEPT !.at = "checked"] ELSE Profiles!Free]
      /\ UNCHANGED <<row, tags, events>>
  BY DEF Profiles!CheckUsers
<1>2. Asking(r) /\ Request(req[r])
  BY <1>1, BusyRequest DEF FilterInv, Stored, Profiles!Free, TInv
<1>3. Follow'
  BY <1>1, <1>2 DEF Asking, Follow, Profiles!FeedsOf
<1>4. CASE member
  <2>1. /\ req'[r] = [req[r] EXCEPT !.at = "checked"]
        /\ \A s \in Requests \ {r} : req'[s] = Profiles!Free
    BY <1>1, <1>2, <1>4 DEF TInv, Asking, Alone
  <2>2. /\ req'[r].at = "checked" /\ req'[r].op = req[r].op
        /\ req'[r].user = req[r].user /\ req'[r] # Profiles!Free
    BY <2>1, <1>2 DEF Request, Profiles!Free
  <2>3. Alone(r)'
    BY <1>1, <1>2, <2>1, <2>2 DEF Asking, Alone
  <2> QED BY <1>1, <1>3, <2>2, <2>3 DEF Asking, Serial
<1>5. CASE ~member
  <2>1. Profiles!Drained'
    BY <1>1, <1>2, <1>5 DEF Profiles!Drained, Asking, Alone, TInv
  <2> QED BY <1>3, <2>1 DEF Serial, Quiet
<1> QED BY <1>4, <1>5

(* The tags of one feed change: the filters are right but for that feed.   *)
LEMMA StoreFilterInv ==
  ASSUME TInv, FilterInv, NEW r \in Requests, Profiles!StoreTags(r)
  PROVE  FilterInv'
<1> SUFFICES ASSUME ~overlap PROVE Serial'
  BY DEF FilterInv, Profiles!StoreTags
<1>1. req[r].at = "checked"
  BY DEF Profiles!StoreTags
<1>2. Asking(r) /\ Request(req[r]) /\ row.present
  BY <1>1, BusyRequest DEF FilterInv, Stored, Asking, Alone, Profiles!Free, TInv
<1>3. /\ tags' = [tags EXCEPT ![req[r].op.feed] = req[r].op.tags]
      /\ req' = [req EXCEPT ![r].at = "stored"]
      /\ UNCHANGED <<row, events>>
  BY <1>2 DEF Profiles!StoreTags
<1>4. /\ req'[r] = [req[r] EXCEPT !.at = "stored"]
      /\ \A s \in Requests \ {r} : req'[s] = Profiles!Free
  BY <1>2, <1>3 DEF TInv, Asking, Alone
<1>5. /\ req'[r].at = "stored" /\ req'[r].op = req[r].op
      /\ req'[r].user = req[r].user /\ req'[r] # Profiles!Free
  BY <1>2, <1>4 DEF Request, Profiles!Free
<1>6. Alone(r)'
  BY <1>2, <1>3, <1>4, <1>5 DEF Asking, Alone
<1>7. PICK f \in Feeds : f = req[r].op.feed
  BY <1>1, <1>2 DEF Request, Profiles!TagOps
<1>8. tags'[f] = req[r].op.tags /\ \A g \in Feeds \ {f} : tags'[g] = tags[g]
  BY <1>3, <1>7 DEF TInv
<1>9. \A t : Profiles!FeedsOf(t)' \ {f} = Profiles!FeedsOf(t) \ {f}
  BY <1>8 DEF Profiles!FeedsOf
<1>10. \A t \in DOMAIN row.filters : row.filters[t] \ {f} = Profiles!FeedsOf(t)' \ {f}
  BY <1>2, <1>9 DEF Asking, Follow
<1>11. Settled(req[r].op.feed, req[r].op.tags)'
  BY <1>3, <1>5, <1>7, <1>8, <1>10 DEF Settled
<1>12. Stored(r)'
  BY <1>5, <1>6, <1>11 DEF Stored
<1> QED BY <1>12 DEF Serial

LEMMA DispatchFilterInv ==
  ASSUME TInv, FilterInv, NEW r \in Requests, Profiles!Dispatch(r)
  PROVE  FilterInv'
<1> SUFFICES ASSUME ~overlap PROVE Serial'
  BY DEF FilterInv, Profiles!Dispatch
<1>1. /\ req[r].at = "stored" /\ req' = [req EXCEPT ![r] = Profiles!Free]
      /\ UNCHANGED <<row, tags>>
      /\ events' = Append(events, [feed |-> req[r].op.feed, tags |-> req[r].op.tags,
                                   user |-> req[r].user])
  BY DEF Profiles!Dispatch
<1>2. Stored(r)
  BY <1>1, BusyRequest DEF FilterInv, Asking, Profiles!Free
<1>3. AllFree'
  BY <1>1, <1>2 DEF AllFree, Stored, Alone, TInv
<1>4. events = <<>>
  BY <1>2 DEF Stored, Alone
<1>5. events' = <<[feed |-> req[r].op.feed, tags |-> req[r].op.tags, user |-> req[r].user]>>
  BY <1>1, <1>4
<1>6. /\ Len(events') = 1 /\ Head(events').feed = req[r].op.feed
      /\ Head(events').tags = req[r].op.tags /\ Head(events').user = req[r].user
  BY <1>5
<1>7. Settled(Head(events).feed, Head(events).tags)'
  BY <1>1, <1>2, <1>6 DEF Stored, Settled, Profiles!FeedsOf
<1>8. Announced'
  BY <1>1, <1>2, <1>3, <1>6, <1>7 DEF Announced, Stored, Alone
<1> QED BY <1>8 DEF Serial

(* The monitor puts the one feed of the event right.                       *)
LEMMA MonitorFilterInv == TInv /\ FilterInv /\ Profiles!Monitor => FilterInv'
<1> SUFFICES ASSUME TInv, FilterInv, Profiles!Monitor, ~overlap PROVE Serial'
  BY DEF FilterInv, Profiles!Monitor
<1>1. events # <<>> /\ events' = Tail(events) /\ UNCHANGED <<tags, req>>
  BY DEF Profiles!Monitor
<1>2. Announced
  BY <1>1 DEF FilterInv, Serial, Quiet, Profiles!Drained, Asking, Stored, Alone
<1>3. PICK e \in Event : e = Head(events)
  BY <1>1 DEF TInv
<1>4. Profiles!Drained'
  BY <1>1, <1>2 DEF Profiles!Drained, Announced, AllFree, TInv
<1>5. /\ e.user = row /\ row.present /\ e.tags = tags[e.feed]
      /\ \A t \in DOMAIN row.filters :
           row.filters[t] \ {e.feed} = Profiles!FeedsOf(t) \ {e.feed}
  BY <1>2, <1>3 DEF Announced, Settled
<1>6. \A t \in DOMAIN row.filters : Profiles!FeedsAfter(e, t) = Profiles!FeedsOf(t)
  <2> SUFFICES ASSUME NEW t \in DOMAIN row.filters
               PROVE  Profiles!FeedsAfter(e, t) = Profiles!FeedsOf(t)
    OBVIOUS
  <2>1. e.feed \in Profiles!FeedsOf(t) <=> t \in e.tags
    BY <1>5 DEF Profiles!FeedsOf, Event
  <2>2. row.filters[t] \ {e.feed} = Profiles!FeedsOf(t) \ {e.feed}
    BY <1>5
  <2>3. CASE t \in e.tags
    <3>1. Profiles!FeedsAfter(e, t) = row.filters[t] \cup {e.feed}
      BY <1>5, <2>3 DEF Profiles!FeedsAfter
    <3> QED BY <2>1, <2>2, <2>3, <3>1
  <2>4. CASE t \notin e.tags
    <3>1. Profiles!FeedsAfter(e, t) = row.filters[t] \ {e.feed}
      BY <1>5, <2>4 DEF Profiles!FeedsAfter
    <3> QED BY <2>1, <2>2, <2>4, <3>1
  <2> QED BY <2>3, <2>4
<1>7. \A t \in DOMAIN Profiles!FiltersAfter(e) :
        t \in DOMAIN row.filters /\ Profiles!FiltersAfter(e)[t] = Profiles!FeedsOf(t)
  BY <1>5, <1>6 DEF Profiles!FiltersAfter
<1>8. row'.filters = Profiles!FiltersAfter(e)
  <2>1. CASE Profiles!FiltersAfter(e) # e.user.filters
    <3>1. row' = [[e.user EXCEPT !.filters = Profiles!FiltersAfter(e)] EXCEPT !.present = TRUE]
      BY <2>1, <1>3 DEF Profiles!Monitor, Profiles!Update
    <3> QED BY <3>1 DEF Event, User
  <2>2. CASE Profiles!FiltersAfter(e) = e.user.filters
    <3>1. row' = row
      BY <2>2, <1>3 DEF Profiles!Monitor
    <3> QED BY <3>1, <2>2, <1>5
  <2> QED BY <2>1, <2>2
<1>9. Follow'
  BY <1>1, <1>7, <1>8 DEF Follow, Profiles!FeedsOf
<1> QED BY <1>4, <1>9 DEF Serial, Quiet

LEMMA NextFilterInv == TInv /\ FilterInv /\ [Profiles!Next]_(Profiles!vars) => FilterInv'
<1> SUFFICES ASSUME TInv, FilterInv, [Profiles!Next]_(Profiles!vars) PROVE FilterInv'
  OBVIOUS
<1>1. CASE Profiles!DeleteUser
  <2> SUFFICES ASSUME ~overlap' PROVE Serial'
    BY DEF FilterInv
  <2>1. ~overlap /\ Profiles!Drained /\ UNCHANGED <<req, events>> /\ ~row'.present
    BY <1>1 DEF Profiles!DeleteUser, TInv, User
  <2> QED BY <2>1 DEF Serial, Quiet, Profiles!Drained
<1>2. CASE UNCHANGED Profiles!vars
  <2>1. UNCHANGED <<row, tags, req, events, overlap>>
    BY <1>2 DEF Profiles!vars
  <2>2. (Follow' <=> Follow) /\ (AllFree' <=> AllFree)
    BY <2>1 DEF Follow, AllFree, Profiles!FeedsOf
  <2>3. Quiet' <=> Quiet
    BY <2>1, <2>2 DEF Quiet, Profiles!Drained
  <2>4. \A r \in Requests : (Asking(r)' <=> Asking(r)) /\ (Stored(r)' <=> Stored(r))
    BY <2>1, <2>2 DEF Asking, Stored, Alone, Settled, Profiles!FeedsOf
  <2>5. Announced' <=> Announced
    BY <2>1, <2>2 DEF Announced, Settled, Profiles!FeedsOf
  <2> QED
    BY <2>1, <2>3, <2>4, <2>5 DEF FilterInv, Serial
<1> QED BY <1>1, <1>2, BeginFilterInv, SettingFilterInv, CheckFilterInv,
           StoreFilterInv, DispatchFilterInv, MonitorFilterInv DEF Profiles!Next

(* As long as no request begins before all else is dealt with, a filter    *)
(* carries the feeds of its tag once the monitor has come to its event,    *)
(* whatever tags, profiles and deletions there were before                 *)
(* (content/monitor/user-filters.go:27-54).                                *)
THEOREM FiltersKeepUp == Profiles!Spec => []FiltersFollowTags
<1>1. TInv /\ FilterInv => FiltersFollowTags
  BY DEF FilterInv, Serial, Quiet, Asking, Stored, Announced, Alone, Drained, Free, FeedsOf,
         Profiles!Free, Profiles!FeedsOf, FiltersFollowTags, Follow
<1>2. TagInv => TInv
  BY DEF TagInv
<1> QED BY <1>1, <1>2, InitTagInv, NextTagInv, InitFilterInv, NextFilterInv, PTL DEF Profiles!Spec
=============================================================================
