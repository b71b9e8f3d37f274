---------------------------- MODULE Thumbnailer ----------------------------
(***************************************************************************)
(* content/monitor/thumbnailer.go: the workers that make the thumbnails of *)
(* the new articles of one feed update.                                    *)
(*                                                                         *)
(* A feeder sends the articles over an unbuffered channel, Workers receive *)
(* and generate, and the handler, which has started them, collects their   *)
(* errors until a closer closes the channel of the errors.  The closer     *)
(* knows of the workers only what the WaitGroup wg counts: the handler     *)
(* adds their number before it starts them, and each takes itself off as   *)
(* the last thing it does.  A worker ends at its first error.  A send and  *)
(* its receive are one step.                                               *)
(***************************************************************************)
EXTENDS Integers, FiniteSets

CONSTANTS
  Articles, \* new articles of the update, whose order is of no account
  Workers,  \* the goroutines of process, 20 in the code
  None      \* no article

ASSUME WorkersAssumption == IsFiniteSet(Workers) /\ Workers # {}
ASSUME NoneAssumption == None \notin Articles

VARIABLES
  left,      \* articles the feeder has yet to send
  closed,    \* the feeder has closed the channel of the articles
  worker,    \* worker[w]: where w is, and with which article
  calls,     \* calls[a]: how often Generate was called for a
  failed,    \* workers whose error the handler has received
  wg,        \* counter of the WaitGroup
  errClosed, \* the closer has closed the channel of the errors
  returned   \* the handler has returned and closed done

vars == <<left, closed, worker, calls, failed, wg, errClosed, returned>>

At(where, a) == [at |-> where, article |-> a]
Receiving == At("receive", None)
Leaving == At("leaving", None)
Finished == At("finished", None)

(* processThumbnailerEvent up to its loop, with wg at n.                   *)
Started(n) ==
  /\ left = Articles
  /\ closed = FALSE
  /\ worker = [w \in Workers |-> Receiving]
  /\ calls = [a \in Articles |-> 0]
  /\ failed = {}
  /\ wg = n
  /\ errClosed = FALSE
  /\ returned = FALSE

(* Wrong: one goroutine is started more than wg was told of.               *)
InitOneMore == Started(Cardinality(Workers) - 1)

Init == Started(Cardinality(Workers))

-----------------------------------------------------------------------------
Goes(w, from, to) == worker[w].at = from /\ worker' = [worker EXCEPT ![w] = to]

(* Wrong: the feeder does not advance.                                     *)
HandAgain(w, a) ==
  /\ a \in left
  /\ Goes(w, "receive", At("check", a))
  /\ left' \in {left, left \ {a}}
  /\ UNCHANGED <<closed, calls, failed, wg, errClosed, returned>>

(* The feeder sends an article and a worker receives it.                   *)
Hand(w, a) ==
  /\ a \in left
  /\ Goes(w, "receive", At("check", a))
  /\ left' = left \ {a}
  /\ UNCHANGED <<closed, calls, failed, wg, errClosed, returned>>

(* Wrong: the feeder does not close its channel.                           *)
CloseArticlesNever ==
  /\ FALSE
  /\ UNCHANGED vars

(* The feeder's loop is over.                                              *)
CloseArticles ==
  /\ ~closed /\ left = {}
  /\ closed' = TRUE
  /\ UNCHANGED <<left, worker, calls, failed, wg, errClosed, returned>>

(* Wrong: a worker does not wait for an article.                           *)
RunsOutEarly(w) ==
  /\ Goes(w, "receive", Leaving)
  /\ UNCHANGED <<left, closed, calls, failed, wg, errClosed, returned>>

(* The worker's range over the closed channel ends.                        *)
RunsOut(w) ==
  /\ closed
  /\ Goes(w, "receive", Leaving)
  /\ UNCHANGED <<left, closed, calls, failed, wg, errClosed, returned>>

(* The select: a worker stops when done is closed.                         *)
Check(w) ==
  /\ Goes(w, "check", IF returned THEN Leaving ELSE [worker[w] EXCEPT !.at = "generate"])
  /\ UNCHANGED <<left, closed, calls, failed, wg, errClosed, returned>>

(* Generate returns, without an error or with one to report.               *)
Generate(w) ==
  /\ \/ Goes(w, "generate", Receiving)
     \/ Goes(w, "generate", At("report", None))
  /\ calls' = [calls EXCEPT ![worker[w].article] = @ + 1]
  /\ UNCHANGED <<left, closed, failed, wg, errClosed, returned>>

(* The worker sends its error, the handler receives and logs it.           *)
Report(w) ==
  /\ ~returned /\ ~errClosed
  /\ Goes(w, "report", Leaving)
  /\ failed' = failed \cup {w}
  /\ UNCHANGED <<left, closed, calls, wg, errClosed, returned>>

(* wg.Done.                                                                *)
Done(w) ==
  /\ Goes(w, "leaving", Finished)
  /\ wg' = wg - 1
  /\ UNCHANGED <<left, closed, calls, failed, errClosed, returned>>

(* wg.Wait returns and the closer closes the channel of the errors.        *)
CloseErrors ==
  /\ ~errClosed
  /\ wg = 0
  /\ errClosed' = TRUE
  /\ UNCHANGED <<left, closed, worker, calls, failed, wg, returned>>

(* The handler's range over the errors ends; done is closed on the way.    *)
Return ==
  /\ errClosed /\ ~returned
  /\ returned' = TRUE
  /\ UNCHANGED <<left, closed, worker, calls, failed, wg, errClosed>>

-----------------------------------------------------------------------------
(* Whatever a goroutine does once the others let it.                       *)
Run ==
  \/ \E w \in Workers :
       \/ \E a \in Articles : Hand(w, a)
       \/ RunsOut(w) \/ Check(w) \/ Report(w) \/ Done(w)
  \/ CloseArticles \/ CloseErrors \/ Return

Next == Run \/ \E w \in Workers : Generate(w)

Spec == Init /\ [][Next]_vars

(* Goroutines are scheduled; Generate fetches without a timeout and may    *)
(* never return (content/thumbnail/thumbnail.go).                          *)
FairSpec == Spec /\ WF_vars(Run)

-----------------------------------------------------------------------------
TypeOK ==
  /\ left \subseteq Articles
  /\ closed \in BOOLEAN
  /\ worker \in [Workers -> {Receiving, Leaving, Finished, At("report", None)}
                            \cup {At(p, a) : p \in {"check", "generate"}, a \in Articles}]
  /\ calls \in [Articles -> Nat]
  /\ failed \subseteq Workers
  /\ wg \in Int
  /\ errClosed \in BOOLEAN
  /\ returned \in BOOLEAN

(* No article is generated twice, however the workers take turns           *)
(* (thumbnailer.go:55-82).                                                 *)
OncePerArticle == \A a \in Articles : calls[a] <= 1

(* When the handler returns, Generate was called for every article, unless *)
(* each of the workers has met an error (thumbnailer.go:50-52, 69-82).     *)
AllTried ==
  returned => \/ \A a \in Articles : calls[a] = 1
              \/ failed = Workers

(* The counter of wg, all that the closer goes by, is never taken below    *)
(* zero, which would panic, and when it lets the channel of the errors be  *)
(* closed, no worker has an article or an error left: none is cut short by *)
(* done, and none sends on the closed channel, which would panic           *)
(* (thumbnailer.go:30-48).                                                 *)
NoneCutShort ==
  /\ wg >= 0
  /\ errClosed \/ returned =>
       \A w \in Workers : worker[w].at \notin {"receive", "check", "generate", "report"}

(* Unless a Generate never returns, the handler returns.                   *)
NoneStuck == \A w \in Workers : []<>(worker[w].at # "generate")
HandlerReturns == NoneStuck => <>returned
=============================================================================
