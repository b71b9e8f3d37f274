---------------------------- MODULE MCScheduler ----------------------------
(* Scheduler with two feeds and two callers, so that a feed is scheduled    *)
(* twice in the interesting behaviours, and three documents of different    *)
(* kinds.                                                                   *)
EXTENDS Scheduler, TLC

CONSTANTS a, b, c1, c2

FeedsTwo == {a, b}
CallersTwo == {c1, c2}
Documents == {"rss", "html", "bare"}
KindOf == [d \in Documents |->
             CASE d = "rss" -> "articles"
               [] d = "html" -> "broken"
               [] d = "bare" -> "empty"]
=============================================================================
