--------------------------- MODULE MCUserFilters ---------------------------
(* UserFilters with two feeds, a tag and two requests at a time.  Feeds and *)
(* requests are interchangeable.                                            *)
EXTENDS UserFilters, TLC

CONSTANTS f1, f2, t1, r1, r2

TwoFeeds == {f1, f2}
OneTag == {t1}
TwoRequests == {r1, r2}
Symmetry == Permutations(TwoFeeds) \cup Permutations(TwoRequests)
=============================================================================
