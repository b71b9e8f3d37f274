-------------------------- MODULE MCIndexMonitor --------------------------
(* IndexMonitor with two feeds and two jobs at a time.                     *)
EXTENDS IndexMonitor, TLC

CONSTANTS f1, f2, j1, j2

TwoFeeds == {f1, f2}
TwoJobs == {j1, j2}
Symmetry == Permutations(TwoFeeds) \cup Permutations(TwoJobs)
=============================================================================
