--------------------------- MODULE MCFeedManager ---------------------------
(* FeedManager with two users, the links of two feeds, one of which is the  *)
(* page that announces the other.                                          *)
EXTENDS FeedManager, TLC

CONSTANTS u1, u2, x, y, r1, r2

TwoUsers == {u1, u2}
TwoLinks == {x, y}
OneReq == {r1}
TwoReqs == {r1, r2}
BothClients == {"api", "ttrss"}
ApiOnly == {"api"}
YLeadsToX == [l \in TwoLinks |-> IF l = y THEN {x, y} ELSE {x}]
Symmetry == Permutations(TwoUsers) \cup Permutations(TwoReqs)
=============================================================================
