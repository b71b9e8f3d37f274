--------------------------- MODULE MCThumbnailer ---------------------------
(* Thumbnailer with more articles than workers.                             *)
EXTENDS Thumbnailer, TLC

CONSTANTS a1, a2, a3, w1, w2

ThreeArticles == {a1, a2, a3}
TwoWorkers == {w1, w2}
=============================================================================
