------------------------------ MODULE MCHubbub ------------------------------
(* Hubbub with the IDs of two feeds and a goroutine besides the starter.    *)
EXTENDS Hubbub, TLC

CONSTANTS t1

OneTask == {t1}
=============================================================================
