--------------------------- MODULE MCEventSocket ---------------------------
(* EventSocket with two sockets at different addresses and a channel with   *)
(* room for less than what the handlers and the events may send.            *)
EXTENDS EventSocket, TLC

CONSTANTS s1, s2

TwoSockets == {s1, s2}
OneSocket == {s1}
OwnAddr == [s \in Sockets |-> s]
SharedAddr == [s \in Sockets |-> s1]
SomeEvents == [s \in Sockets |-> IF s = s1 THEN {1} ELSE 2 .. MaxEvents]
=============================================================================
