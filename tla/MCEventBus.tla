----------------------------- MODULE MCEventBus -----------------------------
(* Instances of EventBus for TLC: two writers, two listeners, streams of    *)
(* one event.  Writers and listeners are model values, interchangeable in   *)
(* every safety property.                                                   *)
EXTENDS EventBus, TLC

CONSTANTS c1, c2, l1, l2

CallersTwo == {c1, c2}
ListenersTwo == {l1, l2}
OpsTwo == {"Update", "Read"}
OpsOne == {"Update"}
Symmetry == Permutations(CallersTwo) \cup Permutations(ListenersTwo)
=============================================================================
