------------------------------ MODULE PollSet ------------------------------
(***************************************************************************)
(* What feed.Scheduler promises the feed manager: a set of polled feeds,   *)
(* for each of which updates are handed over one at a time.  A feed is     *)
(* added once, an update is handed over only for a feed of the set and     *)
(* only when the previous one has been dealt with, and a feed leaves the   *)
(* set only after the scheduler was told to stop.                          *)
(* Scheduler implements this specification.                                *)
(***************************************************************************)
CONSTANT Feeds

VARIABLES
  active,    \* the feeds that are polled
  updating,  \* the feeds whose last update is still being stored
  stopped    \* the context was cancelled

pvars == <<active, updating, stopped>>

PInit == active = {} /\ updating = {} /\ stopped = FALSE

Begin(f) ==
  /\ f \notin active
  /\ active' = active \cup {f}
  /\ UNCHANGED <<updating, stopped>>

HandOver(f) ==
  /\ f \in active
  /\ f \notin updating
  /\ updating' = updating \cup {f}
  /\ UNCHANGED <<active, stopped>>

Stored(f) ==
  /\ f \in updating
  /\ updating' = updating \ {f}
  /\ UNCHANGED <<active, stopped>>

Stop == stopped' = TRUE /\ UNCHANGED <<active, updating>>

End(f) ==
  /\ stopped
  /\ f \in active
  /\ active' = active \ {f}
  /\ UNCHANGED <<updating, stopped>>

PNext ==
  \/ \E f \in Feeds : Begin(f) \/ HandOver(f) \/ Stored(f) \/ End(f)
  \/ Stop

PSpec == PInit /\ [][PNext]_pvars
=============================================================================
