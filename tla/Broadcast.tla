----------------------------- MODULE Broadcast -----------------------------
(***************************************************************************)
(* What the event bus of content/repo/eventable promises its listeners,    *)
(* with no channel, no loop and no capacity: one global log of events, and *)
(* for each listener the position of the log at which it joined.  Joining  *)
(* and publishing are atomic, and a listener takes the events published    *)
(* after it joined one by one, in the order of the log.                    *)
(* EventBus implements this specification.                                 *)
(***************************************************************************)
EXTENDS Integers, Sequences

CONSTANTS Listeners, Events

VARIABLES
  log,    \* the events published so far, in order
  from,   \* from[l]: length of the log when l joined, -1 before it joins
  got     \* got[l]: the events l has taken, in order

bvars == <<log, from, got>>

BInit ==
  /\ log = <<>>
  /\ from = [l \in Listeners |-> -1]
  /\ got = [l \in Listeners |-> <<>>]

Publish(e) ==
  /\ log' = Append(log, e)
  /\ UNCHANGED <<from, got>>

Join(l) ==
  /\ from[l] = -1
  /\ from' = [from EXCEPT ![l] = Len(log)]
  /\ UNCHANGED <<log, got>>

Take(l) ==
  /\ from[l] >= 0
  /\ from[l] + Len(got[l]) < Len(log)
  /\ got' = [got EXCEPT ![l] = Append(@, log[from[l] + Len(@) + 1])]
  /\ UNCHANGED <<log, from>>

BNext ==
  \/ \E e \in Events : Publish(e)
  \/ \E l \in Listeners : Join(l) \/ Take(l)

BSpec == BInit /\ [][BNext]_bvars
=============================================================================
