------------------------------ MODULE EventBus ------------------------------
(***************************************************************************)
(* content/repo/eventable: the repository decorators that announce writes  *)
(* and the bus that carries the announcements to the listeners.            *)
(*                                                                         *)
(* A caller is a goroutine inside articleRepo.Read/Favor or                *)
(* feedRepo.Update/Delete/SetUserTags: the wrapped repository commits the  *)
(* write first, and only then does the caller block in bus.Dispatch until  *)
(* the loop goroutine takes its closure from the unbuffered channel b.ops. *)
(* The closure sends the event to the streams one after the other, and the *)
(* loop does nothing else until the last send went through: a full stream  *)
(* holds up every later writer.                                            *)
(*                                                                         *)
(* An event is named by the index of its write in committed, so that the   *)
(* order of the events can be compared with the order of the writes.       *)
(***************************************************************************)
EXTENDS Integers, Sequences

CONSTANTS
  Callers,    \* goroutines that write through the eventable repositories
  Listeners,  \* goroutines that call Service.Listener and range over it
  Ops,        \* the announced repository methods that are exercised
  Capacity,   \* buffer of a stream: 10 in the code
  MaxWrites   \* bound: writes committed in a behaviour

AllOps == {"Read", "Favor", "Update", "Delete", "SetUserTags"}

ASSUME OpsAssumption == Ops \subseteq AllOps
ASSUME CapacityAssumption == Capacity \in Nat \ {0}
ASSUME MaxWritesAssumption == MaxWrites \in Nat

Events == 1..MaxWrites

VARIABLES
  committed,   \* writes in the order the wrapped repository committed them
  call,        \* call[c]: the event c is blocked dispatching, 0 if none
  listeners,   \* payload.listeners: the streams in registration order
  stream,      \* stream[l]: the events buffered in l's channel
  next,        \* index of the stream the running Dispatch serves, 0 at select
  exited,      \* the loop goroutine has returned
  cancelled,   \* ctx.Done() is closed
  reading,     \* reading[l]: l comes back to its stream
  dispatched,  \* history: the events the loop took, in order
  since,       \* history: Len(dispatched) when l registered, -1 before
  received     \* history: received[l], what l took from its stream

busVars == <<listeners, stream, next, exited, dispatched, since, received>>
vars == <<committed, call, listeners, stream, next, exited, cancelled,
          reading, dispatched, since, received>>

Init ==
  /\ committed = <<>>
  /\ call = [c \in Callers |-> 0]
  /\ listeners = <<>>
  /\ stream = [l \in Listeners |-> <<>>]
  /\ next = 0
  /\ exited = FALSE
  /\ cancelled = FALSE
  /\ reading = [l \in Listeners |-> TRUE]
  /\ dispatched = <<>>
  /\ since = [l \in Listeners |-> -1]
  /\ received = [l \in Listeners |-> <<>>]

-----------------------------------------------------------------------------
(* A write of the given method with new articles in it is announced;       *)
(* feedRepo.Update stays silent when the feed brought no new article.      *)
Announces(op, new) == op = "Update" => new > 0

(* Wrong: only the article methods dispatch.                               *)
WriteFeedSilent(c, op, new) ==
  /\ call[c] = 0
  /\ Len(committed) < MaxWrites
  /\ committed' = Append(committed, [by |-> c, op |-> op, new |-> new])
  /\ call' = [call EXCEPT ![c] = IF op \in {"Read", "Favor"}
                                 THEN Len(committed) + 1 ELSE 0]
  /\ UNCHANGED <<busVars, cancelled, reading>>

(* The wrapped repository commits; the caller goes on to Dispatch.  A      *)
(* write that fails changes nothing and is announced to nobody.            *)
Write(c, op, new) ==
  /\ call[c] = 0
  /\ Len(committed) < MaxWrites
  /\ committed' = Append(committed, [by |-> c, op |-> op, new |-> new])
  /\ call' = [call EXCEPT ![c] = IF Announces(op, new)
                                 THEN Len(committed) + 1 ELSE 0]
  /\ UNCHANGED <<busVars, cancelled, reading>>

AtSelect == next = 0 /\ ~exited

(* Wrong: the range over the listeners starts one too late.                *)
TakeDispatchSkipsFirst(c) ==
  /\ AtSelect
  /\ call[c] # 0
  /\ dispatched' = Append(dispatched, call[c])
  /\ call' = [call EXCEPT ![c] = 0]
  /\ next' = 2
  /\ UNCHANGED <<committed, listeners, stream, exited, cancelled, reading,
                 since, received>>

(* Wrong: the closure stays in the channel after it was taken.             *)
TakeDispatchKeepsOp(c) ==
  /\ AtSelect
  /\ call[c] # 0
  /\ Len(dispatched) < MaxWrites
  /\ dispatched' = Append(dispatched, call[c])
  /\ next' = 1
  /\ UNCHANGED <<committed, call, listeners, stream, exited, cancelled,
                 reading, since, received>>

(* The loop receives a Dispatch closure: the caller is released here,      *)
(* before any listener has the event.                                      *)
TakeDispatch(c) ==
  /\ AtSelect
  /\ call[c] # 0
  /\ dispatched' = Append(dispatched, call[c])
  /\ call' = [call EXCEPT ![c] = 0]
  /\ next' = 1
  /\ UNCHANGED <<committed, listeners, stream, exited, cancelled, reading,
                 since, received>>

(* Wrong: a select with a default case drops the event for a full stream.  *)
SendOrDrop ==
  /\ next \in 1..Len(listeners)
  /\ stream' = IF Len(stream[listeners[next]]) < Capacity
               THEN [stream EXCEPT ![listeners[next]] =
                       Append(@, dispatched[Len(dispatched)])]
               ELSE stream
  /\ next' = next + 1
  /\ UNCHANGED <<committed, call, listeners, exited, cancelled, reading,
                 dispatched, since, received>>

(* p.listeners[i] <- event, which blocks while the stream is full.         *)
Send ==
  /\ next \in 1..Len(listeners)
  /\ Len(stream[listeners[next]]) < Capacity
  /\ stream' = [stream EXCEPT ![listeners[next]] =
                  Append(@, dispatched[Len(dispatched)])]
  /\ next' = next + 1
  /\ UNCHANGED <<committed, call, listeners, exited, cancelled, reading,
                 dispatched, since, received>>

(* The range loop is over and the loop returns to its select.              *)
EndDispatch ==
  /\ next > Len(listeners)
  /\ next' = 0
  /\ UNCHANGED <<committed, call, listeners, stream, exited, cancelled,
                 reading, dispatched, since, received>>

(* The loop receives the closure of Listener(), whose caller was blocked   *)
(* on b.ops since the server started it.                                   *)
Register(l) ==
  /\ AtSelect
  /\ since[l] = -1
  /\ listeners' = Append(listeners, l)
  /\ since' = [since EXCEPT ![l] = Len(dispatched)]
  /\ UNCHANGED <<committed, call, stream, next, exited, cancelled, reading,
                 dispatched, received>>

(* for event := range service.Listener()                                   *)
Receive(l) ==
  /\ since[l] >= 0
  /\ reading[l]
  /\ stream[l] # <<>>
  /\ received' = [received EXCEPT ![l] = Append(@, Head(stream[l]))]
  /\ stream' = [stream EXCEPT ![l] = Tail(@)]
  /\ UNCHANGED <<committed, call, listeners, next, exited, cancelled,
                 reading, dispatched, since>>

(* The context is cancelled when the server function returns.              *)
Cancel ==
  /\ ~cancelled
  /\ cancelled' = TRUE
  /\ UNCHANGED <<committed, call, busVars, reading>>

(* A listener does not come back to its stream: the feed monitor leaves its *)
(* loop after the cancellation, and before it a handler may block for ever, *)
(* as the monitor's loop does when it writes to a client that does not read *)
(* (api/events.go:236-251; these writes have no timeout).                   *)
StopReading(l) ==
  /\ cancelled \/ since[l] >= 0
  /\ reading[l]
  /\ reading' = [reading EXCEPT ![l] = FALSE]
  /\ UNCHANGED <<committed, call, busVars, cancelled>>

(* Wrong: the loop returns although the context is not cancelled.          *)
LoopExitEarly ==
  /\ AtSelect
  /\ exited' = TRUE
  /\ UNCHANGED <<committed, call, listeners, stream, next, cancelled,
                 reading, dispatched, since, received>>

(* select chooses ctx.Done(): nobody receives from b.ops any more.         *)
LoopExit ==
  /\ AtSelect
  /\ cancelled
  /\ exited' = TRUE
  /\ UNCHANGED <<committed, call, listeners, stream, next, cancelled,
                 reading, dispatched, since, received>>

Next ==
  \/ \E c \in Callers, op \in Ops, new \in 0..1 : Write(c, op, new)
  \/ \E c \in Callers : TakeDispatch(c)
  \/ Send
  \/ EndDispatch
  \/ \E l \in Listeners : Register(l) \/ Receive(l) \/ StopReading(l)
  \/ Cancel
  \/ LoopExit

(* The loop is a goroutine that is never blocked but in Send; the senders  *)
(* waiting on b.ops are queued first-in first-out by the runtime, hence    *)
(* strong fairness for being taken.  A listener that has not stopped       *)
(* reading receives what its stream holds, at some time; that it stops is  *)
(* up to its handlers, as writes and the cancellation are to the outside.  *)
Fairness ==
  /\ WF_vars(Send) /\ WF_vars(EndDispatch)
  /\ \A c \in Callers : SF_vars(TakeDispatch(c))
  /\ \A l \in Listeners : SF_vars(Register(l)) /\ WF_vars(Receive(l))

Spec == Init /\ [][Next]_vars
FairSpec == Spec /\ Fairness

-----------------------------------------------------------------------------
Writes == [by : Callers, op : Ops, new : 0..1]

TypeOK ==
  /\ committed \in Seq(Writes)
  /\ Len(committed) <= MaxWrites
  /\ call \in [Callers -> 0..MaxWrites]
  /\ listeners \in Seq(Listeners)
  /\ stream \in [Listeners -> Seq(Events)]
  /\ next \in Nat
  /\ exited \in BOOLEAN
  /\ cancelled \in BOOLEAN
  /\ reading \in [Listeners -> BOOLEAN]
  /\ dispatched \in Seq(Events)
  /\ since \in [Listeners -> Int]
  /\ received \in [Listeners -> Seq(Events)]

(* l is registered and the Dispatch that is running has yet to reach it.   *)
InFlight(l) == next > 0 /\ \E i \in next..Len(listeners) : listeners[i] = l

Due(l) == IF InFlight(l) THEN 1 ELSE 0

(* Every listener gets exactly the events dispatched since it registered,  *)
(* in the order of dispatch, with none lost, repeated or out of order:     *)
(* what it received, followed by its buffer, followed by the event the     *)
(* running Dispatch still owes it, is that suffix of the dispatch history  *)
(* (bus.Dispatch and bus.Listener, bus.go:44-61).                          *)
ExactSuffix ==
  \A l \in Listeners : since[l] >= 0 =>
    /\ since[l] + Len(received[l]) + Len(stream[l]) + Due(l)
         = Len(dispatched)
    /\ \A i \in 1..Len(received[l]) :
         received[l][i] = dispatched[since[l] + i]
    /\ \A i \in 1..Len(stream[l]) :
         stream[l][i] = dispatched[since[l] + Len(received[l]) + i]

(* Back-pressure bounds how far any listener lags behind the writers: its  *)
(* full buffer and the one event the loop is holding for it.  No writer    *)
(* can run ahead of the slowest listener by more (bus.go:47-49, 54).       *)
BoundedLag ==
  \A l \in Listeners : since[l] >= 0 =>
    Len(dispatched) - since[l] - Len(received[l]) <= Capacity + 1

(* What a caller has had announced are its own writes that have something  *)
(* to announce: all of them, once, and in the order they were committed,   *)
(* up to the one it is still dispatching.  Writes of different callers may *)
(* be announced in the other order, because Dispatch is called after the   *)
(* commit (eventable/feed.go:88-137, article.go:33-71).                    *)
By(k) == committed[k].by
ToAnnounce ==
  {k \in 1..Len(committed) : Announces(committed[k].op, committed[k].new)}
Announced ==
  {dispatched[i] : i \in 1..Len(dispatched)} \cup ({call[c] : c \in Callers} \ {0})
CallerOrder ==
  /\ Announced = ToAnnounce
  /\ \A i, j \in 1..Len(dispatched) :
       i < j /\ By(dispatched[i]) = By(dispatched[j]) => dispatched[i] < dispatched[j]
  /\ \A c \in Callers : call[c] # 0 =>
       /\ By(call[c]) = c
       /\ \A i \in 1..Len(dispatched) :
            By(dispatched[i]) = c => dispatched[i] < call[c]

(* The bus implements atomic broadcast.                                    *)
Abstract == INSTANCE Broadcast
              WITH log <- dispatched, from <- since,
                   got <- received
AtomicBroadcast == Abstract!BInit /\ [][Abstract!BNext]_(Abstract!bvars)

(* A listener that reads no more has a full stream: the loop waits for it  *)
(* for ever as soon as there is one event more.                            *)
HeldUp ==
  \E l \in Listeners : since[l] >= 0 /\ ~reading[l] /\ Len(stream[l]) = Capacity

(* Unless the context is cancelled, a repository call that announces       *)
(* returns, whatever the other callers do, until a listener that has       *)
(* stopped reading has a full stream: as long as there is room in it not   *)
(* even that listener holds up a writer (bus.go:44-51, 63-76).             *)
DispatchReturns ==
  \A c \in Callers : (call[c] # 0) ~> (call[c] = 0 \/ cancelled \/ HeldUp)

(* A registered listener that goes on reading receives every event         *)
(* dispatched after it registered, the k-th of them, also when others have *)
(* stopped, unless one of those has a full stream or the context is        *)
(* cancelled.                                                              *)
EventuallyReceived ==
  \A l \in Listeners, k \in Events :
    (since[l] >= 0 /\ since[l] + k <= Len(dispatched))
      ~> (Len(received[l]) >= k \/ ~reading[l] \/ cancelled \/ HeldUp)
=============================================================================
