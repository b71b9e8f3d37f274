------------------------- MODULE EventSocketProofs --------------------------
(***************************************************************************)
(* The table of connections and the events written to them, for any        *)
(* sockets, shared addresses, entitlements and buffers of closures.        *)
(*                                                                         *)
(* Two invariants.  A handler that has returned has its removal behind its *)
(* addition in the channel (RemovalBehind).  An event is in one place at a *)
(* time: with its goroutine, once in the channel, with the loop, or done   *)
(* with, and a socket it was written to is no longer to be dealt with.     *)
(***************************************************************************)
EXTENDS EventSocket, TLAPS

TInv ==
  /\ pc \in [Sockets -> {"new", "greet", "select", "leave", "returned"}]
  /\ conns \in [Addrs -> Sockets \cup {None}]
  /\ ops \in Seq(Ops)
  /\ running \in {Nothing} \cup Ops
  /\ taken \in Nat
  /\ written \in [Sockets -> Seq(Event)]

(* The addition of a handler that has returned is followed by its removal. *)
RemovalBehind ==
  \A s \in Sockets : pc[s] = "returned" =>
    \A k \in 1 .. Len(ops) : ops[k] = Add(s) =>
      \E j \in (k + 1) .. Len(ops) : ops[j] = Remove(s)

Known(n) == n \in 1 .. taken
Written(s, n) == \E k \in 1 .. Len(written[s]) : written[s][k] = n

SentOnce == \A n \in sending : Known(n) /\ ~Queued(Send(n))

QueuedOnce ==
  /\ \A n \in Event : Queued(Send(n)) => Known(n)
  /\ \A j, k \in 1 .. Len(ops) :
       ops[j].op = "event" /\ ops[j] = ops[k] => j = k

RunOnce ==
  running.op = "event" =>
    Known(running.event) /\ running.event \notin sending /\ ~Queued(running)

WrittenLast ==
  \A s \in Sockets : \A n \in Event : Written(s, n) =>
    /\ Known(n) /\ n \notin sending /\ ~Queued(Send(n))
    /\ ~(running = Send(n) /\ s \in todo)

Places == SentOnce /\ QueuedOnce /\ RunOnce /\ WrittenLast
Inv == TInv /\ RemovalBehind /\ NoDeadConn /\ Places /\ WrittenOnce

-----------------------------------------------------------------------------
(* Closures of different operations differ.                                *)
LEMMA OpsDiffer ==
  /\ \A s \in Sockets : Add(s).op = "add" /\ Add(s) \in Ops
  /\ \A s \in Sockets : Ping(s).op = "ping" /\ Ping(s) \in Ops
  /\ \A s \in Sockets : Remove(s).op = "remove" /\ Remove(s) \in Ops
  /\ \A n \in Event : Send(n).op = "event" /\ Send(n) \in Ops
  /\ Nothing.op = "none"
BY DEF Add, Ping, Remove, Send, Nothing, Ops

(* A closure for an event is the one that sends that event.                *)
LEMMA EventOps ==
  ASSUME NEW op \in {Nothing} \cup Ops, op.op = "event"
  PROVE  op.event \in Event /\ op = Send(op.event)
BY DEF Add, Ping, Remove, Send, Nothing, Ops

LEMMA SendInjective ==
  ASSUME NEW m, NEW n, Send(m) = Send(n)
  PROVE  m = n
<1>1. Send(m).event = m /\ Send(n).event = n
  BY DEF Send
<1> QED BY <1>1

(* What a send on the channel adds is the last closure, and nothing else.  *)
LEMMA EnqueueAdds ==
  ASSUME ops \in Seq(Ops), NEW op \in Ops, Enqueue(op)
  PROVE  /\ ops' \in Seq(Ops)
         /\ Len(ops') = Len(ops) + 1
         /\ \A k \in 1 .. Len(ops) : ops'[k] = ops[k]
         /\ ops'[Len(ops')] = op
         /\ \A x : Queued(x)' <=> (Queued(x) \/ x = op)
<1>1. /\ ops' \in Seq(Ops)
      /\ Len(ops') = Len(ops) + 1
      /\ \A k \in 1 .. Len(ops) : ops'[k] = ops[k]
      /\ ops'[Len(ops')] = op
  BY DEF Enqueue
<1>2. ASSUME NEW x PROVE Queued(x)' <=> (Queued(x) \/ x = op)
  <2>1. Len(ops) \in Nat
    OBVIOUS
  <2> QED BY <1>1, <2>1 DEF Queued
<1> QED BY <1>1, <1>2

(* What is behind a closure of the channel stays there after a send.       *)
LEMMA EnqueueBehind ==
  ASSUME ops \in Seq(Ops), NEW op \in Ops, Enqueue(op),
         NEW k \in 1 .. Len(ops), NEW x,
         \E j \in (k + 1) .. Len(ops) : ops[j] = x
  PROVE  \E j \in (k + 1) .. Len(ops') : ops'[j] = x
<1>1. PICK j \in (k + 1) .. Len(ops) : ops[j] = x
  OBVIOUS
<1>2. Len(ops) \in Nat
  OBVIOUS
<1>3. Len(ops') = Len(ops) + 1 /\ \A i \in 1 .. Len(ops) : ops'[i] = ops[i]
  BY EnqueueAdds
<1>4. j \in 1 .. Len(ops) /\ j \in (k + 1) .. Len(ops')
  BY <1>2, <1>3
<1> QED BY <1>1, <1>3, <1>4

(* What the loop receives is the first closure; the others move up.        *)
LEMMA TailShifts ==
  ASSUME ops \in Seq(Ops), ops # <<>>, ops' = Tail(ops)
  PROVE  /\ ops' \in Seq(Ops)
         /\ Len(ops') = Len(ops) - 1
         /\ Len(ops) \in Nat \ {0}
         /\ Head(ops) = ops[1]
         /\ Head(ops) \in Ops
         /\ \A k \in 1 .. Len(ops') : ops'[k] = ops[k + 1]
         /\ \A x : Queued(x)' => Queued(x)
         /\ \A x : Queued(x) => Queued(x)' \/ x = Head(ops)
<1>1. /\ ops' \in Seq(Ops)
      /\ Len(ops') = Len(ops) - 1
      /\ Len(ops) \in Nat \ {0}
      /\ Head(ops) = ops[1]
      /\ Head(ops) \in Ops
      /\ \A k \in 1 .. Len(ops') : ops'[k] = ops[k + 1]
  OBVIOUS
<1>2. ASSUME NEW x, Queued(x)' PROVE Queued(x)
  <2>1. PICK k \in 1 .. Len(ops') : ops'[k] = x
    BY <1>2 DEF Queued
  <2>2. k + 1 \in 1 .. Len(ops) /\ ops[k + 1] = x
    BY <1>1, <2>1
  <2> QED BY <2>2 DEF Queued
<1>3. ASSUME NEW x, Queued(x), x # Head(ops) PROVE Queued(x)'
  <2>1. PICK k \in 1 .. Len(ops) : ops[k] = x
    BY <1>3 DEF Queued
  <2>2. k - 1 \in 1 .. Len(ops') /\ ops'[k - 1] = x
    BY <1>1, <1>3, <2>1
  <2> QED BY <2>2 DEF Queued
<1> QED BY <1>1, <1>2, <1>3

LEMMA InitInv == Init => Inv
<1> SUFFICES ASSUME Init PROVE Inv
  OBVIOUS
<1>1. TInv
  BY DEF Init, TInv
<1>2. ops = <<>> /\ Len(ops) = 0
  BY DEF Init
<1>3. RemovalBehind /\ NoDeadConn
  BY <1>2 DEF Init, RemovalBehind, NoDeadConn
<1>4. Places
  BY <1>2 DEF Init, Places, SentOnce, QueuedOnce, RunOnce, WrittenLast, Queued,
              Written, Nothing
<1>5. WrittenOnce
  BY DEF Init, WrittenOnce
<1> QED BY <1>1, <1>3, <1>4, <1>5 DEF Inv

-----------------------------------------------------------------------------
(* Handlers send closures that are not for events: every event stays where *)
(* it is.                                                                  *)
LEMMA HandlerSends ==
  ASSUME TInv, Places, NEW op \in Ops, op.op # "event", Enqueue(op),
         UNCHANGED <<taken, sending, running, todo, written>>
  PROVE  Places'
<1>1. /\ Len(ops) \in Nat /\ Len(ops') = Len(ops) + 1
      /\ \A k \in 1 .. Len(ops) : ops'[k] = ops[k]
      /\ ops'[Len(ops')] = op
      /\ \A x : Queued(x)' <=> (Queued(x) \/ x = op)
  <2>1. ops \in Seq(Ops)
    BY DEF TInv
  <2>2. Len(ops) \in Nat
    BY <2>1
  <2> QED BY <2>1, <2>2, EnqueueAdds
<1>2. \A n : Send(n) # op
  BY DEF Send
<1>3. \A n : Queued(Send(n))' <=> Queued(Send(n))
  BY <1>1, <1>2
<1>4. SentOnce'
  BY <1>3 DEF Places, SentOnce, Known
<1>5. QueuedOnce'
  <2>1. \A n \in Event : Queued(Send(n))' => Known(n)'
    BY <1>3 DEF Places, QueuedOnce, Known
  <2>2. \A k \in 1 .. Len(ops') : ops'[k].op = "event" =>
          k \in 1 .. Len(ops) /\ ops'[k] = ops[k]
    BY <1>1
  <2>3. \A j, k \in 1 .. Len(ops') :
          ops'[j].op = "event" /\ ops'[j] = ops'[k] => j = k
    BY <2>2 DEF Places, QueuedOnce
  <2> QED BY <2>1, <2>3 DEF QueuedOnce
<1>6. RunOnce'
  <2> SUFFICES ASSUME running.op = "event"
               PROVE  /\ Known(running.event) /\ running.event \notin sending
                      /\ ~Queued(running)'
    BY DEF RunOnce, Known
  <2>1. running = Send(running.event)
    BY EventOps DEF TInv
  <2> QED BY <2>1, <1>3 DEF Places, RunOnce
<1>7. WrittenLast'
  BY <1>3 DEF Places, WrittenLast, Written, Known
<1> QED BY <1>4, <1>5, <1>6, <1>7 DEF Places

(* Nothing a handler does moves an event, or fills the table.              *)
LEMMA HandlerStep ==
  ASSUME Inv, NEW s \in Sockets,
         Forward(s) \/ PingConn(s) \/ Invalidate(s) \/ Disconnect(s) \/ Stall(s)
  PROVE  Inv'
<1> USE DEF Inv
<1>1. UNCHANGED <<conns, running, taken, sending, todo, written>>
  BY DEF Forward, AddConn, Greet, Leave, RemoveConn, PingConn, Invalidate,
         Disconnect, Stall, loopVars
<1>2. CASE AddConn(s)
  <2>1. Add(s) \in Ops /\ Add(s).op # "event" /\ Enqueue(Add(s))
    BY <1>2, OpsDiffer DEF AddConn
  <2>2. TInv'
    BY <1>1, <1>2, <2>1, EnqueueAdds DEF TInv, AddConn, Step
  <2>3. RemovalBehind'
    <3> SUFFICES ASSUME NEW t \in Sockets, pc'[t] = "returned",
                        NEW k \in 1 .. Len(ops'), ops'[k] = Add(t)
                 PROVE  \E j \in (k + 1) .. Len(ops') : ops'[j] = Remove(t)
      BY DEF RemovalBehind
    <3>1. t # s /\ pc[t] = "returned"
      BY <1>2 DEF AddConn, Step, TInv
    <3>2. Add(t) # Add(s)
      <4>1. Add(t).socket = t /\ Add(s).socket = s
        BY DEF Add
      <4> QED BY <3>1, <4>1
    <3>3. k \in 1 .. Len(ops) /\ ops[k] = Add(t)
      BY <3>2, <2>1, EnqueueAdds DEF TInv
    <3>4. \E j \in (k + 1) .. Len(ops) : ops[j] = Remove(t)
      BY <3>1, <3>3 DEF RemovalBehind
    <3> QED BY <3>3, <3>4, <2>1, EnqueueBehind DEF TInv
  <2>4. NoDeadConn'
    BY <1>1, <1>2, <2>1, EnqueueAdds DEF NoDeadConn, AddConn, Step, TInv
  <2>5. Places'
    BY <1>1, <2>1, HandlerSends
  <2> QED BY <1>1, <2>2, <2>3, <2>4, <2>5 DEF WrittenOnce
<1>3. CASE RemoveConn(s)
  <2>1. Remove(s) \in Ops /\ Remove(s).op = "remove" /\ Enqueue(Remove(s))
    BY <1>3, OpsDiffer DEF RemoveConn
  <2>2. TInv'
    BY <1>1, <1>3, <2>1, EnqueueAdds DEF TInv, RemoveConn, Step
  <2>3. RemovalBehind'
    <3> SUFFICES ASSUME NEW t \in Sockets, pc'[t] = "returned",
                        NEW k \in 1 .. Len(ops'), ops'[k] = Add(t)
                 PROVE  \E j \in (k + 1) .. Len(ops') : ops'[j] = Remove(t)
      BY DEF RemovalBehind
    <3>1. k \in 1 .. Len(ops) /\ ops[k] = Add(t) /\ Len(ops) \in Nat
      BY <2>1, OpsDiffer, EnqueueAdds DEF TInv
    <3>2. CASE t = s
      <4>1. Len(ops') \in (k + 1) .. Len(ops') /\ ops'[Len(ops')] = Remove(s)
        BY <2>1, <3>1, EnqueueAdds DEF TInv
      <4> QED BY <3>2, <4>1
    <3>3. CASE t # s
      <4>1. pc[t] = "returned"
        BY <1>3, <3>3 DEF RemoveConn, Step, TInv
      <4>2. \E j \in (k + 1) .. Len(ops) : ops[j] = Remove(t)
        BY <3>1, <4>1 DEF RemovalBehind
      <4> QED BY <3>1, <4>2, <2>1, EnqueueBehind DEF TInv
    <3> QED BY <3>2, <3>3
  <2>4. NoDeadConn'
    BY <1>1, <1>3, <2>1, EnqueueAdds DEF NoDeadConn, RemoveConn, Step, TInv
  <2>5. Places'
    BY <1>1, <2>1, HandlerSends
  <2> QED BY <1>1, <2>2, <2>3, <2>4, <2>5 DEF WrittenOnce
<1>4. CASE PingConn(s)
  <2>1. Ping(s) \in Ops /\ Ping(s).op = "ping" /\ Enqueue(Ping(s))
    BY <1>4, OpsDiffer DEF PingConn
  <2>2. pc' = pc
    BY <1>4 DEF PingConn, Step, TInv
  <2>3. TInv'
    BY <1>1, <2>1, <2>2, EnqueueAdds DEF TInv
  <2>4. RemovalBehind'
    <3> SUFFICES ASSUME NEW t \in Sockets, pc[t] = "returned",
                        NEW k \in 1 .. Len(ops'), ops'[k] = Add(t)
                 PROVE  \E j \in (k + 1) .. Len(ops') : ops'[j] = Remove(t)
      BY <2>2 DEF RemovalBehind
    <3>1. k \in 1 .. Len(ops) /\ ops[k] = Add(t)
      BY <2>1, OpsDiffer, EnqueueAdds DEF TInv
    <3>2. \E j \in (k + 1) .. Len(ops) : ops[j] = Remove(t)
      BY <3>1 DEF RemovalBehind
    <3> QED BY <3>1, <3>2, <2>1, EnqueueBehind DEF TInv
  <2>5. NoDeadConn'
    BY <1>1, <2>1, <2>2, EnqueueAdds DEF NoDeadConn, TInv
  <2>6. Places'
    BY <1>1, <2>1, HandlerSends
  <2> QED BY <1>1, <2>3, <2>4, <2>5, <2>6 DEF WrittenOnce
<1>5. CASE Greet(s) \/ Leave(s) \/ Invalidate(s) \/ Disconnect(s) \/ Stall(s)
  <2>1. /\ ops' = ops
        /\ pc' \in [Sockets -> {"new", "greet", "select", "leave", "returned"}]
        /\ \A t \in Sockets : pc'[t] = "returned" => pc[t] = "returned"
    BY <1>5 DEF Greet, Leave, Invalidate, Disconnect, Stall, Step, TInv
  <2>2. TInv' /\ RemovalBehind' /\ NoDeadConn'
    BY <1>1, <2>1 DEF TInv, RemovalBehind, NoDeadConn, Queued
  <2>3. Places' /\ WrittenOnce'
    BY <1>1, <2>1 DEF Places, SentOnce, QueuedOnce, RunOnce, WrittenLast,
                      Written, Known, Queued, WrittenOnce
  <2> QED BY <2>2, <2>3
<1> QED BY <1>2, <1>3, <1>4, <1>5 DEF Forward

-----------------------------------------------------------------------------
(* The loop takes an event, the number of which nobody has seen.           *)
LEMMA TakeEventStep == Inv /\ TakeEvent => Inv'
<1> SUFFICES ASSUME Inv, TakeEvent PROVE Inv'
  OBVIOUS
<1> USE DEF Inv
<1>1. /\ UNCHANGED <<pc, conns, ops, running, todo, written>>
      /\ taken' = taken + 1 /\ sending' = sending \cup {taken + 1}
      /\ running = Nothing /\ taken \in Nat
  BY DEF TakeEvent, AtSelect, handlers, loopVars, TInv
<1>2. TInv' /\ RemovalBehind' /\ NoDeadConn' /\ WrittenOnce'
  <2>1. TInv'
    BY <1>1 DEF TInv
  <2>2. RemovalBehind'
    BY <1>1 DEF RemovalBehind
  <2>3. NoDeadConn'
    BY <1>1 DEF NoDeadConn, Queued
  <2>4. WrittenOnce'
    BY <1>1 DEF WrittenOnce
  <2> QED BY <2>1, <2>2, <2>3, <2>4
<1>3. /\ \A n : Known(n) => Known(n)'
      /\ taken + 1 \in 1 .. taken' /\ ~Known(taken + 1)
  <2>1. 1 .. taken \subseteq 1 .. taken'
    BY <1>1
  <2>2. taken + 1 \in 1 .. taken' /\ taken + 1 \notin 1 .. taken
    BY <1>1
  <2> QED BY <2>1, <2>2 DEF Known
<1>4. SentOnce'
  <2>1. ~Queued(Send(taken + 1))
    <3> SUFFICES ASSUME Queued(Send(taken + 1)) PROVE FALSE
      OBVIOUS
    <3>1. PICK k \in 1 .. Len(ops) : ops[k] = Send(taken + 1)
      BY DEF Queued
    <3>2. ops[k] \in Ops
      BY <3>1 DEF TInv
    <3>3. Send(taken + 1).op = "event" /\ Send(taken + 1).event = taken + 1
      BY DEF Send
    <3>4. taken + 1 \in Event
      BY <3>1, <3>2, <3>3, EventOps
    <3> QED BY <3>4, <1>3 DEF Places, QueuedOnce
  <2>2. \A n \in sending' : n \in 1 .. taken' /\ ~Queued(Send(n))
    BY <2>1, <1>1, <1>3 DEF Places, SentOnce, Known
  <2> QED BY <2>2, <1>1 DEF SentOnce, Queued, Known
<1>5. QueuedOnce' /\ RunOnce'
  BY <1>1, <1>3, OpsDiffer DEF Places, QueuedOnce, RunOnce, Queued
<1>6. WrittenLast'
  <2> SUFFICES ASSUME NEW s \in Sockets, NEW n \in Event, Written(s, n)
               PROVE  /\ Known(n)' /\ n \notin sending' /\ ~Queued(Send(n))'
                      /\ ~(running = Send(n) /\ s \in todo)
    BY <1>1 DEF WrittenLast, Written
  <2>1. /\ Known(n) /\ n \notin sending /\ ~Queued(Send(n))
        /\ ~(running = Send(n) /\ s \in todo)
    BY DEF Places, WrittenLast
  <2> QED BY <2>1, <1>1, <1>3 DEF Queued
<1> QED BY <1>2, <1>4, <1>5, <1>6 DEF Places

(* The goroutine of event n sends its closure and ends.                    *)
LEMMA ProcessStep ==
  ASSUME Inv, NEW n \in Event, Process(n)
  PROVE  Inv'
<1> USE DEF Inv
<1>1. /\ UNCHANGED <<pc, conns, running, todo, written, taken>>
      /\ n \in sending /\ sending' = sending \ {n}
      /\ Enqueue(Send(n)) /\ Send(n) \in Ops /\ Send(n).op = "event"
  BY OpsDiffer DEF Process, handlers, loopVars
<1>2. /\ ops' \in Seq(Ops) /\ Len(ops) \in Nat /\ Len(ops') = Len(ops) + 1
      /\ \A k \in 1 .. Len(ops) : ops'[k] = ops[k]
      /\ ops'[Len(ops')] = Send(n)
      /\ \A x : Queued(x)' <=> (Queued(x) \/ x = Send(n))
  <2>1. ops \in Seq(Ops)
    BY DEF TInv
  <2> QED BY <2>1, <1>1, EnqueueAdds
<1>3. TInv'
  BY <1>1, <1>2 DEF TInv
<1>4. RemovalBehind'
  <2> SUFFICES ASSUME NEW t \in Sockets, pc[t] = "returned",
                      NEW k \in 1 .. Len(ops'), ops'[k] = Add(t)
               PROVE  \E j \in (k + 1) .. Len(ops') : ops'[j] = Remove(t)
    BY <1>1 DEF RemovalBehind
  <2>1. k \in 1 .. Len(ops) /\ ops[k] = Add(t)
    BY <1>1, <1>2, OpsDiffer
  <2>2. \E j \in (k + 1) .. Len(ops) : ops[j] = Remove(t)
    BY <2>1 DEF RemovalBehind
  <2> QED BY <2>1, <2>2, <1>1, EnqueueBehind DEF TInv
<1>5. NoDeadConn'
  BY <1>1, <1>2 DEF NoDeadConn
<1>6. /\ Known(n) /\ ~Queued(Send(n))
      /\ \A m : Send(m) = Send(n) => m = n
  BY <1>1, SendInjective DEF Places, SentOnce
<1>7. SentOnce'
  BY <1>1, <1>2, <1>6 DEF Places, SentOnce, Known
<1>8. QueuedOnce'
  <2>1. \A m \in Event : Queued(Send(m))' => Known(m)'
    BY <1>1, <1>2, <1>6 DEF Places, QueuedOnce, Known
  <2>2. \A k \in 1 .. Len(ops) : ops'[k] # Send(n)
    BY <1>2, <1>6 DEF Queued
  <2>3. \A k \in 1 .. Len(ops') : k \in 1 .. Len(ops) \/ k = Len(ops')
    BY <1>2
  <2>4. \A j, k \in 1 .. Len(ops') :
          ops'[j].op = "event" /\ ops'[j] = ops'[k] => j = k
    <3> SUFFICES ASSUME NEW j \in 1 .. Len(ops'), NEW k \in 1 .. Len(ops'),
                        ops'[j].op = "event", ops'[j] = ops'[k]
                 PROVE  j = k
      OBVIOUS
    <3>1. CASE j \in 1 .. Len(ops) /\ k \in 1 .. Len(ops)
      BY <3>1, <1>2 DEF Places, QueuedOnce
    <3>2. CASE j = Len(ops') \/ k = Len(ops')
      BY <3>2, <1>2, <2>2, <2>3
    <3> QED BY <3>1, <3>2, <2>3
  <2> QED BY <2>1, <2>4 DEF QueuedOnce
<1>9. RunOnce'
  <2> SUFFICES ASSUME running.op = "event"
               PROVE  /\ Known(running.event) /\ running.event \notin sending'
                      /\ ~Queued(running)'
    BY <1>1 DEF RunOnce, Known
  <2>1. running.event \notin sending /\ ~Queued(running) /\ Known(running.event)
    BY DEF Places, RunOnce
  <2>2. running # Send(n)
    <3>1. Send(n).event = n
      BY DEF Send
    <3> QED BY <3>1, <2>1, <1>1
  <2> QED BY <2>1, <2>2, <1>1, <1>2
<1>10. WrittenLast'
  <2> SUFFICES ASSUME NEW s \in Sockets, NEW m \in Event, Written(s, m)
               PROVE  /\ Known(m) /\ m \notin sending' /\ ~Queued(Send(m))'
                      /\ ~(running = Send(m) /\ s \in todo)
    BY <1>1 DEF WrittenLast, Written, Known
  <2>1. /\ Known(m) /\ m \notin sending /\ ~Queued(Send(m))
        /\ ~(running = Send(m) /\ s \in todo)
    BY DEF Places, WrittenLast
  <2>2. m # n
    BY <2>1, <1>1
  <2> QED BY <2>1, <2>2, <1>1, <1>2, <1>6
<1>11. WrittenOnce'
  BY <1>1 DEF WrittenOnce
<1> QED BY <1>3, <1>4, <1>5, <1>7, <1>8, <1>9, <1>10, <1>11 DEF Places

-----------------------------------------------------------------------------
(* The loop runs the first closure of the channel.                         *)
LEMMA TakeOpStep == Inv /\ TakeOp => Inv'
<1> SUFFICES ASSUME Inv, TakeOp PROVE Inv'
  OBVIOUS
<1> USE DEF Inv
<1>op. PICK op : op = Head(ops)
  OBVIOUS
<1>1. /\ UNCHANGED <<pc, written, taken, sending>>
      /\ running = Nothing /\ ops # <<>> /\ ops' = Tail(ops)
  BY DEF TakeOp, AtSelect, handlers
<1>2. /\ ops' \in Seq(Ops) /\ Len(ops) \in Nat \ {0} /\ Len(ops') = Len(ops) - 1
      /\ op = ops[1] /\ op \in Ops
      /\ \A k \in 1 .. Len(ops') : ops'[k] = ops[k + 1]
      /\ \A x : Queued(x)' => Queued(x)
      /\ \A x : Queued(x) => Queued(x)' \/ x = op
  <2>1. ops \in Seq(Ops)
    BY DEF TInv
  <2> QED BY <2>1, <1>1, <1>op, TailShifts
<1>3. \/ /\ op.op = "add" /\ UNCHANGED <<running, todo>>
         /\ conns' = [conns EXCEPT ![Addr[op.socket]] = op.socket]
      \/ /\ op.op = "remove" /\ UNCHANGED <<running, todo>>
         /\ conns' = [conns EXCEPT ![op.addr] = None]
      \/ op.op \in {"event", "ping"} /\ running' = op /\ UNCHANGED conns
  BY <1>op DEF TakeOp
<1>4. /\ op.op = "add" => op.socket \in Sockets /\ op = Add(op.socket)
      /\ op.op = "remove" => \E s \in Sockets : op = Remove(s) /\ op.addr = Addr[s]
  BY <1>2 DEF Ops, Add, Ping, Remove, Send
<1>5. TInv'
  <2>1. conns' \in [Addrs -> Sockets \cup {None}]
    BY <1>3, <1>4 DEF TInv
  <2> QED BY <2>1, <1>1, <1>2, <1>3 DEF TInv
<1>6. RemovalBehind'
  <2> SUFFICES ASSUME NEW t \in Sockets, pc[t] = "returned",
                      NEW k \in 1 .. Len(ops'), ops'[k] = Add(t)
               PROVE  \E j \in (k + 1) .. Len(ops') : ops'[j] = Remove(t)
    BY <1>1 DEF RemovalBehind
  <2>1. k + 1 \in 1 .. Len(ops) /\ ops[k + 1] = Add(t)
    BY <1>2
  <2>2. PICK j \in (k + 2) .. Len(ops) : ops[j] = Remove(t)
    BY <2>1 DEF RemovalBehind
  <2>3. j - 1 \in (k + 1) .. Len(ops') /\ ops'[j - 1] = ops[j]
    BY <2>2, <1>2
  <2> QED BY <2>2, <2>3
<1>7. NoDeadConn'
  <2> SUFFICES ASSUME NEW s \in Sockets, pc[s] = "returned", conns'[Addr[s]] = s
               PROVE  Queued(Remove(s))'
    BY <1>1 DEF NoDeadConn
  <2>1. Addr[s] \in Addrs /\ s # None
    BY NoneAssumption DEF Addrs
  <2>2. CASE conns[Addr[s]] = s
    <3>1. Queued(Remove(s))
      BY <2>2 DEF NoDeadConn
    <3>2. SUFFICES ASSUME op = Remove(s) PROVE FALSE
      BY <3>1, <1>2
    <3>3. op.op = "remove" /\ op.addr = Addr[s]
      BY <3>2 DEF Remove
    <3>4. conns'[Addr[s]] = None
      BY <3>3, <1>3, <2>1 DEF TInv
    <3> QED BY <3>4, <2>1
  <2>3. CASE conns[Addr[s]] # s
    <3>1. op = Add(s)
      BY <2>1, <2>3, <1>3, <1>4 DEF TInv
    <3>2. PICK j \in (1 + 1) .. Len(ops) : ops[j] = Remove(s)
      <4>1. 1 \in 1 .. Len(ops) /\ ops[1] = Add(s)
        BY <3>1, <1>2
      <4> QED BY <4>1 DEF RemovalBehind
    <3>3. j - 1 \in 1 .. Len(ops') /\ ops'[j - 1] = Remove(s)
      BY <3>2, <1>2
    <3> QED BY <3>3 DEF Queued
  <2> QED BY <2>2, <2>3
<1>8. SentOnce'
  BY <1>1, <1>2 DEF Places, SentOnce, Known
<1>9. QueuedOnce'
  <2>1. \A n \in Event : Queued(Send(n))' => Known(n)'
    BY <1>1, <1>2 DEF Places, QueuedOnce, Known
  <2>2. \A j, k \in 1 .. Len(ops') :
          ops'[j].op = "event" /\ ops'[j] = ops'[k] => j = k
    BY <1>2 DEF Places, QueuedOnce
  <2> QED BY <2>1, <2>2 DEF QueuedOnce
<1>10. running'.op = "event" => running' = op /\ op.op = "event"
  BY <1>1, <1>3, OpsDiffer
<1>11. op.op = "event" => op.event \in Event /\ op = Send(op.event) /\ Queued(op)
  BY <1>2, EventOps DEF Queued
<1>12. RunOnce'
  <2> SUFFICES ASSUME op.op = "event"
               PROVE  /\ Known(op.event) /\ op.event \notin sending
                      /\ ~Queued(op)'
    BY <1>1, <1>10 DEF RunOnce, Known, Queued
  <2>1. Known(op.event) /\ op.event \notin sending
    BY <1>11 DEF Places, QueuedOnce, SentOnce
  <2>2. ASSUME NEW k \in 1 .. Len(ops'), ops'[k] = op PROVE FALSE
    <3>1. k + 1 \in 1 .. Len(ops) /\ 1 \in 1 .. Len(ops) /\ ops[k + 1] = ops[1]
      BY <2>2, <1>2
    <3>2. k + 1 = 1
      BY <3>1, <1>2 DEF Places, QueuedOnce
    <3> QED BY <3>2, <1>2
  <2> QED BY <2>1, <2>2 DEF Queued
<1>13. WrittenLast'
  <2> SUFFICES ASSUME NEW s \in Sockets, NEW n \in Event, Written(s, n)
               PROVE  /\ Known(n) /\ n \notin sending /\ ~Queued(Send(n))'
                      /\ running' # Send(n)
    BY <1>1 DEF WrittenLast, Written, Known
  <2>1. Known(n) /\ n \notin sending /\ ~Queued(Send(n))
    BY DEF Places, WrittenLast
  <2>2. running' # Send(n)
    BY <2>1, <1>10, <1>11, OpsDiffer
  <2> QED BY <2>1, <2>2, <1>2
<1>14. WrittenOnce'
  BY <1>1 DEF WrittenOnce
<1> QED BY <1>5, <1>6, <1>7, <1>8, <1>9, <1>12, <1>13, <1>14 DEF Places

(* The running closure deals with one connection.                          *)
LEMMA DealStep ==
  ASSUME Inv, NEW s \in Sockets, Deal(s)
  PROVE  Inv'
<1> USE DEF Inv
<1>1. /\ UNCHANGED <<pc, conns, ops, running, taken, sending>>
      /\ s \in todo /\ todo' = todo \ {s}
      /\ \/ written' = written
         \/ /\ Concerns(s) /\ running.op = "event"
            /\ written' = [written EXCEPT ![s] = Append(@, running.event)]
  BY DEF Deal, handlers
<1>2. CASE written' = written
  BY <1>1, <1>2 DEF TInv, RemovalBehind, NoDeadConn, Queued, Places, SentOnce,
                    QueuedOnce, RunOnce, WrittenLast, Written, Known, WrittenOnce
<1>3. CASE /\ Concerns(s) /\ running.op = "event"
           /\ written' = [written EXCEPT ![s] = Append(@, running.event)]
  <2> DEFINE m == running.event
  <2>1. m \in Event /\ running = Send(m) /\ m \in Entitled[s]
    BY <1>3, EventOps DEF TInv, Concerns
  <2>2. Known(m) /\ m \notin sending /\ ~Queued(Send(m)) /\ ~Written(s, m)
    BY <1>1, <1>3, <2>1 DEF Places, RunOnce, WrittenLast
  <2>3. /\ written'[s] = Append(written[s], m)
        /\ written[s] \in Seq(Event) /\ written' \in [Sockets -> Seq(Event)]
        /\ \A t \in Sockets \ {s} : written'[t] = written[t]
    BY <1>3, <2>1 DEF TInv
  <2> HIDE DEF m
  <2>4. /\ Len(written[s]) \in Nat /\ Len(written'[s]) = Len(written[s]) + 1
        /\ \A k \in 1 .. Len(written[s]) : written'[s][k] = written[s][k]
        /\ written'[s][Len(written[s]) + 1] = m
    BY <2>1, <2>3
  <2>5. \A t \in Sockets : \A n : Written(t, n)' => Written(t, n) \/ (t = s /\ n = m)
    <3> SUFFICES ASSUME NEW t \in Sockets, NEW n, Written(t, n)'
                 PROVE  Written(t, n) \/ (t = s /\ n = m)
      OBVIOUS
    <3>1. CASE t = s
      <4>1. PICK k \in 1 .. Len(written'[s]) : written'[s][k] = n
        BY <3>1 DEF Written
      <4>2. CASE k \in 1 .. Len(written[s])
        BY <3>1, <4>1, <4>2, <2>4 DEF Written
      <4>3. CASE k = Len(written[s]) + 1
        BY <3>1, <4>1, <4>3, <2>4
      <4> QED BY <4>2, <4>3, <2>4
    <3>2. CASE t # s
      BY <3>2, <2>3 DEF Written
    <3> QED BY <3>1, <3>2
  <2>6. TInv' /\ RemovalBehind' /\ NoDeadConn'
    BY <1>1, <2>3 DEF TInv, RemovalBehind, NoDeadConn, Queued
  <2>7. SentOnce' /\ QueuedOnce' /\ RunOnce'
    BY <1>1 DEF Places, SentOnce, QueuedOnce, RunOnce, Known, Queued
  <2>8. WrittenLast'
    <3> SUFFICES ASSUME NEW t \in Sockets, NEW n \in Event, Written(t, n)'
                 PROVE  /\ Known(n) /\ n \notin sending /\ ~Queued(Send(n))
                        /\ ~(running = Send(n) /\ t \in todo \ {s})
      BY <1>1 DEF WrittenLast, Known, Queued
    <3>1. CASE Written(t, n)
      BY <3>1 DEF Places, WrittenLast
    <3>2. CASE t = s /\ n = m
      BY <3>2, <2>2
    <3> QED BY <3>1, <3>2, <2>5
  <2>9. WrittenOnce'
    <3>1. \A t \in Sockets \ {s} :
            /\ \A j, k \in 1 .. Len(written'[t]) :
                 written'[t][j] = written'[t][k] => j = k
            /\ \A k \in 1 .. Len(written'[t]) : written'[t][k] \in Entitled[t]
      BY <2>3 DEF WrittenOnce
    <3>2. \A k \in 1 .. Len(written[s]) : written[s][k] # m
      BY <2>2 DEF Written
    <3>3. \A k \in 1 .. Len(written'[s]) :
            k \in 1 .. Len(written[s]) \/ k = Len(written[s]) + 1
      BY <2>4
    <3>4. \A j, k \in 1 .. Len(written'[s]) :
            written'[s][j] = written'[s][k] => j = k
      <4> SUFFICES ASSUME NEW j \in 1 .. Len(written'[s]),
                          NEW k \in 1 .. Len(written'[s]),
                          written'[s][j] = written'[s][k]
                   PROVE  j = k
        OBVIOUS
      <4>1. CASE j \in 1 .. Len(written[s]) /\ k \in 1 .. Len(written[s])
        BY <4>1, <2>4 DEF WrittenOnce
      <4>2. CASE j = Len(written[s]) + 1 \/ k = Len(written[s]) + 1
        BY <4>2, <2>4, <3>2, <3>3
      <4> QED BY <4>1, <4>2, <3>3
    <3>5. \A k \in 1 .. Len(written'[s]) : written'[s][k] \in Entitled[s]
      BY <2>1, <2>4, <3>3 DEF WrittenOnce, m
    <3> QED BY <3>1, <3>4, <3>5 DEF WrittenOnce
  <2> QED BY <2>6, <2>7, <2>8, <2>9 DEF Places
<1> QED BY <1>1, <1>2, <1>3

-----------------------------------------------------------------------------
LEMMA NextInv == Inv /\ [Next]_vars => Inv'
<1>1. ASSUME Inv, NEW s \in Sockets,
             Forward(s) \/ PingConn(s) \/ Invalidate(s) \/ Disconnect(s)
               \/ Stall(s)
      PROVE  Inv'
  BY <1>1, HandlerStep
<1>2. ASSUME Inv, OpEnds PROVE Inv'
  BY <1>2, OpsDiffer DEF OpEnds, handlers, Inv, TInv, RemovalBehind, NoDeadConn,
     Queued, Places, SentOnce, QueuedOnce, RunOnce, WrittenLast, Written, Known,
     WrittenOnce
<1>3. ASSUME Inv, Cancel \/ Exit \/ UNCHANGED vars PROVE Inv'
  BY <1>3 DEF Cancel, Exit, vars, loopVars, handlers, Inv, TInv, RemovalBehind,
     NoDeadConn, Queued, Places, SentOnce, QueuedOnce, RunOnce, WrittenLast,
     Written, Known, WrittenOnce
<1> QED BY <1>1, <1>2, <1>3, ProcessStep, TakeEventStep, TakeOpStep, DealStep
        DEF Next, Working

LEMMA Invariance == Spec => []Inv
<1> QED BY InitInv, NextInv, PTL DEF Spec

(* For any number of sockets, with addresses of their own or shared: a     *)
(* handler that has returned leaves its connection in the table only while *)
(* its removal is in the channel (api/events.go:65, 223-227).              *)
THEOREM DeadConnsGo == Spec => []NoDeadConn
<1>1. Inv => NoDeadConn
  BY DEF Inv
<1> QED BY <1>1, Invariance, PTL

(* For any entitlements and any interleaving of the goroutines that send   *)
(* the events: no socket is written an event twice or one of others        *)
(* (api/events.go:167-194).                                                *)
THEOREM NoEventTwice == Spec => []WrittenOnce
<1>1. Inv => WrittenOnce
  BY DEF Inv
<1> QED BY <1>1, Invariance, PTL
=============================================================================
