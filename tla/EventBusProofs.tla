--------------------------- MODULE EventBusProofs ---------------------------
(***************************************************************************)
(* The safety properties of EventBus for every number of callers and       *)
(* listeners, every capacity and every bound on the writes.                *)
(***************************************************************************)
EXTENDS EventBus, TLAPS

-----------------------------------------------------------------------------
(* Facts about the sequences that stand for channels and histories.        *)

LEMMA LastElement ==
  ASSUME NEW S, NEW q \in Seq(S), Len(q) > 0
  PROVE  q[Len(q)] \in S
OBVIOUS

LEMMA AppendFacts ==
  ASSUME NEW S, NEW q \in Seq(S), NEW e \in S
  PROVE  /\ Append(q, e) \in Seq(S)
         /\ Len(Append(q, e)) = Len(q) + 1
         /\ \A i \in 1..Len(q) : Append(q, e)[i] = q[i]
         /\ Append(q, e)[Len(q) + 1] = e
OBVIOUS

LEMMA HeadTailFacts ==
  ASSUME NEW S, NEW q \in Seq(S), q # <<>>
  PROVE  /\ Head(q) \in S /\ Head(q) = q[1]
         /\ Tail(q) \in Seq(S)
         /\ Len(q) \in Nat \ {0}
         /\ Len(Tail(q)) = Len(q) - 1
         /\ \A i \in 1..Len(Tail(q)) : Tail(q)[i] = q[i + 1]
OBVIOUS

LEMMA ShiftOne ==
  ASSUME NEW a \in Nat, NEW b \in Nat, NEW i \in Nat
  PROVE  a + (b + 1) + i = a + b + (i + 1)
OBVIOUS

-----------------------------------------------------------------------------
USE DEF Events

(* While a Dispatch runs there is an event to send.                        *)
TInv == TypeOK /\ (next > 0 => Len(dispatched) > 0)

LEMMA InitTInv == Init => TInv
<1> SUFFICES ASSUME Init PROVE TInv
  OBVIOUS
<1> USE MaxWritesAssumption DEF Init
<1>1. committed \in Seq(Writes) /\ Len(committed) <= MaxWrites
  OBVIOUS
<1>2. call \in [Callers -> 0..MaxWrites] /\ reading \in [Listeners -> BOOLEAN]
  OBVIOUS
<1>3. stream \in [Listeners -> Seq(Events)]
      /\ received \in [Listeners -> Seq(Events)]
  OBVIOUS
<1>4. since \in [Listeners -> Int]
  OBVIOUS
<1>5. listeners \in Seq(Listeners) /\ dispatched \in Seq(Events)
  OBVIOUS
<1>6. next \in Nat /\ ~(next > 0)
  OBVIOUS
<1>7. exited \in BOOLEAN /\ cancelled \in BOOLEAN
  OBVIOUS
<1> QED BY <1>1, <1>2, <1>3, <1>4, <1>5, <1>6, <1>7 DEF TInv, TypeOK

(* The writes keep their types: each step of the bus, the callers and the  *)
(* listeners leaves every variable in its set.                             *)
LEMMA NextTInv == TInv /\ [Next]_vars => TInv'
<1> SUFFICES ASSUME TInv, [Next]_vars PROVE TInv'
  OBVIOUS
<1> USE MaxWritesAssumption DEF TInv
<1>1. ASSUME NEW c \in Callers, NEW op \in Ops, NEW new \in 0..1,
             Write(c, op, new)
      PROVE  TInv'
  BY <1>1 DEF TypeOK, Write, busVars, Writes
<1>2. ASSUME NEW c \in Callers, TakeDispatch(c) PROVE TInv'
  <2>1. call[c] \in Events
    BY <1>2 DEF TypeOK, TakeDispatch
  <2>2. dispatched' \in Seq(Events) /\ Len(dispatched') > 0
    BY <1>2, <2>1 DEF TypeOK, TakeDispatch
  <2>3. call' \in [Callers -> 0..MaxWrites]
    BY <1>2 DEF TypeOK, TakeDispatch
  <2> QED BY <1>2, <2>2, <2>3 DEF TypeOK, TakeDispatch
<1>3. ASSUME Send PROVE TInv'
  <2> DEFINE l == listeners[next]
             e == dispatched[Len(dispatched)]
  <2>1. l \in Listeners
    BY <1>3 DEF TypeOK, Send
  <2>2. e \in Events
    <3>1. next > 0 /\ dispatched \in Seq(Events)
      BY <1>3 DEF TypeOK, Send
    <3> QED BY <3>1
  <2>3. Append(stream[l], e) \in Seq(Events)
    BY <2>1, <2>2 DEF TypeOK
  <2>4. stream' = [stream EXCEPT ![l] = Append(@, e)] /\ next' = next + 1
    BY <1>3 DEF Send
  <2>5. stream' \in [Listeners -> Seq(Events)]
    BY <2>1, <2>3, <2>4 DEF TypeOK
  <2>6. next' \in Nat /\ Len(dispatched') > 0
    BY <1>3 DEF TypeOK, Send
  <2>7. UNCHANGED <<committed, call, listeners, exited, cancelled, reading,
                    dispatched, since, received>>
    BY <1>3 DEF Send
  <2> HIDE DEF l, e
  <2> QED BY <2>5, <2>6, <2>7 DEF TypeOK
<1>4. ASSUME EndDispatch PROVE TInv'
  BY <1>4 DEF TypeOK, EndDispatch
<1>5. ASSUME NEW l \in Listeners, Register(l) PROVE TInv'
  BY <1>5 DEF TypeOK, Register
<1>6. ASSUME NEW l \in Listeners, Receive(l) PROVE TInv'
  <2>1. Head(stream[l]) \in Events /\ Tail(stream[l]) \in Seq(Events)
    BY <1>6 DEF TypeOK, Receive
  <2>2. stream' \in [Listeners -> Seq(Events)]
    BY <1>6, <2>1 DEF TypeOK, Receive
  <2>3. received' \in [Listeners -> Seq(Events)]
    BY <1>6, <2>1 DEF TypeOK, Receive
  <2> QED BY <1>6, <2>2, <2>3 DEF TypeOK, Receive
<1>7. ASSUME NEW l \in Listeners, StopReading(l) PROVE TInv'
  BY <1>7 DEF TypeOK, StopReading, busVars
<1>8. ASSUME Cancel PROVE TInv'
  BY <1>8 DEF TypeOK, Cancel, busVars
<1>9. ASSUME LoopExit PROVE TInv'
  BY <1>9 DEF TypeOK, LoopExit
<1>10. ASSUME UNCHANGED vars PROVE TInv'
  BY <1>10 DEF TypeOK, vars
<1> QED
  BY <1>1, <1>2, <1>3, <1>4, <1>5, <1>6, <1>7, <1>8, <1>9, <1>10 DEF Next

-----------------------------------------------------------------------------
(* The payload's list holds the registered listeners, each once.            *)
Registered ==
  /\ \A i \in 1..Len(listeners) : since[listeners[i]] >= 0
  /\ \A l \in Listeners : since[l] >= 0 =>
       \E i \in 1..Len(listeners) : listeners[i] = l
  /\ \A i, j \in 1..Len(listeners) : listeners[i] = listeners[j] => i = j

(* A listener that has not registered has nothing.                          *)
Untouched ==
  \A l \in Listeners : since[l] < 0 =>
    since[l] = -1 /\ stream[l] = <<>> /\ received[l] = <<>>

(* No channel holds more than its capacity.                                 *)
WithinCapacity == \A l \in Listeners : Len(stream[l]) <= Capacity

(* The inductive invariant behind exact delivery.                           *)
DInv == TInv /\ Registered /\ Untouched /\ WithinCapacity /\ ExactSuffix

deliveryVars == <<listeners, stream, next, dispatched, since, received>>

LEMMA InitDInv == Init => DInv
<1> SUFFICES ASSUME Init PROVE DInv
  OBVIOUS
<1>1. TInv
  BY InitTInv
<1>2. Registered
  BY DEF Init, Registered
<1>3. Untouched
  BY DEF Init, Untouched
<1>4. WithinCapacity
  BY CapacityAssumption DEF Init, WithinCapacity
<1>5. ExactSuffix
  BY DEF Init, ExactSuffix
<1> QED BY <1>1, <1>2, <1>3, <1>4, <1>5 DEF DInv

(* Steps of the callers and of the context leave the delivery state alone.  *)
LEMMA DeliveryUnchanged ==
  ASSUME DInv, TInv', UNCHANGED deliveryVars
  PROVE  DInv'
<1>1. Registered' /\ Untouched' /\ WithinCapacity'
  BY DEF DInv, Registered, Untouched, WithinCapacity, deliveryVars
<1>2. ExactSuffix'
  BY DEF DInv, ExactSuffix, Due, InFlight, deliveryVars
<1> QED BY <1>1, <1>2 DEF DInv

(* The loop takes an event: every registered listener is now owed it.       *)
LEMMA TakeDispatchDInv ==
  ASSUME DInv, TInv', NEW c \in Callers, TakeDispatch(c)
  PROVE  DInv'
<1> USE DEF TakeDispatch, AtSelect
<1>1. Registered' /\ Untouched' /\ WithinCapacity'
  BY DEF DInv, Registered, Untouched, WithinCapacity
<1>2. ASSUME NEW l \in Listeners, since'[l] >= 0
      PROVE  /\ since'[l] + Len(received'[l]) + Len(stream'[l]) + Due(l)'
                  = Len(dispatched')
             /\ \A i \in 1..Len(received'[l]) :
                  received'[l][i] = dispatched'[since'[l] + i]
             /\ \A i \in 1..Len(stream'[l]) :
                  stream'[l][i] = dispatched'[since'[l] + Len(received'[l]) + i]
  <2>1. ~InFlight(l) /\ Due(l) = 0
    BY DEF InFlight, Due
  <2>2. InFlight(l)' /\ Due(l)' = 1
    BY <1>2 DEF DInv, Registered, InFlight, Due
  <2>3. /\ since[l] \in Nat /\ received[l] \in Seq(Events)
        /\ stream[l] \in Seq(Events) /\ dispatched \in Seq(Events)
    BY <1>2 DEF DInv, TInv, TypeOK
  <2>4. since[l] + Len(received[l]) + Len(stream[l]) = Len(dispatched)
    BY <1>2, <2>1, <2>3, SMTT(30) DEF DInv, ExactSuffix
  <2>5. /\ Len(dispatched') = Len(dispatched) + 1
        /\ \A i \in 1..Len(dispatched) : dispatched'[i] = dispatched[i]
    BY <2>3
  <2>6. /\ \A i \in 1..Len(received[l]) :
             received[l][i] = dispatched[since[l] + i]
        /\ \A i \in 1..Len(stream[l]) :
             stream[l][i] = dispatched[since[l] + Len(received[l]) + i]
    BY <1>2 DEF DInv, ExactSuffix
  <2>7. since'[l] = since[l] /\ received' = received /\ stream' = stream
    OBVIOUS
  <2>8. Len(received[l]) \in Nat /\ Len(stream[l]) \in Nat
        /\ Len(dispatched) \in Nat
    BY <2>3
  <2>9. \A i \in 1..Len(received[l]) : since[l] + i \in 1..Len(dispatched)
    BY <2>3, <2>4, <2>8
  <2>10. ASSUME NEW i \in 1..Len(stream[l])
         PROVE  since[l] + Len(received[l]) + i \in 1..Len(dispatched)
    BY <2>3, <2>4, <2>8, SMTT(60)
  <2> QED BY <2>2, <2>3, <2>4, <2>5, <2>6, <2>7, <2>9, <2>10
<1>3. ExactSuffix'
  BY <1>2 DEF ExactSuffix
<1> QED BY <1>1, <1>3 DEF DInv

(* The loop serves one stream: the event moves from owed to buffered.       *)
LEMMA SendDInv ==
  ASSUME DInv, TInv', Send
  PROVE  DInv'
<1>1. /\ stream \in [Listeners -> Seq(Events)]
      /\ received \in [Listeners -> Seq(Events)]
      /\ since \in [Listeners -> Int]
      /\ dispatched \in Seq(Events) /\ listeners \in Seq(Listeners)
      /\ next \in 1..Len(listeners)
  BY DEF Send, DInv, TInv, TypeOK
<1>0. PICK s \in Listeners : s = listeners[next] /\ since[s] >= 0
  BY <1>1, SMTT(30) DEF DInv, Registered
<1>3. PICK e \in Events : e = dispatched[Len(dispatched)]
  <2>1. next > 0
    BY <1>1
  <2>2. Len(dispatched) > 0
    BY <2>1 DEF DInv, TInv
  <2>3. dispatched[Len(dispatched)] \in Events
    BY <1>1, <2>2, LastElement
  <2> QED BY <2>3
<1>2. /\ stream' = [stream EXCEPT ![s] = Append(@, e)]
      /\ next' = next + 1 /\ Len(stream[s]) < Capacity
      /\ UNCHANGED <<listeners, dispatched, since, received>>
  BY <1>0, <1>3 DEF Send
<1>4. Registered'
  BY <1>2 DEF DInv, Registered
<1>5. Untouched'
  BY <1>0, <1>1, <1>2, SMTT(60) DEF DInv, Untouched
<1>6. Len(stream'[s]) = Len(stream[s]) + 1
  <2>1. stream[s] \in Seq(Events) /\ stream'[s] = Append(stream[s], e)
    BY <1>1, <1>2
  <2> QED BY <2>1, AppendFacts
<1>7. WithinCapacity'
  <2> SUFFICES ASSUME NEW l \in Listeners PROVE Len(stream'[l]) <= Capacity
    BY DEF WithinCapacity
  <2>1. CASE l = s
    BY <2>1, <1>0, <1>1, <1>2, <1>6, CapacityAssumption, SMTT(30)
  <2>2. CASE l # s
    BY <2>2, <1>1, <1>2 DEF DInv, WithinCapacity
  <2> QED BY <2>1, <2>2
<1>8. ASSUME NEW l \in Listeners, l # s PROVE InFlight(l)' <=> InFlight(l)
  <2>1. next \in Nat /\ Len(listeners) \in Nat /\ next >= 1
    BY <1>1
  <2>2. ASSUME NEW i \in next..Len(listeners), listeners[i] = l
        PROVE  i \in (next + 1)..Len(listeners)
    BY <1>0, <2>1, <2>2, <1>8
  <2> QED BY <2>1, <2>2, <1>2 DEF InFlight
<1>9. InFlight(s) /\ ~InFlight(s)'
  <2>1. next \in Nat /\ Len(listeners) \in Nat /\ next \in next..Len(listeners)
    BY <1>1
  <2>2. InFlight(s)
    BY <1>0, <1>1, <2>1 DEF InFlight
  <2>3. ASSUME NEW i \in (next + 1)..Len(listeners)
        PROVE  listeners[i] # s
    BY <1>0, <1>1, <2>1 DEF DInv, Registered
  <2>4. ~ \E i \in (next + 1)..Len(listeners) : listeners[i] = s
    BY <2>3
  <2>5. ~InFlight(s)'
    BY <2>4, <1>2 DEF InFlight
  <2> QED BY <2>2, <2>5
<1>10. ASSUME NEW l \in Listeners, since'[l] >= 0
       PROVE  /\ since'[l] + Len(received'[l]) + Len(stream'[l]) + Due(l)'
                   = Len(dispatched')
              /\ \A i \in 1..Len(received'[l]) :
                   received'[l][i] = dispatched'[since'[l] + i]
              /\ \A i \in 1..Len(stream'[l]) :
                   stream'[l][i] = dispatched'[since'[l] + Len(received'[l]) + i]
  <2>1. /\ since[l] + Len(received[l]) + Len(stream[l]) + Due(l)
             = Len(dispatched)
        /\ \A i \in 1..Len(received[l]) :
             received[l][i] = dispatched[since[l] + i]
        /\ \A i \in 1..Len(stream[l]) :
             stream[l][i] = dispatched[since[l] + Len(received[l]) + i]
    BY <1>2, <1>10 DEF DInv, ExactSuffix
  <2>2. CASE l # s
    <3>1. stream'[l] = stream[l] /\ Due(l)' = Due(l)
      BY <2>2, <1>1, <1>2, <1>8 DEF Due
    <3> QED BY <2>1, <3>1, <1>2
  <2>3. CASE l = s
    <3>1. Due(s) = 1 /\ Due(s)' = 0
      BY <1>9 DEF Due
    <3>2. /\ Len(received[s]) \in Nat /\ Len(stream[s]) \in Nat
          /\ since[s] \in Nat /\ Len(dispatched) \in Nat
      BY <1>0, <1>1, SMTT(30)
    <3>3. since[s] + Len(received[s]) + Len(stream[s]) + 1 = Len(dispatched)
      BY <2>1, <2>3, <3>1
    <3>4. /\ stream'[s] = Append(stream[s], e)
          /\ \A i \in 1..Len(stream[s]) : stream'[s][i] = stream[s][i]
          /\ stream'[s][Len(stream[s]) + 1] = e
      <4>1. stream[s] \in Seq(Events)
        BY <1>1
      <4>2. stream'[s] = Append(stream[s], e)
        BY <1>1, <1>2
      <4> QED BY <4>1, <4>2, AppendFacts
    <3>5. e = dispatched[since[s] + Len(received[s]) + (Len(stream[s]) + 1)]
      BY <1>3, <3>2, <3>3, SMTT(60)
    <3>6. ASSUME NEW i \in 1..Len(stream'[s])
          PROVE  stream'[s][i] = dispatched[since[s] + Len(received[s]) + i]
      <4>1. CASE i = Len(stream[s]) + 1
        BY <4>1, <3>4, <3>5
      <4>2. CASE i \in 1..Len(stream[s])
        BY <4>2, <3>4, <2>1, <2>3
      <4> QED BY <4>1, <4>2, <1>6, <3>2
    <3>7. since[s] + Len(received[s]) + Len(stream'[s]) = Len(dispatched)
      BY <3>2, <3>3, <1>6, SMTT(60)
    <3>8. since[s] + Len(received[s]) + Len(stream'[s]) + Due(s)' = Len(dispatched)
      BY <3>1, <3>2, <3>7
    <3>9. since' = since /\ received' = received /\ dispatched' = dispatched
      BY <1>2
    <3>10. /\ since'[s] + Len(received'[s]) + Len(stream'[s]) + Due(s)'
                = Len(dispatched')
           /\ \A i \in 1..Len(received'[s]) :
                received'[s][i] = dispatched'[since'[s] + i]
      BY <2>1, <2>3, <3>8, <3>9
    <3>11. \A i \in 1..Len(stream'[s]) :
             stream'[s][i] = dispatched'[since'[s] + Len(received'[s]) + i]
      BY <3>6, <3>9
    <3> QED BY <2>3, <3>10, <3>11
  <2> QED BY <2>2, <2>3
<1>11. ExactSuffix'
  BY <1>10 DEF ExactSuffix
<1> QED BY <1>4, <1>5, <1>7, <1>11 DEF DInv

(* The range over the listeners is over: nothing is owed to anybody, and    *)
(* nothing was before the step either.                                      *)
LEMMA EndDispatchDInv ==
  ASSUME DInv, TInv', EndDispatch
  PROVE  DInv'
<1>1. Registered' /\ Untouched' /\ WithinCapacity'
  BY DEF EndDispatch, DInv, Registered, Untouched, WithinCapacity
<1>2. \A l \in Listeners : Due(l)' = Due(l)
  BY DEF EndDispatch, DInv, TInv, TypeOK, Due, InFlight
<1>3. ExactSuffix'
  BY <1>2 DEF EndDispatch, DInv, ExactSuffix
<1> QED BY <1>1, <1>3 DEF DInv

(* A listener registers: it is owed nothing of what was dispatched before.  *)
LEMMA RegisterDInv ==
  ASSUME DInv, TInv', NEW r \in Listeners, Register(r)
  PROVE  DInv'
<1>1. /\ listeners \in Seq(Listeners) /\ since \in [Listeners -> Int]
      /\ dispatched \in Seq(Events) /\ Len(dispatched) \in Nat
      /\ Len(listeners) \in Nat
  BY DEF DInv, TInv, TypeOK
<1>2. /\ next = 0 /\ next' = 0 /\ since[r] = -1
      /\ listeners' = Append(listeners, r)
      /\ since' = [since EXCEPT ![r] = Len(dispatched)]
      /\ UNCHANGED <<stream, dispatched, received>>
  BY DEF Register, AtSelect
<1>3. /\ Len(listeners') = Len(listeners) + 1
      /\ \A i \in 1..Len(listeners) : listeners'[i] = listeners[i]
      /\ listeners'[Len(listeners) + 1] = r
  BY <1>1, <1>2, AppendFacts
<1>4. \A i \in 1..Len(listeners) : listeners[i] # r /\ since[listeners[i]] >= 0
  BY <1>2 DEF DInv, Registered
<1>5. Registered'
  <2>1. \A i \in 1..Len(listeners') : since'[listeners'[i]] >= 0
    <3> SUFFICES ASSUME NEW i \in 1..Len(listeners')
                 PROVE  since'[listeners'[i]] >= 0
      OBVIOUS
    <3>1. CASE i = Len(listeners) + 1
      BY <3>1, <1>1, <1>2, <1>3
    <3>2. CASE i \in 1..Len(listeners)
      <4>1. listeners[i] \in Listeners /\ listeners'[i] = listeners[i]
        BY <3>2, <1>1, <1>3
      <4> QED BY <3>2, <4>1, <1>1, <1>2, <1>4
    <3> QED BY <3>1, <3>2, <1>1, <1>3
  <2>2. ASSUME NEW l \in Listeners, since'[l] >= 0
        PROVE  \E i \in 1..Len(listeners') : listeners'[i] = l
    <3>1. CASE l = r
      BY <3>1, <1>1, <1>3
    <3>2. CASE l # r
      <4>1. PICK i \in 1..Len(listeners) : listeners[i] = l
        BY <3>2, <2>2, <1>1, <1>2 DEF DInv, Registered
      <4> QED BY <4>1, <1>1, <1>3
    <3> QED BY <3>1, <3>2
  <2>3. ASSUME NEW i \in 1..Len(listeners'), NEW j \in 1..Len(listeners'),
               listeners'[i] = listeners'[j]
        PROVE  i = j
    <3>1. i \in 1..Len(listeners) \/ i = Len(listeners) + 1
      BY <1>1, <1>3
    <3>2. j \in 1..Len(listeners) \/ j = Len(listeners) + 1
      BY <1>1, <1>3
    <3> QED BY <2>3, <3>1, <3>2, <1>3, <1>4 DEF DInv, Registered
  <2> QED BY <2>1, <2>2, <2>3 DEF Registered
<1>6. Untouched'
  BY <1>1, <1>2 DEF DInv, Untouched
<1>7. WithinCapacity'
  BY <1>2 DEF DInv, WithinCapacity
<1>8. \A l \in Listeners : Due(l) = 0 /\ Due(l)' = 0
  BY <1>2 DEF Due, InFlight
<1>9. ASSUME NEW l \in Listeners, since'[l] >= 0
      PROVE  /\ since'[l] + Len(received'[l]) + Len(stream'[l]) + Due(l)'
                  = Len(dispatched')
             /\ \A i \in 1..Len(received'[l]) :
                  received'[l][i] = dispatched'[since'[l] + i]
             /\ \A i \in 1..Len(stream'[l]) :
                  stream'[l][i] = dispatched'[since'[l] + Len(received'[l]) + i]
  <2>1. CASE l = r
    <3>1. received[r] = <<>> /\ stream[r] = <<>>
      BY <1>2 DEF DInv, Untouched
    <3>2. since'[r] = Len(dispatched)
      BY <1>1, <1>2
    <3>3. received'[r] = <<>> /\ stream'[r] = <<>> /\ dispatched' = dispatched
      BY <3>1, <1>2
    <3>4. Len(received'[r]) = 0 /\ Len(stream'[r]) = 0 /\ Due(r)' = 0
      BY <3>3, <1>8
    <3>5. since'[r] + Len(received'[r]) + Len(stream'[r]) + Due(r)'
            = Len(dispatched')
      BY <3>2, <3>3, <3>4, <1>1
    <3> QED BY <2>1, <3>4, <3>5
  <2>2. CASE l # r
    <3>1. since'[l] = since[l]
      BY <2>2, <1>1, <1>2
    <3> QED BY <3>1, <1>2, <1>8, <1>9 DEF DInv, ExactSuffix
  <2> QED BY <2>1, <2>2
<1>10. ExactSuffix'
  BY <1>9 DEF ExactSuffix
<1> QED BY <1>5, <1>6, <1>7, <1>10 DEF DInv

(* A listener takes the head of its channel, which is the next event of its *)
(* suffix of the dispatch history.                                          *)
LEMMA ReceiveDInv ==
  ASSUME DInv, TInv', NEW r \in Listeners, Receive(r)
  PROVE  /\ DInv'
         /\ Head(stream[r]) = dispatched[since[r] + Len(received[r]) + 1]
         /\ since[r] + Len(received[r]) < Len(dispatched)
<1>1. /\ stream \in [Listeners -> Seq(Events)]
      /\ received \in [Listeners -> Seq(Events)]
      /\ since \in [Listeners -> Int] /\ dispatched \in Seq(Events)
  BY DEF DInv, TInv, TypeOK
<1>2. /\ since[r] >= 0 /\ stream[r] # <<>>
      /\ received' = [received EXCEPT ![r] = Append(@, Head(stream[r]))]
      /\ stream' = [stream EXCEPT ![r] = Tail(@)]
      /\ UNCHANGED <<listeners, next, dispatched, since>>
  BY DEF Receive
<1>3. /\ Head(stream[r]) \in Events /\ Head(stream[r]) = stream[r][1]
      /\ Len(stream[r]) \in Nat \ {0}
      /\ stream'[r] = Tail(stream[r])
      /\ Len(stream'[r]) = Len(stream[r]) - 1
      /\ \A i \in 1..Len(stream'[r]) : stream'[r][i] = stream[r][i + 1]
  <2>1. stream[r] \in Seq(Events) /\ stream'[r] = Tail(stream[r])
    BY <1>1, <1>2
  <2>2. stream[r] # <<>>
    BY <1>2
  <2>3. /\ Head(stream[r]) \in Events /\ Head(stream[r]) = stream[r][1]
        /\ Len(stream[r]) \in Nat \ {0}
        /\ Len(Tail(stream[r])) = Len(stream[r]) - 1
        /\ \A i \in 1..Len(Tail(stream[r])) :
             Tail(stream[r])[i] = stream[r][i + 1]
    BY <2>1, <2>2, HeadTailFacts
  <2> QED BY <2>1, <2>3
<1>4. /\ Len(received[r]) \in Nat
      /\ Len(received'[r]) = Len(received[r]) + 1
      /\ \A i \in 1..Len(received[r]) : received'[r][i] = received[r][i]
      /\ received'[r][Len(received[r]) + 1] = Head(stream[r])
  <2>1. received[r] \in Seq(Events)
        /\ received'[r] = Append(received[r], Head(stream[r]))
    BY <1>1, <1>2
  <2> QED BY <2>1, <1>3, AppendFacts
<1>5. /\ since[r] + Len(received[r]) + Len(stream[r]) + Due(r) = Len(dispatched)
      /\ \A i \in 1..Len(received[r]) :
           received[r][i] = dispatched[since[r] + i]
      /\ \A i \in 1..Len(stream[r]) :
           stream[r][i] = dispatched[since[r] + Len(received[r]) + i]
  BY <1>2 DEF DInv, ExactSuffix
<1>6. \A l \in Listeners : Due(l)' = Due(l) /\ Due(l) \in Nat
  BY <1>2 DEF Due, InFlight
<1>7. since[r] \in Nat /\ Len(dispatched) \in Nat
  BY <1>1, <1>2
<1>8. Head(stream[r]) = dispatched[since[r] + Len(received[r]) + 1]
  BY <1>3, <1>5
<1>9. since[r] + Len(received[r]) < Len(dispatched)
  BY <1>3, <1>4, <1>5, <1>6, <1>7, SMTT(60)
<1>10. Registered' /\ Untouched'
  BY <1>1, <1>2 DEF DInv, Registered, Untouched
<1>11. WithinCapacity'
  <2> SUFFICES ASSUME NEW l \in Listeners PROVE Len(stream'[l]) <= Capacity
    BY DEF WithinCapacity
  <2>1. CASE l = r
    <3>1. Len(stream[r]) <= Capacity
      BY DEF DInv, WithinCapacity
    <3> QED BY <2>1, <3>1, <1>3, CapacityAssumption
  <2>2. CASE l # r
    BY <2>2, <1>1, <1>2 DEF DInv, WithinCapacity
  <2> QED BY <2>1, <2>2
<1>12. ASSUME NEW i \in 1..Len(received'[r])
       PROVE  received'[r][i] = dispatched[since[r] + i]
  <2>1. CASE i \in 1..Len(received[r])
    BY <2>1, <1>4, <1>5
  <2>2. CASE i = Len(received[r]) + 1
    <3>1. since[r] + i = since[r] + Len(received[r]) + 1
      BY <2>2, <1>4, <1>7
    <3> QED BY <2>2, <3>1, <1>4, <1>8
  <2> QED BY <2>1, <2>2, <1>4
<1>13. ASSUME NEW i \in 1..Len(stream'[r])
       PROVE  stream'[r][i] = dispatched[since[r] + Len(received'[r]) + i]
  <2>1. i + 1 \in 1..Len(stream[r])
    BY <1>3
  <2>2. since[r] + Len(received'[r]) + i = since[r] + Len(received[r]) + (i + 1)
    <3>1. PICK a \in Nat : a = since[r]
      BY <1>7
    <3>2. PICK b \in Nat : b = Len(received[r])
      BY <1>4
    <3>3. i \in Nat /\ Len(received'[r]) = b + 1
      BY <3>2, <1>4
    <3>4. a + (b + 1) + i = a + b + (i + 1)
      BY <3>3, ShiftOne
    <3> QED BY <3>1, <3>2, <3>3, <3>4
  <2> QED BY <2>1, <2>2, <1>3, <1>5
<1>14. since[r] + Len(received'[r]) + Len(stream'[r]) + Due(r)' = Len(dispatched)
  BY <1>3, <1>4, <1>5, <1>6, <1>7, SMTT(60)
<1>15. ASSUME NEW l \in Listeners, since'[l] >= 0
       PROVE  /\ since'[l] + Len(received'[l]) + Len(stream'[l]) + Due(l)'
                   = Len(dispatched')
              /\ \A i \in 1..Len(received'[l]) :
                   received'[l][i] = dispatched'[since'[l] + i]
              /\ \A i \in 1..Len(stream'[l]) :
                   stream'[l][i] = dispatched'[since'[l] + Len(received'[l]) + i]
  <2>1. CASE l = r
    BY <2>1, <1>2, <1>12, <1>13, <1>14
  <2>2. CASE l # r
    <3>1. received'[l] = received[l] /\ stream'[l] = stream[l]
      BY <2>2, <1>1, <1>2
    <3> QED BY <3>1, <1>2, <1>6, <1>15 DEF DInv, ExactSuffix
  <2> QED BY <2>1, <2>2
<1>16. ExactSuffix'
  BY <1>15 DEF ExactSuffix
<1> QED BY <1>8, <1>9, <1>10, <1>11, <1>16 DEF DInv

LEMMA NextDInv == DInv /\ [Next]_vars => DInv'
<1> SUFFICES ASSUME DInv, [Next]_vars PROVE DInv'
  OBVIOUS
<1>1. TInv'
  BY NextTInv DEF DInv
<1>2. ASSUME NEW c \in Callers, NEW op \in Ops, NEW new \in 0..1,
             Write(c, op, new)
      PROVE  DInv'
  BY <1>1, <1>2, DeliveryUnchanged DEF Write, busVars, deliveryVars
<1>3. ASSUME NEW c \in Callers, TakeDispatch(c) PROVE DInv'
  BY <1>1, <1>3, TakeDispatchDInv
<1>4. ASSUME Send PROVE DInv'
  BY <1>1, <1>4, SendDInv
<1>5. ASSUME EndDispatch PROVE DInv'
  BY <1>1, <1>5, EndDispatchDInv
<1>6. ASSUME NEW l \in Listeners, Register(l) PROVE DInv'
  BY <1>1, <1>6, RegisterDInv
<1>7. ASSUME NEW l \in Listeners, Receive(l) PROVE DInv'
  BY <1>1, <1>7, ReceiveDInv
<1>8. ASSUME NEW l \in Listeners, StopReading(l) PROVE DInv'
  BY <1>1, <1>8, DeliveryUnchanged DEF StopReading, busVars, deliveryVars
<1>9. ASSUME Cancel PROVE DInv'
  BY <1>1, <1>9, DeliveryUnchanged DEF Cancel, busVars, deliveryVars
<1>10. ASSUME LoopExit PROVE DInv'
  BY <1>1, <1>10, DeliveryUnchanged DEF LoopExit, deliveryVars
<1>11. ASSUME UNCHANGED vars PROVE DInv'
  BY <1>1, <1>11, DeliveryUnchanged DEF vars, deliveryVars
<1> QED
  BY <1>2, <1>3, <1>4, <1>5, <1>6, <1>7, <1>8, <1>9, <1>10, <1>11 DEF Next

-----------------------------------------------------------------------------
(* Announcements follow the commits.                                       *)

(* No event is announced while nothing was written.                        *)
LEMMA InitCallerOrder == Init => CallerOrder
<1> SUFFICES ASSUME Init PROVE CallerOrder
  OBVIOUS
<1>1. Len(committed) = 0 /\ Len(dispatched) = 0 /\ \A c \in Callers : call[c] = 0
  BY DEF Init
<1>2. Announced = {} /\ ToAnnounce = {}
  BY <1>1 DEF Announced, ToAnnounce
<1> QED BY <1>1, <1>2 DEF CallerOrder

(* A write is committed: its number is larger than all there were.         *)
LEMMA WriteCallerOrder ==
  ASSUME TInv, CallerOrder, NEW c \in Callers, NEW op \in Ops, NEW new \in 0..1,
         Write(c, op, new)
  PROVE  CallerOrder'
<1> DEFINE n == Len(committed) + 1
<1>1. /\ call \in [Callers -> 0..MaxWrites] /\ call[c] = 0
      /\ committed \in Seq(Writes) /\ Len(committed) \in Nat
      /\ dispatched' = dispatched /\ dispatched \in Seq(Events)
      /\ call' = [call EXCEPT ![c] = IF Announces(op, new) THEN n ELSE 0]
      /\ committed' = Append(committed, [by |-> c, op |-> op, new |-> new])
  BY DEF TInv, TypeOK, Write, busVars
<1>2. [by |-> c, op |-> op, new |-> new] \in Writes
  BY DEF Writes
<1>3. /\ Len(committed') = n /\ n \in Nat \ {0}
      /\ \A k \in 1..Len(committed) : committed'[k] = committed[k]
      /\ committed'[n] = [by |-> c, op |-> op, new |-> new]
  BY <1>1, <1>2, AppendFacts
<1> HIDE DEF n
<1>4. \A k \in 1..n : k \in 1..Len(committed) \/ k = n
  BY <1>1 DEF n
<1>5. n \notin 1..Len(committed)
  BY <1>1 DEF n
<1>6. Announced \subseteq 1..Len(committed)
  BY DEF CallerOrder, ToAnnounce
<1>7. \A i \in 1..Len(dispatched) : dispatched[i] \in 1..Len(committed)
  BY <1>6 DEF Announced
<1>8. \A d \in Callers : call[d] # 0 => call[d] \in 1..Len(committed)
  BY <1>6 DEF Announced
<1>9. ToAnnounce' = ToAnnounce \cup (IF Announces(op, new) THEN {n} ELSE {})
  <2>1. Announces(committed'[n].op, committed'[n].new) <=> Announces(op, new)
    BY <1>3
  <2>2. \A k \in 1..Len(committed) :
          k \in ToAnnounce' <=> k \in ToAnnounce
    BY <1>1, <1>3 DEF ToAnnounce, n
  <2>3. n \in ToAnnounce' <=> Announces(op, new)
    BY <1>3, <2>1 DEF ToAnnounce
  <2>4. ToAnnounce' \subseteq 1..n /\ ToAnnounce \subseteq 1..Len(committed)
    BY <1>3 DEF ToAnnounce
  <2> QED BY <2>2, <2>3, <2>4, <1>4, <1>5
<1>10. Announced' = Announced \cup (IF Announces(op, new) THEN {n} ELSE {})
  <2>1. \A d \in Callers \ {c} : call'[d] = call[d]
    BY <1>1
  <2>2. call'[c] = IF Announces(op, new) THEN n ELSE 0
    BY <1>1
  <2>3. {call'[d] : d \in Callers} \ {0}
          = ({call[d] : d \in Callers} \ {0})
              \cup (IF Announces(op, new) THEN {n} ELSE {})
    BY <2>1, <2>2, <1>1, <1>3
  <2> QED BY <2>3, <1>1 DEF Announced
<1>11. \A k \in 1..Len(committed) : By(k)' = By(k)
  BY <1>3 DEF By
<1>12. ASSUME NEW i \in 1..Len(dispatched), NEW j \in 1..Len(dispatched),
              i < j, By(dispatched[i])' = By(dispatched[j])'
       PROVE  dispatched[i] < dispatched[j]
  <2>1. By(dispatched[i]) = By(dispatched[j])
    BY <1>1, <1>3, <1>7, <1>12 DEF By
  <2> QED BY <2>1, <1>12 DEF CallerOrder
<1>13. ASSUME NEW d \in Callers, call'[d] # 0
       PROVE  /\ By(call[d])' = d
              /\ \A i \in 1..Len(dispatched) :
                   By(dispatched[i])' = d => dispatched[i] < call'[d]
  <2>1. CASE d = c
    <3>1. call'[c] = n
      BY <1>1, <1>13, <2>1
    <3>2. committed'[n].by = c
      BY <1>3
    <3>3. \A i \in 1..Len(dispatched) : dispatched[i] < n
      BY <1>1, <1>7 DEF n
    <3> QED BY <2>1, <3>1, <3>2, <3>3 DEF By
  <2>2. CASE d # c
    <3>1. call'[d] = call[d] /\ call[d] # 0
      BY <1>1, <1>13, <2>2
    <3>2. committed'[call[d]] = committed[call[d]]
      BY <1>3, <1>8, <3>1
    <3>3. \A i \in 1..Len(dispatched) :
            committed'[dispatched[i]] = committed[dispatched[i]]
      BY <1>3, <1>7
    <3> QED BY <1>1, <3>1, <3>2, <3>3 DEF CallerOrder, By
  <2> QED BY <2>1, <2>2
<1>14. Announced' = ToAnnounce'
  BY <1>9, <1>10 DEF CallerOrder
<1> QED BY <1>1, <1>12, <1>13, <1>14 DEF CallerOrder

(* The loop takes the event of a caller, which is later than those of the  *)
(* caller it has taken already.                                            *)
LEMMA TakeDispatchCallerOrder ==
  ASSUME TInv, CallerOrder, NEW c \in Callers, TakeDispatch(c)
  PROVE  CallerOrder'
<1> DEFINE n == call[c]
<1>1. /\ call \in [Callers -> 0..MaxWrites] /\ n # 0
      /\ dispatched \in Seq(Events) /\ Len(dispatched) \in Nat
      /\ committed' = committed
      /\ call' = [call EXCEPT ![c] = 0]
      /\ dispatched' = Append(dispatched, n)
  BY DEF TInv, TypeOK, TakeDispatch
<1>2. n \in Events
  BY <1>1, MaxWritesAssumption
<1>3. /\ Len(dispatched') = Len(dispatched) + 1
      /\ \A i \in 1..Len(dispatched) : dispatched'[i] = dispatched[i]
      /\ dispatched'[Len(dispatched) + 1] = n
  BY <1>1, <1>2, AppendFacts
<1>4. \A i \in 1..Len(dispatched') :
        i \in 1..Len(dispatched) \/ i = Len(dispatched) + 1
  BY <1>1, <1>3
<1>5. \A i \in 1..Len(dispatched) : By(dispatched[i]) = By(n) => dispatched[i] < n
  BY <1>1 DEF CallerOrder
<1>6. By(n) = c
  BY <1>1 DEF CallerOrder
<1>7. \A d \in Callers : d # c => call'[d] = call[d]
  BY <1>1
<1>8. \A d \in Callers : d # c /\ call[d] # 0 => By(call[d]) = d
  BY DEF CallerOrder
<1> HIDE DEF n
<1>9. Announced' = Announced
  <2>1. {dispatched'[i] : i \in 1..Len(dispatched')}
          = {dispatched[i] : i \in 1..Len(dispatched)} \cup {n}
    BY <1>1, <1>3, <1>4
  <2>2. {call[d] : d \in Callers} \ {0} = ({call'[d] : d \in Callers} \ {0}) \cup {n}
    BY <1>1, <1>7 DEF n
  <2> QED BY <2>1, <2>2 DEF Announced
<1>10. ToAnnounce' = ToAnnounce /\ \A k : By(k)' = By(k)
  BY <1>1 DEF ToAnnounce, By
<1>11. ASSUME NEW i \in 1..Len(dispatched'), NEW j \in 1..Len(dispatched'),
              i < j, By(dispatched'[i]) = By(dispatched'[j])
       PROVE  dispatched'[i] < dispatched'[j]
  <2>1. i \in 1..Len(dispatched) /\ dispatched'[i] = dispatched[i]
    BY <1>1, <1>3, <1>4, <1>11
  <2>2. CASE j = Len(dispatched) + 1
    BY <2>1, <2>2, <1>3, <1>5, <1>11
  <2>3. CASE j \in 1..Len(dispatched)
    BY <2>1, <2>3, <1>3, <1>11 DEF CallerOrder
  <2> QED BY <2>2, <2>3, <1>4
<1>12. ASSUME NEW d \in Callers, call'[d] # 0
       PROVE  /\ By(call'[d]) = d
              /\ \A i \in 1..Len(dispatched') :
                   By(dispatched'[i]) = d => dispatched'[i] < call'[d]
  <2>1. d # c /\ call'[d] = call[d]
    BY <1>1, <1>7, <1>12
  <2>2. By(n) # d
    BY <1>6, <2>1
  <2> QED BY <2>1, <2>2, <1>3, <1>4, <1>12 DEF CallerOrder
<1> QED BY <1>1, <1>9, <1>10, <1>11, <1>12 DEF CallerOrder, By

LEMMA NextCallerOrder == TInv /\ CallerOrder /\ [Next]_vars => CallerOrder'
<1> SUFFICES ASSUME TInv, CallerOrder, [Next]_vars PROVE CallerOrder'
  OBVIOUS
<1>1. ASSUME UNCHANGED <<committed, call, dispatched>> PROVE CallerOrder'
  <2>1. Announced' = Announced
    BY <1>1 DEF Announced
  <2>2. ToAnnounce' = ToAnnounce
    BY <1>1 DEF ToAnnounce
  <2> QED BY <1>1, <2>1, <2>2 DEF CallerOrder, By
<1>2. ASSUME NEW c \in Callers, NEW op \in Ops, NEW new \in 0..1,
             Write(c, op, new)
      PROVE  CallerOrder'
  BY <1>2, WriteCallerOrder
<1>3. ASSUME NEW c \in Callers, TakeDispatch(c) PROVE CallerOrder'
  BY <1>3, TakeDispatchCallerOrder
<1>4. ASSUME NEW l \in Listeners, Register(l) \/ Receive(l) \/ StopReading(l)
      PROVE  CallerOrder'
  BY <1>1, <1>4 DEF Register, Receive, StopReading, busVars
<1>5. ASSUME Send \/ EndDispatch \/ Cancel \/ LoopExit \/ UNCHANGED vars
      PROVE  CallerOrder'
  BY <1>1, <1>5 DEF Send, EndDispatch, Cancel, LoopExit, busVars, vars
<1> QED BY <1>2, <1>3, <1>4, <1>5 DEF Next

-----------------------------------------------------------------------------
(* The variables have their types in every reachable state, however many    *)
(* callers and listeners there are (eventable.bus and its callers).         *)
THEOREM TypeCorrect == Spec => []TypeOK
<1>1. TInv => TypeOK
  BY DEF TInv
<1> QED BY InitTInv, NextTInv, <1>1, PTL DEF Spec

(* Exact delivery: every listener gets the events dispatched since it       *)
(* registered, each once and in order (bus.go:44-61).                       *)
THEOREM ExactDelivery == Spec => []ExactSuffix
<1>1. DInv => ExactSuffix
  BY DEF DInv
<1> QED BY InitDInv, NextDInv, <1>1, PTL DEF Spec

(* The writes of a caller that have something to announce are announced     *)
(* exactly once and in the order of their commits, for any number of        *)
(* callers that race between the commit and Dispatch                        *)
(* (eventable/feed.go:88-137, article.go:33-71).                            *)
THEOREM AnnouncedInOrder == Spec => []CallerOrder
BY InitTInv, NextTInv, InitCallerOrder, NextCallerOrder, PTL DEF Spec

(* No listener lags behind the writers by more than its channel and the     *)
(* event in the loop's hand (bus.go:47-49, 54).                             *)
THEOREM LagIsBounded == Spec => []BoundedLag
<1>1. ASSUME DInv PROVE BoundedLag
  <2> SUFFICES ASSUME NEW l \in Listeners, since[l] >= 0
               PROVE  Len(dispatched) - since[l] - Len(received[l])
                        <= Capacity + 1
    BY DEF BoundedLag
  <2>1. /\ since[l] \in Nat /\ Len(received[l]) \in Nat
        /\ Len(stream[l]) \in Nat /\ Len(dispatched) \in Nat
    BY <1>1 DEF DInv, TInv, TypeOK
  <2>2. Len(stream[l]) <= Capacity /\ Due(l) \in 0..1
    BY <1>1 DEF DInv, WithinCapacity, Due
  <2>3. since[l] + Len(received[l]) + Len(stream[l]) + Due(l) = Len(dispatched)
    BY <1>1 DEF DInv, ExactSuffix
  <2> QED BY <2>1, <2>2, <2>3, CapacityAssumption, SMTT(60)
<1> QED BY InitDInv, NextDInv, <1>1, PTL DEF Spec

-----------------------------------------------------------------------------
(* The bus implements the atomic broadcast of Broadcast: a Dispatch is      *)
(* published when the loop takes it, a listener joins when the loop runs    *)
(* its closure, and a receive from a channel is a take from the log; every  *)
(* other step is a stutter.                                                 *)
THEOREM ImplementsBroadcast == Spec => AtomicBroadcast
<1> USE DEF Abstract!bvars
<1>1. Init => Abstract!BInit
  BY DEF Init, Abstract!BInit
<1>2. ASSUME DInv, [Next]_vars
      PROVE  [Abstract!BNext]_(Abstract!bvars)
  <2>1. ASSUME NEW c \in Callers, TakeDispatch(c)
        PROVE  Abstract!BNext
    <3>1. call[c] \in Events
      BY <1>2, <2>1, MaxWritesAssumption DEF TakeDispatch, DInv, TInv, TypeOK
    <3>2. Abstract!Publish(call[c])
      BY <2>1 DEF TakeDispatch, Abstract!Publish
    <3> QED BY <3>1, <3>2 DEF Abstract!BNext
  <2>2. ASSUME NEW l \in Listeners, Register(l)
        PROVE  Abstract!BNext
    <3>1. Abstract!Join(l)
      BY <2>2 DEF Register, Abstract!Join
    <3> QED BY <3>1 DEF Abstract!BNext
  <2>3. ASSUME NEW l \in Listeners, Receive(l)
        PROVE  Abstract!BNext
    <3>1. TInv'
      BY <1>2, NextTInv DEF DInv
    <3>2. /\ Head(stream[l]) = dispatched[since[l] + Len(received[l]) + 1]
          /\ since[l] + Len(received[l]) < Len(dispatched)
      BY <1>2, <2>3, <3>1, ReceiveDInv
    <3>3. Abstract!Take(l)
      BY <2>3, <3>2 DEF Receive, Abstract!Take
    <3> QED BY <3>3 DEF Abstract!BNext
  <2>4. ASSUME NEW c \in Callers, NEW op \in Ops, NEW new \in 0..1,
               Write(c, op, new)
        PROVE  UNCHANGED Abstract!bvars
    BY <2>4 DEF Write, busVars
  <2>5. CASE Send
    BY <2>5 DEF Send
  <2>6. CASE EndDispatch
    BY <2>6 DEF EndDispatch
  <2>7. ASSUME NEW l \in Listeners, StopReading(l)
        PROVE  UNCHANGED Abstract!bvars
    BY <2>7 DEF StopReading, busVars
  <2>8. CASE Cancel
    BY <2>8 DEF Cancel, busVars
  <2>9. CASE LoopExit
    BY <2>9 DEF LoopExit
  <2>10. CASE UNCHANGED vars
    BY <2>10 DEF vars
  <2> QED
    BY <1>2, <2>1, <2>2, <2>3, <2>4, <2>5, <2>6, <2>7, <2>8, <2>9, <2>10
    DEF Next
<1> QED
  BY InitDInv, NextDInv, <1>1, <1>2, PTL DEF Spec, AtomicBroadcast
=============================================================================
