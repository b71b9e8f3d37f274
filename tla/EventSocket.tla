---------------------------- MODULE EventSocket ----------------------------
(***************************************************************************)
(* api/events.go: the handlers that keep a stream of server-sent events    *)
(* open, one per socket s, and the monitor goroutine that owns the table   *)
(* of connections.                                                         *)
(*                                                                         *)
(* A handler adds its connection, pings now and then, and removes the      *)
(* connection when it returns, each time with a closure sent on fm.ops, a  *)
(* channel with a buffer.  The monitor's loop runs the closures one after  *)
(* the other, and starts a goroutine for every event of its listener that  *)
(* sends one more closure, which writes the event to the connections.      *)
(* A panic in the loop ends the process, and with it every other step.     *)
(*                                                                         *)
(* The server has no write timeout, so that the streams can stay open, and *)
(* the route of the streams is given none of its own: a write to a client  *)
(* that neither reads nor goes lasts for ever (server.go:450-457 of        *)
(* cmd/readeef, api.go:386-388).                                           *)
(***************************************************************************)
EXTENDS Naturals, Sequences, FiniteSets

CONSTANTS
  Sockets,
  Addr,      \* Addr[s]: the remote address of s
  Entitled,  \* Entitled[s]: events of the user and of the feedSet of s
  Cap,       \* the buffer of fm.ops (10 in the code)
  MaxEvents, \* bound on the events of the listener
  None       \* no socket

ASSUME NoneAssumption == None \notin Sockets
ASSUME CapAssumption == Cap \in Nat \ {0}
ASSUME EntitledAssumption == Entitled \in [Sockets -> SUBSET (1 .. MaxEvents)]

Addrs == {Addr[s] : s \in Sockets}
Event == 1 .. MaxEvents

VARIABLES
  pc,        \* pc[s]: where the handler of s is
  valid,     \* valid[s]: the token of s has not expired or been blacklisted
  gone,      \* gone[s]: the client has closed its end
  stalled,   \* stalled[s]: the client does not read and the buffers to it are full
  done,      \* done[s]: the channel done of s is "open" or "closed"
  conns,     \* conns[a]: the socket the table holds for address a, or None
  ops,       \* the closures in fm.ops' buffer
  taken,     \* how many events the loop took from its listener
  sending,   \* events whose processEvent goroutine has yet to send
  todo,      \* the sockets the running closure has yet to deal with
  running,   \* the closure the loop runs, or Nothing
  written,   \* written[s]: the events written to s, in order
  cancelled, \* ctx.Done() is closed
  exited,    \* the loop has returned
  panicked   \* a closed channel was closed again

handlers == <<pc, valid, gone, stalled>>
loopVars == <<conns, todo, running, done, written, panicked, exited>>
vars == <<handlers, loopVars, ops, taken, sending, cancelled>>

Nothing == [op |-> "none"]
Add(s) == [op |-> "add", socket |-> s]
Ping(s) == [op |-> "ping", addr |-> Addr[s]]
Remove(s) == [op |-> "remove", addr |-> Addr[s]]
Send(n) == [op |-> "event", event |-> n]
Ops == {Add(s) : s \in Sockets} \cup {Ping(s) : s \in Sockets}
         \cup {Remove(s) : s \in Sockets} \cup {Send(n) : n \in Event}

Init ==
  /\ pc = [s \in Sockets |-> "new"]
  /\ valid = [s \in Sockets |-> TRUE]
  /\ gone = [s \in Sockets |-> FALSE]
  /\ stalled = [s \in Sockets |-> FALSE]
  /\ done = [s \in Sockets |-> "open"]
  /\ conns = [a \in Addrs |-> None]
  /\ ops = <<>>
  /\ taken = 0
  /\ sending = {}
  /\ todo = {}
  /\ running = Nothing
  /\ written = [s \in Sockets |-> <<>>]
  /\ cancelled = FALSE
  /\ exited = FALSE
  /\ panicked = FALSE

-----------------------------------------------------------------------------
(* A goroutine's send on fm.ops, which waits for room in the buffer.       *)
Enqueue(op) == Len(ops) < Cap /\ ops' = Append(ops, op)

Step(s, from, to) == pc[s] = from /\ pc' = [pc EXCEPT ![s] = to]

(* addConn, after the feeds of the user were read.                         *)
AddConn(s) ==
  /\ Step(s, "new", "greet")
  /\ Enqueue(Add(s))
  /\ UNCHANGED <<valid, gone, stalled, loopVars, taken, sending, cancelled>>

(* Wrong: an early return with no deferred removal before it.              *)
GreetForgets(s) ==
  /\ Step(s, "greet", IF gone[s] THEN "returned" ELSE "select")
  /\ UNCHANGED <<valid, gone, stalled, loopVars, ops, taken, sending, cancelled>>

(* connection-established; an error of the write ends the handler.         *)
Greet(s) ==
  /\ ~stalled[s]
  /\ Step(s, "greet", IF gone[s] THEN "leave" ELSE "select")
  /\ UNCHANGED <<valid, gone, stalled, loopVars, ops, taken, sending, cancelled>>

(* Ten seconds have passed.                                                *)
PingConn(s) ==
  /\ Step(s, "select", "select")
  /\ Enqueue(Ping(s))
  /\ UNCHANGED <<valid, gone, stalled, loopVars, taken, sending, cancelled>>

Leave(s) ==
  /\ done[s] = "closed" \/ gone[s] \/ cancelled
  /\ Step(s, "select", "leave")
  /\ UNCHANGED <<valid, gone, stalled, loopVars, ops, taken, sending, cancelled>>

(* The deferred removeConn, and the return of the handler.                 *)
RemoveConn(s) ==
  /\ Step(s, "leave", "returned")
  /\ Enqueue(Remove(s))
  /\ UNCHANGED <<valid, gone, stalled, loopVars, taken, sending, cancelled>>

(* The token expires, or its user logs out (POST to /token).               *)
Invalidate(s) ==
  /\ valid[s]
  /\ valid' = [valid EXCEPT ![s] = FALSE]
  /\ UNCHANGED <<pc, gone, stalled, loopVars, ops, taken, sending, cancelled>>

Disconnect(s) ==
  /\ ~gone[s] /\ pc[s] # "returned"
  /\ gone' = [gone EXCEPT ![s] = TRUE]
  /\ stalled' = [stalled EXCEPT ![s] = FALSE]
  /\ UNCHANGED <<pc, valid, loopVars, ops, taken, sending, cancelled>>

(* The client keeps the connection and stops reading from it; one that     *)
(* reads on later is only slow, and has not stalled.                       *)
Stall(s) ==
  /\ ~stalled[s] /\ ~gone[s] /\ pc[s] \notin {"new", "returned"}
  /\ stalled' = [stalled EXCEPT ![s] = TRUE]
  /\ UNCHANGED <<pc, valid, gone, loopVars, ops, taken, sending, cancelled>>

-----------------------------------------------------------------------------
AtSelect == running = Nothing /\ ~exited

(* Wrong: processEvent is called without go, so the loop sends to itself.  *)
TakeEventInline ==
  /\ AtSelect
  /\ taken < MaxEvents
  /\ taken' = taken + 1
  /\ IF Len(ops) < Cap
     THEN ops' = Append(ops, Send(taken + 1)) /\ UNCHANGED <<running, todo>>
     ELSE /\ running' = [op |-> "stuck"]
          /\ todo' = {}
          /\ UNCHANGED ops
  /\ UNCHANGED <<handlers, conns, done, written, panicked, exited, sending,
                 cancelled>>

(* An event of the listener: go fm.processEvent(event).                    *)
TakeEvent ==
  /\ AtSelect
  /\ taken < MaxEvents
  /\ taken' = taken + 1
  /\ sending' = sending \cup {taken + 1}
  /\ UNCHANGED <<handlers, loopVars, ops, cancelled>>

(* Wrong: the goroutine retries a send that went through.                  *)
ProcessTwice(n) ==
  /\ n \in sending
  /\ Enqueue(Send(n))
  /\ sending' = IF \E s \in Sockets : \E k \in 1 .. Len(written[s]) :
                     written[s][k] = n
                THEN sending \ {n} ELSE sending
  /\ UNCHANGED <<handlers, loopVars, taken, cancelled>>

(* Wrong: a full buffer drops the event, as a select with a default would. *)
ProcessOrDrop(n) ==
  /\ n \in sending
  /\ Enqueue(Send(n)) \/ (Len(ops) = Cap /\ UNCHANGED ops)
  /\ sending' = sending \ {n}
  /\ UNCHANGED <<handlers, loopVars, taken, cancelled>>

(* The goroutine of event n gets its closure into the buffer.              *)
Process(n) ==
  /\ n \in sending
  /\ Enqueue(Send(n))
  /\ sending' = sending \ {n}
  /\ UNCHANGED <<handlers, loopVars, taken, cancelled>>

(* The loop receives a closure.  Those of add and remove are done at once; *)
(* an event has all connections to deal with, a ping the one of its        *)
(* address.                                                                *)
TakeOp ==
  LET op == Head(ops) IN
  /\ AtSelect
  /\ ops # <<>>
  /\ ops' = Tail(ops)
  /\ \/ /\ op.op = "add"
        /\ conns' = [conns EXCEPT ![Addr[op.socket]] = op.socket]
        /\ UNCHANGED <<running, todo>>
     \/ /\ op.op = "remove"
        /\ conns' = [conns EXCEPT ![op.addr] = None]
        /\ UNCHANGED <<running, todo>>
     \/ /\ op.op = "event"
        /\ running' = op
        /\ todo' = {conns[a] : a \in Addrs} \ {None}
        /\ UNCHANGED conns
     \/ /\ op.op = "ping"
        /\ running' = op
        /\ todo' = {conns[op.addr]} \ {None}
        /\ UNCHANGED conns
  /\ UNCHANGED <<handlers, done, written, panicked, exited, taken, sending,
                 cancelled>>

(* close(d.done).                                                          *)
Close(s) ==
  /\ done' = [done EXCEPT ![s] = "closed"]
  /\ panicked' = (done[s] = "closed")

Concerns(s) ==
  IF running.op = "ping" THEN TRUE ELSE running.event \in Entitled[s]

(* The body of the loop over the connections.  A connection that turns out *)
(* to be invalid or broken stays in the table.                             *)
Deal(s) ==
  /\ s \in todo
  /\ ~(Concerns(s) /\ valid[s] /\ stalled[s])
  /\ todo' = todo \ {s}
  /\ IF Concerns(s) /\ (~valid[s] \/ gone[s]) THEN Close(s)
     ELSE UNCHANGED <<done, panicked>>
  /\ written' = IF Concerns(s) /\ valid[s] /\ ~gone[s] /\ running.op = "event"
                THEN [written EXCEPT ![s] = Append(@, running.event)]
                ELSE written
  /\ UNCHANGED <<handlers, conns, running, exited, ops, taken, sending,
                 cancelled>>

OpEnds ==
  /\ running.op \in {"event", "ping"}
  /\ todo = {}
  /\ running' = Nothing
  /\ UNCHANGED <<handlers, conns, todo, done, written, panicked, exited, ops,
                 taken, sending, cancelled>>

Cancel ==
  /\ ~cancelled
  /\ cancelled' = TRUE
  /\ UNCHANGED <<handlers, loopVars, ops, taken, sending>>

(* 100 ms after the loop has seen the cancellation.                        *)
Exit ==
  /\ AtSelect
  /\ cancelled
  /\ exited' = TRUE
  /\ UNCHANGED <<handlers, conns, todo, running, done, written, panicked, ops,
                 taken, sending, cancelled>>

(* What gets a handler forward; a ping does not.                           *)
Forward(s) == AddConn(s) \/ Greet(s) \/ Leave(s) \/ RemoveConn(s)

Working == (\E s \in Sockets : Deal(s)) \/ OpEnds

Next ==
  /\ ~panicked
  /\ \/ \E s \in Sockets :
          Forward(s) \/ PingConn(s) \/ Invalidate(s) \/ Disconnect(s) \/ Stall(s)
     \/ \E n \in Event : Process(n)
     \/ TakeEvent \/ TakeOp \/ Working
     \/ Cancel
     \/ Exit

(* Goroutines run; senders on a channel are served in order and a select   *)
(* picks among the ready channels at random, so nobody is passed over for  *)
(* ever.  A write to a client that has stalled is not enabled.             *)
Fairness ==
  /\ \A s \in Sockets : SF_vars(~panicked /\ Forward(s))
  /\ \A n \in Event : SF_vars(~panicked /\ Process(n))
  /\ SF_vars(~panicked /\ TakeOp) /\ SF_vars(~panicked /\ TakeEvent)
  /\ WF_vars(~panicked /\ Working)

Spec == Init /\ [][Next]_vars
FairSpec == Spec /\ Fairness

-----------------------------------------------------------------------------
Queued(op) == \E k \in 1 .. Len(ops) : ops[k] = op

(* A connection never outlives its handler but for the moment its removal  *)
(* waits in the channel: the table holds no dead response writer, whatever *)
(* ended the handler (api/events.go:65, 223-227).                          *)
NoDeadConn ==
  \A s \in Sockets :
    pc[s] = "returned" /\ conns[Addr[s]] = s => Queued(Remove(s))

(* No event is written to a socket twice, or to one that is not concerned, *)
(* though every event has a goroutine of its own.                          *)
WrittenOnce ==
  \A s \in Sockets :
    /\ \A j, k \in 1 .. Len(written[s]) :
         written[s][j] = written[s][k] => j = k
    /\ \A k \in 1 .. Len(written[s]) : written[s][k] \in Entitled[s]

(* The loop has come to a closure that writes to a client that has         *)
(* stalled, and the client stays.                                          *)
Stuck == \E s \in todo : Concerns(s) /\ valid[s] /\ stalled[s]
NeverStuckForGood == []<>~Stuck

(* Unless the loop comes to write to a client that has stalled and never   *)
(* goes, an event reaches every open socket it concerns, until the socket  *)
(* becomes invalid or closes, or the server stops: the closure that adds   *)
(* the connection is ahead of the event's, and a client that goes sets     *)
(* free the loop and all that waits behind it (api/events.go:229-256).     *)
Delivered ==
  NeverStuckForGood =>
    \A s \in Sockets : \A n \in Entitled[s] :
      (n \in sending /\ pc[s] \in {"greet", "select"}) ~>
        \/ \E k \in 1 .. Len(written[s]) : written[s][k] = n
        \/ ~valid[s] \/ gone[s] \/ cancelled \/ panicked

(* The handler of a client that is gone returns, and its connection leaves *)
(* the table, however full the channel of closures is; only a client that  *)
(* has stalled and never goes can hold up the handlers of others (ops has  *)
(* room for ten closures, api/events.go:31, 223-227).                      *)
HandlersReturn ==
  NeverStuckForGood =>
    \A s \in Sockets :
      gone[s] ~> \/ pc[s] = "returned" /\ conns[Addr[s]] # s
                 \/ cancelled \/ panicked

(* A socket whose token is blacklisted or has expired is closed, nothing   *)
(* worse: the stream just ends (api/events_test.go, cases "logged out" and *)
(* "expired token").                                                       *)
InvalidJustEnds == ~panicked
=============================================================================
