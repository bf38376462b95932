------------------------------ MODULE SessionBus ------------------------------
(***************************************************************************)
(* The notification client's connection to the session bus                  *)
(* (notifications/dbus.go, client.go): the blocking signal handler, the     *)
(* dispatcher of commands and signals, the goroutine of the bus library     *)
(* that reads the connection, and around them the notification server, the  *)
(* owner loop and the end of the service.                                   *)
(*                                                                          *)
(* Sections under the handler's mutex neither block nor wait, so each is    *)
(* part of one step.  The client registers one channel, so the handler's    *)
(* map of targets holds one target or none.                                 *)
(***************************************************************************)
EXTENDS Naturals, Sequences

CONSTANTS
  Capacity,     \* rawSignalCapacity
  MaxSignals,   \* bound: signals the server emits
  MaxCommands   \* bound: commands the loop gives

ASSUME CapacityAssumption == Capacity \in Nat \ {0}
ASSUME BoundsAssumption == MaxSignals \in Nat /\ MaxCommands \in Nat

VARIABLES
  server,   \* the bus and the server: requests to answer, notifications
            \* shown, signals emitted, members subscribed, whether the
            \* connection is up, and what it carries that is not yet read
  reader,   \* the library's reading goroutine, the signal it delivers, and
            \* who runs the body of conn.Close, which runs once
  handler,  \* blockingSignalHandler with the client's target, if it has one;
            \* doomed: Terminate will close the target's channel
  raw,      \* rawSignals: its content and whether it is open
  client,   \* the goroutine of Client.Run
  loop,     \* the owner loop, as far as the client can tell
  ctx,      \* the service's context is cancelled
  history   \* commands given, signals taken by the dispatcher, notifications
            \* clicked, returned by Notify and recorded, and whether Go would
            \* have panicked

vars == <<server, reader, handler, raw, client, loop, ctx, history>>

Commands == {"notify", "close"}

(* A signal is its number and the notification it is about; 0 is one that   *)
(* decodeSignal refuses.  A reply is the number of its call, whether it     *)
(* succeeded, and the id that Notify returns.                               *)
NoSignal == [type |-> "signal", n |-> 0, about |-> 0]
NoReply == [type |-> "reply", n |-> 0, ok |-> FALSE, id |-> 0]

Init ==
  /\ server = [requests |-> {}, shown |-> 0, emitted |-> 0, members |-> 0,
               up |-> TRUE, wire |-> <<>>]
  /\ reader = [at |-> "read", signal |-> NoSignal, once |-> "free"]
  /\ handler = [closed |-> FALSE, registered |-> FALSE, done |-> FALSE,
                doomed |-> FALSE, active |-> 0]
  /\ raw = [buffer |-> <<>>, open |-> TRUE]
  /\ client = [at |-> "start", call |-> "match", n |-> 0, answer |-> NoReply,
               event |-> "none", id |-> 0, signal |-> NoSignal,
               ack |-> "none", deaf |-> FALSE]
  /\ loop = "select"
  /\ ctx = FALSE
  /\ history = [commands |-> 0, taken |-> <<>>, clicked |-> {},
                returned |-> {}, persisted |-> {}, panicked |-> FALSE]

-----------------------------------------------------------------------------
(* The server and the bus (external) *)

(* A request is answered; Notify shows a notification, AddMatch subscribes. *)
Answer(r, ok) ==
  LET shows == ok /\ r.call = "notify"
      id == IF shows THEN server.shown + 1 ELSE 0
      reply == [type |-> "reply", n |-> r.n, ok |-> ok, id |-> id]
  IN /\ server.up /\ r \in server.requests
     /\ server' = [server EXCEPT
                     !.requests = @ \ {r},
                     !.wire = Append(@, reply),
                     !.shown = IF shows THEN id ELSE @,
                     !.members = IF ok /\ r.call = "match" THEN @ + 1 ELSE @]
     /\ UNCHANGED <<reader, handler, raw, client, loop, ctx, history>>

(* A signal, once a match rule asks for it: about a notification that was   *)
(* shown, or one the client does not understand.                            *)
Emit(about) ==
  /\ server.up /\ server.members > 0 /\ server.emitted < MaxSignals
  /\ server' = [server EXCEPT
                  !.emitted = @ + 1,
                  !.wire = Append(@, [type |-> "signal", about |-> about,
                                      n |-> server.emitted + 1])]
  /\ UNCHANGED <<reader, handler, raw, client, loop, ctx, history>>

(* The bus ends the connection; what it has sent can still be read. *)
LoseBus ==
  /\ server.up
  /\ server' = [server EXCEPT !.up = FALSE]
  /\ UNCHANGED <<reader, handler, raw, client, loop, ctx, history>>

-----------------------------------------------------------------------------
(* The handler's sections under its mutex *)

AddSignal ==
  IF handler.closed THEN handler
  ELSE [handler EXCEPT !.registered = TRUE, !.done = FALSE]

(* Mutant: the target stays in the map. *)
CloseDoneOnly == [handler EXCEPT !.done = @ \/ handler.registered]

(* Mutant: a delivery that waits is not told that its target is gone. *)
TakeOutOnly == [handler EXCEPT !.registered = FALSE]

(* RemoveSignal and Terminate take the target out and close its done.  Both *)
(* wait for active to be zero before they go on.                            *)
RemoveTarget ==
  [handler EXCEPT !.registered = FALSE, !.done = @ \/ handler.registered]

TerminateTargets ==
  IF handler.closed THEN handler
  ELSE [RemoveTarget EXCEPT !.closed = TRUE, !.doomed = handler.registered]

(* The end of Terminate. *)
CloseChannel == [raw EXCEPT !.open = @ /\ ~handler.doomed]

(* What Go does not allow: to close a channel twice or send on a closed one. *)
Panics(bad) == [history EXCEPT !.panicked = @ \/ bad]
ClosesDoneAgain == handler.registered /\ handler.done
ClosesChannelAgain == handler.doomed /\ ~raw.open

-----------------------------------------------------------------------------
(* The reading goroutine of the bus library (external), which calls the     *)
(* handler's DeliverSignal                                                  *)

(* A reply wakes the call that waits for it, if one still does. *)
ReadReply ==
  LET m == Head(server.wire)
  IN /\ reader.at = "read" /\ reader.once # "done"
     /\ server.wire # <<>> /\ m.type = "reply"
     /\ server' = [server EXCEPT !.wire = Tail(@)]
     /\ client' = IF client.at = "call" /\ client.n = m.n
                    THEN [client EXCEPT !.answer = m] ELSE client
     /\ UNCHANGED <<reader, handler, raw, loop, ctx, history>>

(* DeliverSignal up to its unlock: without a target the signal is dropped. *)
ReadSignal ==
  LET m == Head(server.wire)
  IN /\ reader.at = "read" /\ reader.once # "done"
     /\ server.wire # <<>> /\ m.type = "signal"
     /\ server' = [server EXCEPT !.wire = Tail(@)]
     /\ IF handler.registered
          THEN /\ handler' = [handler EXCEPT !.active = @ + 1]
               /\ reader' = [reader EXCEPT !.at = "send", !.signal = m]
          ELSE UNCHANGED <<handler, reader>>
     /\ UNCHANGED <<raw, client, loop, ctx, history>>

(* The select of DeliverSignal: the channel takes the signal, or done ends  *)
(* the wait.  Then active.Done.                                             *)
Delivered ==
  /\ handler' = [handler EXCEPT !.active = @ - 1]
  /\ reader' = [reader EXCEPT !.at = "read", !.signal = NoSignal]
  /\ UNCHANGED <<server, client, loop, ctx>>

(* Mutant: a full buffer drops the signal. *)
SendOrDrop ==
  /\ reader.at = "send"
  /\ raw' = IF Len(raw.buffer) < Capacity
              THEN [raw EXCEPT !.buffer = Append(@, reader.signal)] ELSE raw
  /\ history' = Panics(~raw.open)
  /\ Delivered

SendSignal ==
  /\ reader.at = "send" /\ Len(raw.buffer) < Capacity
  /\ raw' = [raw EXCEPT !.buffer = Append(@, reader.signal)]
  /\ history' = Panics(~raw.open)
  /\ Delivered

GiveUpSignal ==
  /\ reader.at = "send" /\ handler.done
  /\ UNCHANGED <<raw, history>>
  /\ Delivered

(* The connection, or the transport, has ended: the reader calls conn.Close. *)
ReadEnds ==
  /\ reader.at = "read"
  /\ (server.wire = <<>> /\ ~server.up) \/ reader.once = "done"
  /\ reader' = [reader EXCEPT !.at = "close"]
  /\ UNCHANGED <<server, handler, raw, client, loop, ctx, history>>

ReaderCloses ==
  /\ reader.at = "close"
  /\ \/ /\ reader.once = "free"
        /\ reader' = [reader EXCEPT !.at = "closing", !.once = "reader"]
        /\ handler' = TerminateTargets
        /\ history' = Panics(ClosesDoneAgain)
     \/ /\ reader.once = "done"
        /\ reader' = [reader EXCEPT !.at = "gone"]
        /\ UNCHANGED <<handler, history>>
  /\ UNCHANGED <<server, raw, client, loop, ctx>>

ReaderClosed ==
  /\ reader.at = "closing" /\ handler.active = 0
  /\ reader' = [reader EXCEPT !.at = "gone", !.once = "done"]
  /\ raw' = CloseChannel
  /\ history' = Panics(ClosesChannelAgain)
  /\ UNCHANGED <<server, handler, client, loop, ctx>>

-----------------------------------------------------------------------------
(* Client.Run *)

(* The client begins a call; the server gets it while the connection lasts. *)
BeginCall(c, call) ==
  /\ client' = [c EXCEPT !.at = "call", !.call = call, !.n = @ + 1,
                         !.answer = NoReply]
  /\ server' = IF server.up /\ reader.once = "free"
                 THEN [server EXCEPT !.requests =
                         @ \cup {[n |-> c.n + 1, call |-> call]}]
                 ELSE server

(* conn.signal, then the first of subscribe's two calls. *)
Subscribe ==
  /\ client.at = "start"
  /\ handler' = AddSignal
  /\ BeginCall(client, "match")
  /\ UNCHANGED <<reader, raw, loop, ctx, history>>

(* Mutant: a delivered notification is reported like any other result, and  *)
(* the client does not wait for the acknowledgement.                        *)
AfterCallUnacknowledged(ok, id) ==
  LET c == client
      goto == CASE c.call \in Commands -> "deliver"
                [] c.call = "match" /\ ok -> "dispatch"
                [] OTHER -> "remove"
  IN /\ IF c.call = "match" /\ ok /\ c.n = 1
          THEN BeginCall(c, "match")
          ELSE /\ client' = [c EXCEPT
                               !.at = goto, !.id = id, !.answer = NoReply,
                               !.event = IF goto = "deliver" THEN "other"
                                         ELSE "none"]
               /\ UNCHANGED server
     /\ history' = IF ok /\ c.call = "notify"
                     THEN [history EXCEPT !.returned = @ \cup {id}] ELSE history
     /\ UNCHANGED <<reader, handler, raw, loop, ctx>>

(* After a call: subscribe makes another or is done, the result of a        *)
(* command is an event for the loop, and Run cleans up after a compensation *)
(* and after a failed subscription.                                         *)
AfterCall(ok, id) ==
  LET c == client
      result == IF ok /\ c.call = "notify" THEN "delivered" ELSE "other"
      goto == CASE c.call \in Commands -> "deliver"
                [] c.call = "match" /\ ok -> "dispatch"
                [] OTHER -> "remove"
  IN /\ IF c.call = "match" /\ ok /\ c.n = 1
          THEN BeginCall(c, "match")
          ELSE /\ client' = [c EXCEPT
                               !.at = goto, !.id = id, !.answer = NoReply,
                               !.event = IF goto = "deliver" THEN result
                                         ELSE "none"]
               /\ UNCHANGED server
     /\ history' = IF result = "delivered"
                     THEN [history EXCEPT !.returned = @ \cup {id}] ELSE history
     /\ UNCHANGED <<reader, handler, raw, loop, ctx>>

CallAnswered ==
  /\ client.at = "call" /\ client.answer # NoReply
  /\ AfterCall(client.answer.ok, client.answer.id)

(* Mutant: calls have no deadline of their own. *)
CallCancelledOnly ==
  /\ client.at = "call" /\ ctx
  /\ AfterCall(FALSE, 0)

(* operationTimeout or compensationTimeout passes, the context of the call  *)
(* is cancelled, or the connection is closed.                               *)
CallExpires ==
  /\ client.at = "call"
  /\ AfterCall(FALSE, 0)

(* dispatch: a command. *)
TakeCommand(call) ==
  /\ client.at = "dispatch" /\ history.commands < MaxCommands
  /\ BeginCall(client, call)
  /\ history' = [history EXCEPT !.commands = @ + 1]
  /\ UNCHANGED <<reader, handler, raw, loop, ctx>>

(* dispatch: a signal.  One that decodeSignal refuses is ignored. *)
TakeSignal ==
  LET s == Head(raw.buffer)
  IN /\ client.at = "dispatch" /\ ~client.deaf /\ raw.buffer # <<>>
     /\ raw' = [raw EXCEPT !.buffer = Tail(@)]
     /\ IF s.about = 0
          THEN /\ history' = [history EXCEPT !.taken = Append(@, s.n)]
               /\ UNCHANGED client
          ELSE /\ client' = [client EXCEPT !.at = "deliver",
                                           !.event = "signal", !.signal = s]
               /\ UNCHANGED history
     /\ UNCHANGED <<server, reader, handler, loop, ctx>>

(* dispatch: the channel was closed, and rawSignals becomes nil. *)
GoDeaf ==
  /\ client.at = "dispatch" /\ ~client.deaf
  /\ raw.buffer = <<>> /\ ~raw.open
  /\ client' = [client EXCEPT !.deaf = TRUE]
  /\ UNCHANGED <<server, reader, handler, raw, loop, ctx, history>>

(* deliver: the loop receives the event; a delivery has to be acknowledged. *)
HandOver ==
  LET delivered == client.event = "delivered"
  IN /\ client.at = "deliver" /\ loop = "select"
     /\ client' = [client EXCEPT !.at = IF delivered THEN "ack" ELSE "dispatch",
                                 !.event = "none", !.signal = NoSignal,
                                 !.ack = "none"]
     /\ loop' = IF delivered THEN "process" ELSE "select"
     /\ history' = IF client.event # "signal" THEN history
                   ELSE [history EXCEPT
                           !.taken = Append(@, client.signal.n),
                           !.clicked = @ \cup {client.signal.about}]
     /\ UNCHANGED <<server, reader, handler, raw, ctx>>

(* awaitDeliveryAck: go on, or close the notification again. *)
AwaitAck ==
  /\ client.at = "ack" /\ client.ack # "none"
  /\ IF client.ack = "persisted"
       THEN /\ client' = [client EXCEPT !.at = "dispatch"]
            /\ UNCHANGED server
       ELSE BeginCall(client, "compensate")
  /\ UNCHANGED <<reader, handler, raw, loop, ctx, history>>

(* The selects of dispatch, deliver and awaitDeliveryAck also end with the  *)
(* context.                                                                 *)
Cancelled ==
  /\ ctx /\ client.at \in {"dispatch", "deliver", "ack"}
  /\ client' = [client EXCEPT !.at = "remove"]
  /\ UNCHANGED <<server, reader, handler, raw, loop, ctx, history>>

(* RemoveSignal, to its unlock and to its end. *)
RemoveSignal ==
  /\ client.at = "remove"
  /\ handler' = RemoveTarget
  /\ client' = [client EXCEPT
                  !.at = IF handler.registered THEN "removing" ELSE "close"]
  /\ history' = Panics(ClosesDoneAgain)
  /\ UNCHANGED <<server, reader, raw, loop, ctx>>

SignalRemoved ==
  /\ client.at = "removing" /\ handler.active = 0
  /\ client' = [client EXCEPT !.at = "close"]
  /\ UNCHANGED <<server, reader, handler, raw, loop, ctx, history>>

(* conn.close, unless the reader runs its body or has run it. *)
ClientCloses ==
  /\ client.at = "close"
  /\ \/ /\ reader.once = "free"
        /\ reader' = [reader EXCEPT !.once = "client"]
        /\ client' = [client EXCEPT !.at = "closing"]
        /\ handler' = TerminateTargets
        /\ history' = Panics(ClosesDoneAgain)
     \/ /\ reader.once = "done"
        /\ client' = [client EXCEPT !.at = "returned"]
        /\ UNCHANGED <<reader, handler, history>>
  /\ UNCHANGED <<server, raw, loop, ctx>>

ClientClosed ==
  /\ client.at = "closing" /\ handler.active = 0
  /\ reader' = [reader EXCEPT !.once = "done"]
  /\ client' = [client EXCEPT !.at = "returned"]
  /\ raw' = CloseChannel
  /\ history' = Panics(ClosesChannelAgain)
  /\ UNCHANGED <<server, handler, loop, ctx>>

-----------------------------------------------------------------------------
(* The owner loop and the runtime *)

(* process: the delivery is saved and acknowledged. *)
Persist ==
  /\ loop = "process"
  /\ loop' = "select"
  /\ client' = [client EXCEPT !.ack = "persisted"]
  /\ history' = [history EXCEPT !.persisted = @ \cup {client.id}]
  /\ UNCHANGED <<server, reader, handler, raw, ctx>>

(* deliveryFailure: it is stale or was not saved, and the loop waits for    *)
(* the compensation.                                                        *)
Refuse ==
  /\ loop = "process"
  /\ loop' = "completion"
  /\ client' = [client EXCEPT !.ack = "refused"]
  /\ UNCHANGED <<server, reader, handler, raw, ctx, history>>

(* An event the loop cannot process ends it, without an acknowledgement. *)
LoopFails ==
  /\ loop \in {"select", "process"} /\ ~ctx
  /\ loop' = "exited"
  /\ UNCHANGED <<server, reader, handler, raw, client, ctx, history>>

(* The compensation is complete or took too long, or the service stops. *)
LoopEnds ==
  /\ loop = "completion" \/ (loop = "select" /\ ctx)
  /\ loop' = "exited"
  /\ UNCHANGED <<server, reader, handler, raw, client, ctx, history>>

(* The service is stopped from outside, or Runtime.Run cancels the context  *)
(* because the loop or the client has ended.                                *)
Stop ==
  /\ ~ctx
  /\ ctx' = TRUE
  /\ UNCHANGED <<server, reader, handler, raw, client, loop, history>>

Cancel == (loop = "exited" \/ client.at = "returned") /\ Stop

-----------------------------------------------------------------------------
ReaderNext ==
  \/ ReadReply \/ ReadSignal \/ SendSignal \/ GiveUpSignal
  \/ ReadEnds \/ ReaderCloses \/ ReaderClosed

ClientNext ==
  \/ Subscribe \/ CallAnswered \/ CallExpires \/ TakeSignal \/ GoDeaf
  \/ HandOver \/ AwaitAck \/ Cancelled \/ RemoveSignal \/ SignalRemoved
  \/ ClientCloses \/ ClientClosed

Next ==
  \/ \E r \in server.requests, ok \in BOOLEAN : Answer(r, ok)
  \/ \E about \in 0..server.shown : Emit(about)
  \/ \E call \in Commands : TakeCommand(call)
  \/ LoseBus \/ Stop \/ Cancel
  \/ ReaderNext \/ ClientNext
  \/ Persist \/ Refuse \/ LoopFails \/ LoopEnds

Spec == Init /\ [][Next]_vars

(* Goroutines that can run do, every call has a deadline, and a select with *)
(* several ready cases takes each of them now and then.  Nothing is assumed *)
(* of the server, the bus, the commands or the stop.                        *)
Fairness ==
  /\ WF_vars(ReaderNext) /\ WF_vars(ClientNext) /\ WF_vars(Cancel)
  /\ WF_vars(Persist \/ Refuse) /\ WF_vars(LoopEnds)
  /\ SF_vars(Cancelled) /\ SF_vars(TakeSignal)

FairSpec == Spec /\ Fairness

-----------------------------------------------------------------------------
(* Properties *)

(* The numbers of the signals that the reader has taken off the wire, in    *)
(* the order in which the dispatcher has dealt or will deal with them.      *)
OffTheWire ==
  LET held == IF client.event = "signal" THEN <<client.signal.n>> ELSE <<>>
      buffered == [i \in DOMAIN raw.buffer |-> raw.buffer[i].n]
      sending == IF reader.at = "send" THEN <<reader.signal.n>> ELSE <<>>
  IN history.taken \o held \o buffered \o sending

(* The design says that overload "applies backpressure instead of dropping  *)
(* a valid signal": until the client is told to stop, every signal is       *)
(* somewhere between the server and the loop, once and in its order,        *)
(* whatever is blocked and even when the bus goes away.                     *)
NothingDropped ==
  client.at \notin {"remove", "removing", "close", "closing", "returned"} =>
    LET read == Len(OffTheWire)
        signals == {i \in DOMAIN server.wire : server.wire[i].type = "signal"}
    IN /\ OffTheWire = [i \in 1..read |-> i]
       /\ {server.wire[i].n : i \in signals} = (read + 1)..server.emitted
       /\ \A i, j \in signals : i < j => server.wire[i].n < server.wire[j].n

(* A click on a notification reaches the loop after the loop has recorded   *)
(* the notification, if Notify returned it to the client, and never when    *)
(* the loop refused it: the reply precedes the click on the connection, and *)
(* the dispatcher does not look at signals before the acknowledgement.      *)
RecordedBeforeClick ==
  history.clicked \cap history.returned \subseteq history.persisted

(* Removing the channel, the loss of the bus, a blocked delivery and the    *)
(* closing of the connection may come in any order: no channel is closed    *)
(* twice, none is sent on after it was closed, and no goroutine of the      *)
(* handler is counted that is not there.                                    *)
NeverPanics ==
  /\ ~history.panicked
  /\ handler.active = IF reader.at = "send" THEN 1 ELSE 0

(* When the service stops the client returns and takes the reader with it,  *)
(* wherever the two are and although nobody empties the buffer any more.    *)
ClientEnds == ctx ~> (client.at = "returned" /\ reader.at = "gone")

(* What the server has emitted reaches the dispatcher, or the client ends:  *)
(* a full buffer blocks the reader, which then cannot read the answer the   *)
(* client waits for, and only the deadline of the call ends this.           *)
SignalsArrive ==
  \A n \in 1..MaxSignals :
    server.emitted = n ~> (Len(history.taken) >= n \/ client.at = "returned")

=============================================================================
