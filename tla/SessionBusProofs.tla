-------------------------- MODULE SessionBusProofs --------------------------
(***************************************************************************)
(* Proofs about the notification client's connection, for every capacity of *)
(* the buffer and any number of signals and commands.                        *)
(*                                                                          *)
(* SoundChannels: the channel is open while anyone may send on it or close   *)
(* it, done is open while the target is registered, and the body of         *)
(* conn.Close has one owner.  Hence nobody closes twice.                     *)
(*                                                                          *)
(* SoundOrder: on the wire the reply that returns an id comes before every   *)
(* signal about it, so once a signal has left the wire its id cannot be     *)
(* returned by a later reply; and the client holds a returned id that is    *)
(* not recorded yet, and looks at no signal while it does.                   *)
(*                                                                          *)
(* Connected and Counted: until the client leaves, a signal that is read    *)
(* finds a target, and the numbers of the signals count from 1 through the  *)
(* dispatcher, the client's hands, the buffer and the reader, and on along  *)
(* the wire.                                                                *)
(***************************************************************************)
EXTENDS SessionBus, SequenceTheorems, TLAPS

-----------------------------------------------------------------------------
(* Types *)

Calls == Commands \cup {"match", "compensate"}
SignalType == [type : {"signal"}, n : Nat, about : Nat]
ReplyType == [type : {"reply"}, n : Nat, ok : BOOLEAN, id : Nat]
MessageType == SignalType \cup ReplyType

(* After these the client takes nothing any more. *)
Leaving == {"remove", "removing", "close", "closing", "returned"}

ServerType ==
  [requests : SUBSET [n : Nat, call : Calls], shown : Nat, emitted : Nat,
   members : Nat, up : BOOLEAN, wire : Seq(MessageType)]
ReaderType ==
  [at : {"read", "send", "close", "closing", "gone"}, signal : SignalType,
   once : {"free", "client", "reader", "done"}]
HandlerType ==
  [closed : BOOLEAN, registered : BOOLEAN, done : BOOLEAN, doomed : BOOLEAN,
   active : Int]
RawType == [buffer : Seq(SignalType), open : BOOLEAN]
ClientType ==
  [at : {"start", "call", "dispatch", "deliver", "ack"} \cup Leaving,
   call : Calls, n : Nat, answer : ReplyType,
   event : {"none", "signal", "delivered", "other"}, id : Nat,
   signal : SignalType, ack : {"none", "persisted", "refused"},
   deaf : BOOLEAN]
HistoryType ==
  [commands : Nat, taken : Seq(Nat), clicked : SUBSET Nat,
   returned : SUBSET Nat, persisted : SUBSET Nat, panicked : BOOLEAN]

TypeOK ==
  /\ server \in ServerType /\ reader \in ReaderType
  /\ handler \in HandlerType /\ raw \in RawType /\ client \in ClientType
  /\ loop \in {"select", "process", "completion", "exited"}
  /\ ctx \in BOOLEAN /\ history \in HistoryType

LEMMA InitTyped == Init => TypeOK
<1> SUFFICES ASSUME Init PROVE TypeOK
    OBVIOUS
<1>1. NoSignal \in SignalType /\ NoReply \in ReplyType
      BY DEF NoSignal, NoReply, SignalType, ReplyType
<1>2. server \in ServerType
      BY DEF Init, ServerType
<1>3. reader \in ReaderType
      BY <1>1 DEF Init, ReaderType
<1>4. handler \in HandlerType /\ raw \in RawType
      BY DEF Init, HandlerType, RawType
<1>5. client \in ClientType
      BY <1>1 DEF Init, ClientType, Calls
<1>6. history \in HistoryType
      BY DEF Init, HistoryType
<1> QED
    BY <1>2, <1>3, <1>4, <1>5, <1>6 DEF Init, TypeOK

(* The first and the other messages on the wire. *)
LEMMA WireTyped ==
  ASSUME TypeOK, server.wire # <<>>
  PROVE  /\ Head(server.wire) \in MessageType
         /\ Tail(server.wire) \in Seq(MessageType)
BY HeadTailProperties DEF TypeOK, ServerType

LEMMA BeginCallTyped ==
  ASSUME TypeOK, NEW call \in Calls, NEW c \in ClientType, BeginCall(c, call)
  PROVE  server' \in ServerType /\ client' \in ClientType
<1>1. NoReply \in ReplyType
      BY DEF NoReply, ReplyType
<1>3. c.n + 1 \in Nat
      BY DEF ClientType
<1>2. client' \in ClientType
      BY <1>1, <1>3, Zenon DEF BeginCall, ClientType
<1>4. [n |-> c.n + 1, call |-> call] \in [n : Nat, call : Calls]
      BY <1>3
<1>5. server' \in ServerType
      BY <1>4 DEF BeginCall, ServerType, TypeOK
<1> QED
    BY <1>2, <1>5

LEMMA SectionsTyped ==
  ASSUME TypeOK
  PROVE  /\ AddSignal \in HandlerType /\ RemoveTarget \in HandlerType
         /\ TerminateTargets \in HandlerType /\ CloseChannel \in RawType
         /\ \A bad \in BOOLEAN : Panics(bad) \in HistoryType
         /\ ClosesDoneAgain \in BOOLEAN /\ ClosesChannelAgain \in BOOLEAN
<1>1. AddSignal \in HandlerType /\ RemoveTarget \in HandlerType
      BY DEF TypeOK, AddSignal, RemoveTarget, HandlerType
<1>2. TerminateTargets \in HandlerType
      BY <1>1 DEF TypeOK, TerminateTargets, HandlerType
<1>3. CloseChannel \in RawType
      BY DEF TypeOK, CloseChannel, RawType, HandlerType
<1>4. \A bad \in BOOLEAN : Panics(bad) \in HistoryType
      BY DEF TypeOK, Panics, HistoryType
<1>5. ClosesDoneAgain \in BOOLEAN /\ ClosesChannelAgain \in BOOLEAN
      BY DEF TypeOK, ClosesDoneAgain, ClosesChannelAgain, HandlerType, RawType
<1> QED
    BY <1>1, <1>2, <1>3, <1>4, <1>5

(* What the server and the bus do. *)
LEMMA ServerTyped ==
  ASSUME TypeOK,
         \/ \E r \in server.requests, ok \in BOOLEAN : Answer(r, ok)
         \/ \E about \in 0..server.shown : Emit(about)
         \/ LoseBus
  PROVE  TypeOK'
<1>1. ASSUME NEW r \in server.requests, NEW ok \in BOOLEAN, Answer(r, ok)
      PROVE  server' \in ServerType
  <2>1. r \in [n : Nat, call : Calls]
        BY DEF TypeOK, ServerType
  <2>2. server.shown + 1 \in Nat /\ server.members + 1 \in Nat
        BY DEF TypeOK, ServerType
  <2>3. PICK id \in Nat :
          /\ id = IF ok /\ r.call = "notify" THEN server.shown + 1 ELSE 0
          /\ server' = [server EXCEPT
               !.requests = @ \ {r},
               !.wire = Append(@, [type |-> "reply", n |-> r.n, ok |-> ok,
                                   id |-> id]),
               !.shown = IF ok /\ r.call = "notify" THEN id ELSE @,
               !.members = IF ok /\ r.call = "match" THEN @ + 1 ELSE @]
        BY <1>1, <2>2 DEF Answer
  <2>4. [type |-> "reply", n |-> r.n, ok |-> ok, id |-> id] \in MessageType
        BY <2>1 DEF MessageType, ReplyType
  <2>5. Append(server.wire, [type |-> "reply", n |-> r.n, ok |-> ok, id |-> id])
          \in Seq(MessageType)
        BY <2>4 DEF TypeOK, ServerType
  <2> QED
      BY <2>2, <2>3, <2>5 DEF TypeOK, ServerType
<1>2. ASSUME NEW about \in 0..server.shown, Emit(about)
      PROVE  server' \in ServerType
  <2>1. about \in Nat /\ server.emitted + 1 \in Nat
        BY DEF TypeOK, ServerType
  <2>2. [type |-> "signal", about |-> about, n |-> server.emitted + 1]
          \in MessageType
        BY <2>1 DEF MessageType, SignalType
  <2>3. Append(server.wire, [type |-> "signal", about |-> about,
                             n |-> server.emitted + 1]) \in Seq(MessageType)
        BY <2>2 DEF TypeOK, ServerType
  <2> QED
      BY <1>2, <2>1, <2>3 DEF Emit, TypeOK, ServerType
<1>3. ASSUME LoseBus
      PROVE  server' \in ServerType
      BY <1>3 DEF LoseBus, TypeOK, ServerType
<1>4. UNCHANGED <<reader, handler, raw, client, loop, ctx, history>>
      BY DEF Answer, Emit, LoseBus
<1> QED
    BY <1>1, <1>2, <1>3, <1>4, Zenon DEF TypeOK

LEMMA ReaderTyped == ASSUME TypeOK, ReaderNext PROVE TypeOK'
<1> USE SectionsTyped
<1>1. CASE ReadReply
  <2>1. /\ Tail(server.wire) \in Seq(MessageType)
        /\ Head(server.wire) \in ReplyType
        BY <1>1, WireTyped DEF ReadReply, MessageType, SignalType, ReplyType
  <2>2. server' \in ServerType
        BY <1>1, <2>1 DEF ReadReply, TypeOK, ServerType
  <2>3. client' \in ClientType
        BY <1>1, <2>1 DEF ReadReply, TypeOK, ClientType
  <2> QED
      BY <1>1, <2>2, <2>3 DEF ReadReply, TypeOK
<1>2. CASE ReadSignal
  <2>1. /\ Tail(server.wire) \in Seq(MessageType)
        /\ Head(server.wire) \in SignalType
        BY <1>2, WireTyped DEF ReadSignal, MessageType, SignalType, ReplyType
  <2>2. server' \in ServerType
        BY <1>2, <2>1 DEF ReadSignal, TypeOK, ServerType
  <2>3. reader' \in ReaderType
        BY <1>2, <2>1 DEF ReadSignal, TypeOK, ReaderType
  <2>4. handler' \in HandlerType
    <3>1. handler.active + 1 \in Int
          BY DEF TypeOK, HandlerType
    <3> QED
        BY <1>2, <3>1 DEF ReadSignal, TypeOK, HandlerType
  <2> QED
      BY <1>2, <2>2, <2>3, <2>4 DEF ReadSignal, TypeOK
<1>3. CASE SendSignal \/ GiveUpSignal
  <2>1. NoSignal \in SignalType
        BY DEF NoSignal, SignalType
  <2>2. handler.active - 1 \in Int
        BY DEF TypeOK, HandlerType
  <2>3. handler' \in HandlerType /\ reader' \in ReaderType
        BY <1>3, <2>1, <2>2
        DEF SendSignal, GiveUpSignal, Delivered, TypeOK, HandlerType, ReaderType
  <2>4. reader.signal \in SignalType /\ raw.buffer \in Seq(SignalType)
        BY DEF TypeOK, ReaderType, RawType
  <2>5. Append(raw.buffer, reader.signal) \in Seq(SignalType)
        BY <2>4
  <2>6. raw' \in RawType
        BY <1>3, <2>5 DEF SendSignal, GiveUpSignal, TypeOK, RawType
  <2>7. raw.open \in BOOLEAN
        BY DEF TypeOK, RawType
  <2>8. history' \in HistoryType
        BY <1>3, <2>7 DEF SendSignal, GiveUpSignal, TypeOK
  <2> QED
      BY <1>3, <2>3, <2>6, <2>8 DEF SendSignal, GiveUpSignal, Delivered, TypeOK
<1>4. CASE ReadEnds \/ ReaderCloses \/ ReaderClosed
  <2>1. reader' \in ReaderType
        BY <1>4 DEF ReadEnds, ReaderCloses, ReaderClosed, TypeOK, ReaderType
  <2>2. handler' \in HandlerType
        BY <1>4 DEF ReadEnds, ReaderCloses, ReaderClosed, TypeOK
  <2>3. history' \in HistoryType /\ raw' \in RawType
        BY <1>4 DEF ReadEnds, ReaderCloses, ReaderClosed, TypeOK
  <2> QED
      BY <1>4, <2>1, <2>2, <2>3
      DEF ReadEnds, ReaderCloses, ReaderClosed, TypeOK
<1> QED
    BY <1>1, <1>2, <1>3, <1>4 DEF ReaderNext

(* The end of a call, in any of the ways it can end. *)
LEMMA AfterCallTyped ==
  ASSUME TypeOK, NEW ok \in BOOLEAN, NEW id \in Nat, AfterCall(ok, id)
  PROVE  TypeOK'
<1>1. NoReply \in ReplyType
      BY DEF NoReply, ReplyType
<1>2. history' \in HistoryType
      BY DEF AfterCall, TypeOK, HistoryType
<1>3. UNCHANGED <<reader, handler, raw, loop, ctx>>
      BY DEF AfterCall
<1>4. CASE client.call = "match" /\ ok /\ client.n = 1
  <2>1. BeginCall(client, "match")
        BY <1>4 DEF AfterCall
  <2>2. "match" \in Calls /\ client \in ClientType
        BY DEF TypeOK, Calls
  <2>3. server' \in ServerType /\ client' \in ClientType
        BY <2>1, <2>2, BeginCallTyped
  <2> QED
      BY <1>2, <1>3, <2>3 DEF TypeOK
<1>5. CASE ~(client.call = "match" /\ ok /\ client.n = 1)
  <2>1. PICK goto \in {"deliver", "dispatch", "remove"},
             event \in {"none", "delivered", "other"} :
          /\ client' = [client EXCEPT !.at = goto, !.id = id,
                                      !.answer = NoReply, !.event = event]
          /\ UNCHANGED server
        BY <1>5, Zenon DEF AfterCall
  <2>2. client' \in ClientType
        BY <1>1, <2>1 DEF TypeOK, ClientType, Leaving
  <2> QED
      BY <1>2, <1>3, <2>1, <2>2 DEF TypeOK
<1> QED
    BY <1>4, <1>5

LEMMA ClientTyped ==
  ASSUME TypeOK, ClientNext \/ \E call \in Commands : TakeCommand(call)
  PROVE  TypeOK'
<1> USE SectionsTyped
<1>1. client \in ClientType /\ "match" \in Calls /\ "compensate" \in Calls
      BY DEF TypeOK, Calls
<1>2. CASE \E call \in Commands : TakeCommand(call)
  <2>1. PICK call \in Calls : TakeCommand(call)
        BY <1>2 DEF Calls
  <2>2. server' \in ServerType /\ client' \in ClientType
        BY <1>1, <2>1, BeginCallTyped DEF TakeCommand
  <2>3. history.commands + 1 \in Nat
        BY DEF TypeOK, HistoryType
  <2>4. history' \in HistoryType
        BY <2>1, <2>3 DEF TakeCommand, TypeOK, HistoryType
  <2> QED
      BY <2>1, <2>2, <2>4 DEF TakeCommand, TypeOK
<1>3. CASE Subscribe
  <2>1. server' \in ServerType /\ client' \in ClientType
        BY <1>1, <1>3, BeginCallTyped DEF Subscribe
  <2> QED
      BY <1>3, <2>1 DEF Subscribe, TypeOK
<1>4. CASE CallAnswered \/ CallExpires
  <2>1. client.answer.ok \in BOOLEAN /\ client.answer.id \in Nat
        BY DEF TypeOK, ClientType, ReplyType
  <2> QED
      BY <1>4, <2>1, AfterCallTyped DEF CallAnswered, CallExpires
<1>5. CASE TakeSignal
  <2>1. Head(raw.buffer) \in SignalType /\ Tail(raw.buffer) \in Seq(SignalType)
        BY <1>5, HeadTailProperties DEF TakeSignal, TypeOK, RawType
  <2>2. raw' \in RawType
        BY <1>5, <2>1 DEF TakeSignal, TypeOK, RawType
  <2>3. client' \in ClientType
        BY <1>5, <2>1 DEF TakeSignal, TypeOK, ClientType
  <2>4. history.taken \in Seq(Nat) /\ Head(raw.buffer).n \in Nat
        BY <2>1 DEF TypeOK, HistoryType, SignalType
  <2>5. Append(history.taken, Head(raw.buffer).n) \in Seq(Nat)
        BY <2>4
  <2>6. history' \in HistoryType
        BY <1>5, <2>5 DEF TakeSignal, TypeOK, HistoryType
  <2> QED
      BY <1>5, <2>2, <2>3, <2>6 DEF TakeSignal, TypeOK
<1>6. CASE HandOver
  <2>1. NoSignal \in SignalType
        BY DEF NoSignal, SignalType
  <2>2. client' \in ClientType
        BY <1>6, <2>1 DEF HandOver, TypeOK, ClientType
  <2>3. history.taken \in Seq(Nat) /\ client.signal.n \in Nat
        BY DEF TypeOK, HistoryType, ClientType, SignalType
  <2>4. Append(history.taken, client.signal.n) \in Seq(Nat)
        BY <2>3
  <2>5. history.clicked \cup {client.signal.about} \in SUBSET Nat
        BY DEF TypeOK, HistoryType, ClientType, SignalType
  <2>6. history' \in HistoryType
        BY <1>6, <2>4, <2>5 DEF HandOver, TypeOK, HistoryType
  <2> QED
      BY <1>6, <2>2, <2>6 DEF HandOver, TypeOK
<1>7. CASE AwaitAck
  <2>1. server' \in ServerType /\ client' \in ClientType
    <3>1. CASE client.ack = "persisted"
          BY <1>7, <3>1 DEF AwaitAck, TypeOK, ClientType
    <3>2. CASE client.ack # "persisted"
          BY <1>1, <1>7, <3>2, BeginCallTyped DEF AwaitAck
    <3> QED
        BY <3>1, <3>2
  <2> QED
      BY <1>7, <2>1 DEF AwaitAck, TypeOK
<1>8. CASE GoDeaf \/ Cancelled \/ SignalRemoved
      BY <1>8 DEF GoDeaf, Cancelled, SignalRemoved, TypeOK, ClientType, Leaving
<1>9. CASE RemoveSignal \/ ClientCloses \/ ClientClosed
  <2>1. client' \in ClientType
        BY <1>9 DEF RemoveSignal, ClientCloses, ClientClosed, TypeOK,
                    ClientType, Leaving
  <2>2. reader' \in ReaderType
        BY <1>9 DEF RemoveSignal, ClientCloses, ClientClosed, TypeOK,
                    ReaderType
  <2>3. handler' \in HandlerType
        BY <1>9 DEF RemoveSignal, ClientCloses, ClientClosed, TypeOK
  <2>4. history' \in HistoryType /\ raw' \in RawType
        BY <1>9 DEF RemoveSignal, ClientCloses, ClientClosed, TypeOK
  <2> QED
      BY <1>9, <2>1, <2>2, <2>3, <2>4
      DEF RemoveSignal, ClientCloses, ClientClosed, TypeOK
<1> QED
    BY <1>2, <1>3, <1>4, <1>5, <1>6, <1>7, <1>8, <1>9 DEF ClientNext

LEMMA LoopTyped ==
  ASSUME TypeOK, Persist \/ Refuse \/ LoopFails \/ LoopEnds \/ Stop \/ Cancel
  PROVE  TypeOK'
<1>1. client' \in ClientType
      BY DEF Persist, Refuse, LoopFails, LoopEnds, Stop, Cancel, TypeOK,
             ClientType
<1>2. history' \in HistoryType
  <2>1. client.id \in Nat
        BY DEF TypeOK, ClientType
  <2>2. CASE Persist
    <3>1. history.persisted \cup {client.id} \in SUBSET Nat
          BY <2>1 DEF TypeOK, HistoryType
    <3> QED
        BY <2>2, <3>1 DEF Persist, TypeOK, HistoryType
  <2>3. CASE Refuse \/ LoopFails \/ LoopEnds \/ Stop \/ Cancel
        BY <2>3 DEF Refuse, LoopFails, LoopEnds, Stop, Cancel, TypeOK
  <2> QED
      BY <2>2, <2>3
<1> QED
    BY <1>1, <1>2
    DEF Persist, Refuse, LoopFails, LoopEnds, Stop, Cancel, TypeOK

LEMMA StepTyped == TypeOK /\ [Next]_vars => TypeOK'
<1>1. ASSUME TypeOK, UNCHANGED vars
      PROVE  TypeOK'
      BY <1>1 DEF vars, TypeOK
<1> QED
    BY <1>1, ServerTyped, ReaderTyped, ClientTyped, LoopTyped, Zenon DEF Next

-----------------------------------------------------------------------------
(* The channels *)

SoundChannels ==
  /\ handler.registered => ~handler.done /\ ~handler.closed
  /\ reader.at = "send" => raw.open
  /\ ~raw.open => handler.closed /\ reader.once = "done"
  /\ reader.once # "free" => handler.closed
  /\ reader.at = "closing" <=> reader.once = "reader"
  /\ client.at = "closing" <=> reader.once = "client"

CInv == TypeOK /\ SoundChannels /\ NeverPanics


LEMMA ServerAndLoopKeepChannels ==
  ASSUME CInv,
         \/ \E r \in server.requests, ok \in BOOLEAN : Answer(r, ok)
         \/ \E about \in 0..server.shown : Emit(about)
         \/ LoseBus
         \/ Persist \/ Refuse \/ LoopFails \/ LoopEnds \/ Stop \/ Cancel
  PROVE  SoundChannels' /\ NeverPanics'
<1>1. UNCHANGED <<reader, handler, raw>>
      BY DEF Answer, Emit, LoseBus, Persist, Refuse, LoopFails, LoopEnds, Stop,
             Cancel
<1>2. client'.at = client.at
      BY DEF Answer, Emit, LoseBus, Persist, Refuse, LoopFails, LoopEnds, Stop,
             Cancel, CInv, TypeOK, ClientType
<1>3. history'.panicked = history.panicked
      BY DEF Answer, Emit, LoseBus, Persist, Refuse, LoopFails, LoopEnds, Stop,
             Cancel, CInv, TypeOK, HistoryType
<1> QED
    BY <1>1, <1>2, <1>3 DEF CInv, SoundChannels, NeverPanics

LEMMA ReaderKeepsChannels ==
  ASSUME CInv, ReaderNext
  PROVE  SoundChannels' /\ NeverPanics'
<1> USE DEF CInv, SoundChannels, NeverPanics
<1>1. /\ reader \in ReaderType /\ handler \in HandlerType /\ raw \in RawType
      /\ client \in ClientType /\ history \in HistoryType
      BY DEF TypeOK
<1>2. CASE ReadReply
  <2>1. client'.at = client.at
        BY <1>1, <1>2 DEF ReadReply, ClientType
  <2> QED
      BY <1>2, <2>1 DEF ReadReply
<1>3. CASE ReadSignal
  <2>1. CASE handler.registered
    <3>1. /\ reader'.at = "send" /\ reader'.once = reader.once
          /\ handler'.active = handler.active + 1
          /\ handler'.registered = handler.registered
          /\ handler'.closed = handler.closed /\ handler'.done = handler.done
          BY <1>1, <1>3, <2>1 DEF ReadSignal, ReaderType, HandlerType
    <3>2. handler.active = 0 /\ raw.open
          BY <1>3, <2>1 DEF ReadSignal
    <3>3. UNCHANGED <<raw, client, history>> /\ reader.at = "read"
          BY <1>3 DEF ReadSignal
    <3> QED
        BY <3>1, <3>2, <3>3
  <2>2. CASE ~handler.registered
        BY <1>3, <2>2 DEF ReadSignal
  <2> QED
      BY <2>1, <2>2
<1>4. CASE SendSignal
  <2>1. ~raw.open = FALSE
        BY <1>4 DEF SendSignal
  <2>2. history'.panicked = FALSE /\ raw'.open = raw.open
        BY <1>1, <1>4, <2>1 DEF SendSignal, Panics, RawType, HistoryType
  <2> QED
      BY <1>1, <1>4, <2>2 DEF SendSignal, Delivered, ReaderType, HandlerType
<1>5. CASE GiveUpSignal
      BY <1>1, <1>5 DEF GiveUpSignal, Delivered, ReaderType, HandlerType
<1>6. CASE ReadEnds
      BY <1>1, <1>6 DEF ReadEnds, ReaderType
<1>7. CASE ReaderCloses
  <2>1. ClosesDoneAgain = FALSE
        BY <1>1 DEF ClosesDoneAgain, HandlerType
  <2>2. history'.panicked = FALSE
        BY <1>1, <1>7, <2>1 DEF ReaderCloses, Panics, HistoryType
  <2> QED
      BY <1>1, <1>7, <2>2
      DEF ReaderCloses, TerminateTargets, RemoveTarget, ReaderType, HandlerType
<1>8. CASE ReaderClosed
  <2>1. ClosesChannelAgain = FALSE
        BY <1>1, <1>8 DEF ReaderClosed, ClosesChannelAgain, HandlerType, RawType
  <2>2. history'.panicked = FALSE
        BY <1>1, <1>8, <2>1 DEF ReaderClosed, Panics, HistoryType
  <2> QED
      BY <1>1, <1>8, <2>2
      DEF ReaderClosed, CloseChannel, ReaderType, RawType, HandlerType
<1> QED
    BY <1>2, <1>3, <1>4, <1>5, <1>6, <1>7, <1>8 DEF ReaderNext

LEMMA ClientKeepsChannels ==
  ASSUME CInv, ClientNext \/ \E call \in Commands : TakeCommand(call)
  PROVE  SoundChannels' /\ NeverPanics'
<1> USE DEF CInv, SoundChannels, NeverPanics
<1>1. /\ reader \in ReaderType /\ handler \in HandlerType /\ raw \in RawType
      /\ client \in ClientType /\ history \in HistoryType
      BY DEF TypeOK
<1>2. CASE \E call \in Commands : TakeCommand(call)
  <2>1. /\ client.at # "closing" /\ client'.at # "closing"
        /\ history'.panicked = history.panicked
        BY <1>1, <1>2 DEF TakeCommand, BeginCall, ClientType, HistoryType
  <2> QED
      BY <1>2, <2>1 DEF TakeCommand
<1>3. CASE Subscribe
  <2>1. client.at # "closing" /\ client'.at # "closing"
        BY <1>1, <1>3 DEF Subscribe, BeginCall, ClientType
  <2> QED
      BY <1>1, <1>3, <2>1 DEF Subscribe, AddSignal, HandlerType
<1>4. CASE CallAnswered \/ CallExpires
  <2>1. /\ client.at # "closing" /\ client'.at # "closing"
        /\ history'.panicked = history.panicked
        /\ UNCHANGED <<reader, handler, raw>>
        BY <1>1, <1>4 DEF CallAnswered, CallExpires, AfterCall, BeginCall,
                          ClientType, HistoryType
  <2> QED
      BY <2>1
<1>5. CASE TakeSignal \/ HandOver
  <2>1. /\ client.at # "closing" /\ client'.at # "closing"
        /\ history'.panicked = history.panicked /\ raw'.open = raw.open
        /\ UNCHANGED <<reader, handler>>
        BY <1>1, <1>5 DEF TakeSignal, HandOver, ClientType, HistoryType, RawType
  <2> QED
      BY <2>1
<1>6. CASE GoDeaf \/ AwaitAck \/ Cancelled \/ SignalRemoved
  <2>1. /\ client.at # "closing" /\ client'.at # "closing"
        /\ UNCHANGED <<reader, handler, raw, history>>
        BY <1>1, <1>6 DEF GoDeaf, AwaitAck, Cancelled, SignalRemoved, BeginCall,
                          ClientType
  <2> QED
      BY <2>1
<1>7. CASE RemoveSignal
  <2>1. ClosesDoneAgain = FALSE
        BY <1>1 DEF ClosesDoneAgain, HandlerType
  <2>2. history'.panicked = FALSE
        BY <1>1, <1>7, <2>1 DEF RemoveSignal, Panics, HistoryType
  <2> QED
      BY <1>1, <1>7, <2>2 DEF RemoveSignal, RemoveTarget, ClientType, HandlerType
<1>8. CASE ClientCloses
  <2>1. ClosesDoneAgain = FALSE
        BY <1>1 DEF ClosesDoneAgain, HandlerType
  <2>2. history'.panicked = FALSE
        BY <1>1, <1>8, <2>1 DEF ClientCloses, Panics, HistoryType
  <2>3. CASE reader.once = "free"
    <3>1. /\ reader'.once = "client" /\ client'.at = "closing"
          /\ reader'.at = reader.at /\ handler' = TerminateTargets
          /\ raw' = raw /\ client.at = "close"
          BY <1>1, <1>8, <2>3 DEF ClientCloses, ReaderType, ClientType
    <3> QED
        BY <1>1, <2>2, <2>3, <3>1 DEF TerminateTargets, RemoveTarget,
                                      ReaderType, HandlerType
  <2>4. CASE reader.once # "free"
    <3>1. /\ client'.at = "returned" /\ client.at = "close"
          /\ UNCHANGED <<reader, handler, raw>>
          BY <1>1, <1>8, <2>4 DEF ClientCloses, ClientType
    <3> QED
        BY <2>2, <3>1
  <2> QED
      BY <2>3, <2>4
<1>9. CASE ClientClosed
  <2>1. ClosesChannelAgain = FALSE
        BY <1>1, <1>9 DEF ClientClosed, ClosesChannelAgain, HandlerType, RawType
  <2>2. history'.panicked = FALSE
        BY <1>1, <1>9, <2>1 DEF ClientClosed, Panics, HistoryType
  <2> QED
      BY <1>1, <1>9, <2>2 DEF ClientClosed, CloseChannel, ReaderType, RawType,
                              HandlerType, ClientType
<1> QED
    BY <1>2, <1>3, <1>4, <1>5, <1>6, <1>7, <1>8, <1>9 DEF ClientNext

LEMMA ChannelsStaySound == CInv /\ [Next]_vars => CInv'
<1> SUFFICES ASSUME CInv, [Next]_vars PROVE CInv'
    OBVIOUS
<1>1. TypeOK'
      BY StepTyped DEF CInv
<1>2. ASSUME UNCHANGED vars
      PROVE  SoundChannels' /\ NeverPanics'
      BY <1>2 DEF vars, CInv, SoundChannels, NeverPanics
<1>3. SoundChannels' /\ NeverPanics'
      BY <1>2, ServerAndLoopKeepChannels, ReaderKeepsChannels,
         ClientKeepsChannels, Zenon DEF Next
<1> QED
    BY <1>1, <1>3 DEF CInv

LEMMA InitChannels == Init => CInv
BY InitTyped DEF Init, CInv, SoundChannels, NeverPanics

(* Removing the channel, the loss of the bus, a delivery that waits and the *)
(* two ways to close the connection never close a channel twice nor send on *)
(* a closed one, in whatever order they come (dbus.go, blockingSignalHandler). *)
THEOREM ChannelsAreClosedOnce == Spec => []NeverPanics
<1>1. CInv => NeverPanics
      BY DEF CInv
<1> QED
    BY <1>1, InitChannels, ChannelsStaySound, PTL DEF Spec

-----------------------------------------------------------------------------
(* The order of a notification's reply and its signals *)

(* The notifications about which a signal has left the wire. *)
Heard ==
  ({reader.signal.about, client.signal.about} \cup history.clicked
     \cup {raw.buffer[i].about : i \in 1..Len(raw.buffer)}) \ {0}

(* A returned id comes before the signals about it, if they are on the wire *)
(* together, and is not on the wire if one of them has left it.             *)
ReplyFirst ==
  \A j \in 1..Len(server.wire) : server.wire[j].type = "reply" =>
    /\ server.wire[j].id \notin Heard
    /\ \A i \in 1..Len(server.wire) :
         /\ server.wire[i].type = "signal" /\ server.wire[i].about # 0
         /\ server.wire[i].about = server.wire[j].id
         => j < i

(* Signals are about notifications that were shown. *)
AboutShown ==
  /\ \A i \in 1..Len(server.wire) :
       server.wire[i].type = "signal" => server.wire[i].about =< server.shown
  /\ \A x \in Heard : x =< server.shown

(* The id of the answer to a call is new to the loop. *)
AnswerIsNew ==
  /\ client.answer.id \notin history.clicked
  /\ client.at # "call" => client.answer.id = 0
  /\ 0 \notin history.clicked
  /\ client.event = "signal" => client.signal.about # 0

(* What Notify returned and the loop has not recorded is in the client's    *)
(* hands, which do not touch a signal, or the client is leaving.            *)
Holding == client.at = "ack" \/ (client.at = "deliver" /\ client.event = "delivered")
Through == client.at \in Leaving \/ (client.at = "call" /\ client.call = "compensate")

InHand ==
  /\ Holding => /\ history.returned \ history.persisted \subseteq {client.id}
                /\ client.id \notin history.clicked
  /\ ~Holding /\ ~Through => history.returned \subseteq history.persisted
  /\ client.at = "ack" /\ client.ack = "persisted" =>
       client.id \in history.persisted

SoundOrder == ReplyFirst /\ AboutShown /\ AnswerIsNew /\ InHand

OInv == TypeOK /\ SoundOrder /\ RecordedBeforeClick

LEMMA InitOrder == Init => OInv
<1> SUFFICES ASSUME Init PROVE OInv
    OBVIOUS
<1>1. /\ server.wire = <<>> /\ raw.buffer = <<>> /\ history.clicked = {}
      /\ reader.signal.about = 0 /\ client.signal.about = 0
      /\ client.answer.id = 0 /\ client.event = "none" /\ client.at = "start"
      /\ history.returned = {}
      BY DEF Init, NoSignal, NoReply
<1>2. Heard = {}
      BY <1>1 DEF Heard
<1>3. ReplyFirst /\ AboutShown
      BY <1>1, <1>2 DEF ReplyFirst, AboutShown
<1>4. AnswerIsNew
      BY <1>1 DEF AnswerIsNew
<1>5. InHand
      BY <1>1 DEF InHand, Holding, Through, Leaving
<1> QED
    BY <1>1, <1>3, <1>4, <1>5, InitTyped DEF OInv, SoundOrder, RecordedBeforeClick

(* A message joins the wire at its end. *)
LEMMA WireGrows ==
  ASSUME OInv, NEW m \in MessageType,
         server'.wire = Append(server.wire, m),
         server'.shown \in Nat, server'.shown >= server.shown,
         Heard' = Heard,
         m.type = "signal" => m.about =< server'.shown,
         m.type = "reply" => m.id = 0 \/ m.id > server.shown
  PROVE  ReplyFirst' /\ AboutShown'
<1> DEFINE wire == server.wire
           next == server'.wire
<1>1. wire \in Seq(MessageType) /\ Len(wire) \in Nat /\ server.shown \in Nat
      BY DEF OInv, TypeOK, ServerType
<1>2. /\ Len(next) = Len(wire) + 1 /\ next[Len(wire) + 1] = m
      /\ \A i \in 1..Len(wire) : next[i] = wire[i]
      BY <1>1, AppendProperties
<1>3. \A i \in 1..Len(next) : i \in 1..Len(wire) \/ i = Len(wire) + 1
      BY <1>1, <1>2
<1>4. Heard \subseteq Nat
  <2>1. \A i \in 1..Len(raw.buffer) : raw.buffer[i] \in SignalType
        BY DEF OInv, TypeOK, RawType
  <2>2. /\ reader.signal.about \in Nat /\ client.signal.about \in Nat
        /\ history.clicked \subseteq Nat
        BY DEF OInv, TypeOK, ReaderType, ClientType, HistoryType, SignalType
  <2> QED
      BY <2>1, <2>2 DEF Heard, SignalType
<1>5. \A i \in 1..Len(wire) : wire[i].type = "signal" => wire[i].about \in Nat
  <2>1. \A i \in 1..Len(wire) : wire[i] \in MessageType
        BY <1>1
  <2> QED
      BY <2>1 DEF MessageType, SignalType, ReplyType
<1> HIDE DEF wire, next
<1>6. /\ \A i \in 1..Len(wire) :
           wire[i].type = "signal" => wire[i].about =< server.shown
      /\ \A x \in Heard : x =< server.shown
      BY DEF OInv, SoundOrder, AboutShown, wire
<1>7. \A j \in 1..Len(wire) : wire[j].type = "reply" =>
        /\ wire[j].id \notin Heard
        /\ \A i \in 1..Len(wire) :
             /\ wire[i].type = "signal" /\ wire[i].about # 0
             /\ wire[i].about = wire[j].id
             => j < i
      BY DEF OInv, SoundOrder, ReplyFirst, wire
<1>8. m.type \in {"signal", "reply"}
      BY DEF MessageType, SignalType, ReplyType
<1>9. /\ \A i \in 1..Len(next) :
           next[i].type = "signal" => next[i].about =< server'.shown
      /\ \A x \in Heard : x =< server'.shown
  <2>1. \A n \in Nat : n =< server.shown => n =< server'.shown
        BY <1>1
  <2>2. ASSUME NEW i \in 1..Len(next), next[i].type = "signal"
        PROVE  next[i].about =< server'.shown
    <3>1. CASE i \in 1..Len(wire)
          BY ONLY <1>2, <1>5, <1>6, <2>1, <2>2, <3>1
    <3>2. CASE i = Len(wire) + 1
          BY ONLY <1>2, <2>2, <3>2,
                  m.type = "signal" => m.about =< server'.shown
    <3> QED
        BY ONLY <1>3, <2>2, <3>1, <3>2
  <2>3. \A x \in Heard : x =< server'.shown
        BY ONLY <1>4, <1>6, <2>1
  <2> QED
      BY ONLY <2>2, <2>3
<1>10. ASSUME NEW j \in 1..Len(next), next[j].type = "reply"
       PROVE  /\ next[j].id \notin Heard
              /\ \A i \in 1..Len(next) :
                   /\ next[i].type = "signal" /\ next[i].about # 0
                   /\ next[i].about = next[j].id
                   => j < i
  <2>1. CASE j \in 1..Len(wire)
        BY <1>1, <1>2, <1>3, <1>7, <1>10, <2>1
  <2>2. CASE j = Len(wire) + 1
    <3>1. /\ m.id \in Nat /\ m.type # "signal"
          /\ m.id = 0 \/ m.id > server.shown
          BY <1>2, <1>10, <2>2 DEF MessageType, ReplyType, SignalType
    <3>2. 0 \notin Heard
          BY DEF Heard
    <3>3. m.id \notin Heard
          BY <1>1, <1>4, <1>6, <3>1, <3>2
    <3>4. \A i \in 1..Len(next) :
            next[i].type = "signal" /\ next[i].about # 0 => next[i].about # m.id
      <4>1. ASSUME NEW i \in 1..Len(wire), wire[i].type = "signal",
                   wire[i].about # 0
            PROVE  wire[i].about # m.id
            BY <1>1, <1>5, <1>6, <3>1, <4>1
      <4> QED
          BY <1>2, <1>3, <3>1, <4>1
    <3> QED
        BY <1>2, <2>2, <3>3, <3>4
  <2> QED
      BY <1>3, <2>1, <2>2
<1>11. AboutShown'
       BY <1>9 DEF AboutShown, next
<1>12. ReplyFirst'
       BY <1>10 DEF ReplyFirst, next
<1> QED
    BY <1>11, <1>12

(* The head of the wire is read: the rest stays in order, and if it was a   *)
(* signal, no reply behind it returns the id it is about.                   *)
LEMMA WireShrinks ==
  ASSUME OInv, server.wire # <<>>, server'.wire = Tail(server.wire),
         server'.shown = server.shown,
         Heard' \subseteq Heard \/
           /\ Head(server.wire).type = "signal"
           /\ Heard' \subseteq Heard \cup ({Head(server.wire).about} \ {0})
  PROVE  ReplyFirst' /\ AboutShown'
<1> DEFINE wire == server.wire
           rest == server'.wire
<1>1. wire \in Seq(MessageType) /\ Len(wire) \in Nat /\ Len(wire) >= 1
      BY DEF OInv, TypeOK, ServerType
<1>2. /\ Len(rest) = Len(wire) - 1 /\ Head(wire) = wire[1]
      /\ \A i \in 1..Len(rest) : rest[i] = wire[i + 1]
      BY <1>1, HeadTailProperties
<1>3. \A i \in 1..Len(rest) : i + 1 \in 1..Len(wire) /\ i + 1 > 1
      BY <1>1, <1>2
<1> HIDE DEF wire, rest
<1>4. /\ \A i \in 1..Len(wire) :
           wire[i].type = "signal" => wire[i].about =< server.shown
      /\ \A x \in Heard : x =< server.shown
      BY DEF OInv, SoundOrder, AboutShown, wire
<1>5. \A j \in 1..Len(wire) : wire[j].type = "reply" =>
        /\ wire[j].id \notin Heard
        /\ \A i \in 1..Len(wire) :
             /\ wire[i].type = "signal" /\ wire[i].about # 0
             /\ wire[i].about = wire[j].id
             => j < i
      BY DEF OInv, SoundOrder, ReplyFirst, wire
<1>6. 1 \in 1..Len(wire)
      BY <1>1
<1>7. \A x \in Heard' : \/ x \in Heard
                        \/ wire[1].type = "signal" /\ x = wire[1].about /\ x # 0
      BY <1>2 DEF wire
<1>8. /\ \A i \in 1..Len(rest) :
           rest[i].type = "signal" => rest[i].about =< server.shown
      /\ \A x \in Heard' : x =< server.shown
      BY <1>2, <1>3, <1>4, <1>6, <1>7
<1>9. ASSUME NEW j \in 1..Len(rest), rest[j].type = "reply"
      PROVE  /\ rest[j].id \notin Heard'
             /\ \A i \in 1..Len(rest) :
                  /\ rest[i].type = "signal" /\ rest[i].about # 0
                  /\ rest[i].about = rest[j].id
                  => j < i
  <2>1. /\ j + 1 \in 1..Len(wire) /\ rest[j] = wire[j + 1] /\ ~(j + 1 < 1)
        /\ j \in Nat
        BY <1>1, <1>2, <1>3
  <2>2. rest[j].id \notin Heard'
        BY <1>5, <1>6, <1>7, <1>9, <2>1
  <2>3. \A i \in 1..Len(rest) :
          /\ rest[i].type = "signal" /\ rest[i].about # 0
          /\ rest[i].about = rest[j].id
          => j + 1 < i + 1
        BY <1>2, <1>3, <1>5, <1>9, <2>1
  <2> QED
      BY <2>1, <2>2, <2>3
<1>10. AboutShown'
       BY <1>8 DEF AboutShown, rest
<1>11. ReplyFirst'
       BY <1>9 DEF ReplyFirst, rest
<1> QED
    BY <1>10, <1>11

LEMMA ServerKeepsOrder ==
  ASSUME OInv,
         \/ \E r \in server.requests, ok \in BOOLEAN : Answer(r, ok)
         \/ \E about \in 0..server.shown : Emit(about)
         \/ LoseBus
  PROVE  SoundOrder' /\ RecordedBeforeClick'
<1>1. UNCHANGED <<reader, handler, raw, client, loop, ctx, history>>
      BY DEF Answer, Emit, LoseBus
<1>2. Heard' = Heard
      BY <1>1 DEF Heard
<1>3. AnswerIsNew' /\ InHand' /\ RecordedBeforeClick'
      BY <1>1 DEF OInv, SoundOrder, AnswerIsNew, InHand, Holding, Through,
                  RecordedBeforeClick
<1>4. ASSUME NEW r \in server.requests, NEW ok \in BOOLEAN, Answer(r, ok)
      PROVE  ReplyFirst' /\ AboutShown'
  <2>1. r \in [n : Nat, call : Calls] /\ server.shown + 1 \in Nat
        BY DEF OInv, TypeOK, ServerType
  <2>2. PICK id \in Nat, m \in MessageType :
          /\ id = IF ok /\ r.call = "notify" THEN server.shown + 1 ELSE 0
          /\ m = [type |-> "reply", n |-> r.n, ok |-> ok, id |-> id]
        BY <2>1 DEF MessageType, ReplyType
  <2>3. /\ server'.wire = Append(server.wire, m)
        /\ server'.shown = IF ok /\ r.call = "notify" THEN id ELSE server.shown
        BY <1>4, <2>2 DEF Answer, OInv, TypeOK, ServerType
  <2>4. /\ server'.shown \in Nat /\ server'.shown >= server.shown
        /\ m.id = 0 \/ m.id > server.shown
        BY <2>1, <2>2, <2>3 DEF OInv, TypeOK, ServerType
  <2> QED
      BY <1>2, <2>2, <2>3, <2>4, WireGrows
<1>5. ASSUME NEW about \in 0..server.shown, Emit(about)
      PROVE  ReplyFirst' /\ AboutShown'
  <2>1. server.shown \in Nat /\ server.emitted + 1 \in Nat /\ about \in Nat
        BY DEF OInv, TypeOK, ServerType
  <2>2. PICK m \in MessageType :
          m = [type |-> "signal", about |-> about, n |-> server.emitted + 1]
        BY <2>1 DEF MessageType, SignalType
  <2>3. server'.wire = Append(server.wire, m) /\ server'.shown = server.shown
        BY <1>5, <2>2 DEF Emit, OInv, TypeOK, ServerType
  <2> QED
      BY <1>2, <2>1, <2>2, <2>3, WireGrows
<1>6. ASSUME LoseBus
      PROVE  ReplyFirst' /\ AboutShown'
  <2>1. server'.wire = server.wire /\ server'.shown = server.shown
        BY <1>6 DEF LoseBus, OInv, TypeOK, ServerType
  <2> QED
      BY <1>2, <2>1 DEF OInv, SoundOrder, ReplyFirst, AboutShown
<1> QED
    BY <1>3, <1>4, <1>5, <1>6 DEF SoundOrder

LEMMA ReaderKeepsOrder ==
  ASSUME OInv, ReaderNext
  PROVE  SoundOrder' /\ RecordedBeforeClick'
<1>1. /\ reader \in ReaderType /\ raw \in RawType /\ client \in ClientType
      /\ history \in HistoryType
      BY DEF OInv, TypeOK
<1>2. /\ history'.clicked = history.clicked
      /\ history'.returned = history.returned
      /\ history'.persisted = history.persisted
      BY <1>1 DEF ReaderNext, ReadReply, ReadSignal, SendSignal, GiveUpSignal,
                  Delivered, ReadEnds, ReaderCloses, ReaderClosed, Panics,
                  HistoryType
<1>3. /\ client'.at = client.at /\ client'.call = client.call
      /\ client'.event = client.event /\ client'.id = client.id
      /\ client'.signal = client.signal /\ client'.ack = client.ack
      BY <1>1 DEF ReaderNext, ReadReply, ReadSignal, SendSignal, GiveUpSignal,
                  Delivered, ReadEnds, ReaderCloses, ReaderClosed, ClientType
<1>4. InHand' /\ RecordedBeforeClick'
      BY <1>2, <1>3 DEF OInv, SoundOrder, InHand, Holding, Through,
                        RecordedBeforeClick
<1>5. CASE ReadReply
  <2>1. /\ Head(server.wire) = server.wire[1] /\ 1 \in 1..Len(server.wire)
        /\ server.wire[1].type = "reply"
        BY <1>5 DEF ReadReply, OInv, TypeOK, ServerType
  <2>2. server.wire[1].id \notin Heard
        BY <2>1 DEF OInv, SoundOrder, ReplyFirst
  <2>3. history.clicked \subseteq Heard
        BY DEF OInv, SoundOrder, AnswerIsNew, Heard
  <2>4. AnswerIsNew'
        BY <1>1, <1>2, <1>3, <1>5, <2>1, <2>2, <2>3
        DEF OInv, SoundOrder, AnswerIsNew, ReadReply, ClientType
  <2>5. Heard' = Heard
        BY <1>2, <1>3, <1>5 DEF Heard, ReadReply
  <2>6. /\ server.wire # <<>> /\ server'.wire = Tail(server.wire)
        /\ server'.shown = server.shown
        BY <1>5 DEF ReadReply, OInv, TypeOK, ServerType
  <2> QED
      BY <1>4, <2>4, <2>5, <2>6, WireShrinks DEF SoundOrder
<1>6. CASE ReadSignal
  <2>1. AnswerIsNew'
        BY <1>6 DEF OInv, SoundOrder, AnswerIsNew, ReadSignal
  <2>2. /\ server.wire # <<>> /\ server'.wire = Tail(server.wire)
        /\ server'.shown = server.shown /\ Head(server.wire).type = "signal"
        BY <1>6 DEF ReadSignal, OInv, TypeOK, ServerType
  <2>3. reader'.signal \in {reader.signal, Head(server.wire)}
        BY <1>1, <1>6 DEF ReadSignal, ReaderType
  <2>4. Heard' \subseteq Heard \cup ({Head(server.wire).about} \ {0})
        BY <1>6, <2>3 DEF Heard, ReadSignal
  <2> QED
      BY <1>4, <2>1, <2>2, <2>4, WireShrinks DEF SoundOrder
<1>7. CASE SendSignal \/ GiveUpSignal \/ ReadEnds \/ ReaderCloses \/ ReaderClosed
  <2>1. UNCHANGED <<server, client>>
        BY <1>7 DEF SendSignal, GiveUpSignal, Delivered, ReadEnds, ReaderCloses,
                    ReaderClosed
  <2>2. AnswerIsNew'
        BY <1>2, <2>1 DEF OInv, SoundOrder, AnswerIsNew
  <2>3. Heard' \subseteq Heard
    <3>1. CASE SendSignal
      <4>1. /\ raw'.buffer = Append(raw.buffer, reader.signal)
            /\ reader'.signal = NoSignal /\ NoSignal.about = 0
            BY <1>1, <3>1 DEF SendSignal, Delivered, RawType, ReaderType, NoSignal
      <4>2. \A i \in 1..Len(raw'.buffer) :
              raw'.buffer[i].about \in {reader.signal.about} \cup
                {raw.buffer[k].about : k \in 1..Len(raw.buffer)}
        <5>1. raw.buffer \in Seq(SignalType) /\ reader.signal \in SignalType
              BY <1>1 DEF RawType, ReaderType
        <5>2. /\ Len(raw'.buffer) = Len(raw.buffer) + 1
              /\ raw'.buffer[Len(raw.buffer) + 1] = reader.signal
              /\ \A i \in 1..Len(raw.buffer) : raw'.buffer[i] = raw.buffer[i]
              /\ Len(raw.buffer) \in Nat
              BY <4>1, <5>1, AppendProperties
        <5> QED
            BY <5>2
      <4> QED
          BY <1>2, <2>1, <4>1, <4>2 DEF Heard
    <3>2. CASE ~SendSignal
      <4>1. raw'.buffer = raw.buffer
            BY <1>1, <1>7, <3>2 DEF GiveUpSignal, ReadEnds, ReaderCloses,
                                    ReaderClosed, CloseChannel, RawType
      <4>2. reader'.signal \in {reader.signal, NoSignal} /\ NoSignal.about = 0
            BY <1>1, <1>7, <3>2 DEF GiveUpSignal, Delivered, ReadEnds,
                 ReaderCloses, ReaderClosed, ReaderType, NoSignal
      <4> QED
          BY <1>2, <2>1, <4>1, <4>2 DEF Heard
    <3> QED
        BY <3>1, <3>2
  <2>4. ReplyFirst' /\ AboutShown'
        BY <2>1, <2>3 DEF OInv, SoundOrder, ReplyFirst, AboutShown
  <2> QED
      BY <1>4, <2>2, <2>4 DEF SoundOrder
<1> QED
    BY <1>5, <1>6, <1>7 DEF ReaderNext

(* A call begins: nothing is heard or returned by that. *)
LEMMA BeginCallKeeps ==
  ASSUME OInv, NEW call \in Calls, BeginCall(client, call),
         UNCHANGED <<reader, raw>>,
         history'.clicked = history.clicked,
         history'.returned = history.returned,
         history'.persisted = history.persisted
  PROVE  /\ ReplyFirst' /\ AboutShown' /\ AnswerIsNew'
         /\ client'.at = "call" /\ client'.call = call
         /\ client'.id = client.id
<1>1. client \in ClientType /\ NoReply.id = 0
      BY DEF OInv, TypeOK, NoReply
<1>2. /\ client'.at = "call" /\ client'.call = call
      /\ client'.id = client.id /\ client'.answer.id = 0
      /\ client'.signal = client.signal /\ client'.event = client.event
      BY <1>1 DEF BeginCall, ClientType
<1>3. Heard' = Heard
      BY <1>2 DEF Heard
<1>4. server'.wire = server.wire /\ server'.shown = server.shown
      BY DEF BeginCall, OInv, TypeOK, ServerType
<1>5. ReplyFirst' /\ AboutShown'
      BY <1>3, <1>4 DEF OInv, SoundOrder, ReplyFirst, AboutShown
<1>6. AnswerIsNew'
      BY <1>2 DEF OInv, SoundOrder, AnswerIsNew
<1> QED
    BY <1>2, <1>5, <1>6

LEMMA AfterCallKeepsOrder ==
  ASSUME OInv, NEW ok \in BOOLEAN, NEW id \in Nat, AfterCall(ok, id),
         client.at = "call", id \notin history.clicked
  PROVE  SoundOrder' /\ RecordedBeforeClick'
<1>1. client \in ClientType /\ history \in HistoryType
      BY DEF OInv, TypeOK
<1>2. /\ history'.clicked = history.clicked
      /\ history'.persisted = history.persisted
      /\ history'.returned = IF ok /\ client.call = "notify"
                               THEN history.returned \cup {id}
                               ELSE history.returned
      BY <1>1 DEF AfterCall, HistoryType
<1>3. UNCHANGED <<reader, raw>>
      BY DEF AfterCall
<1>4. CASE client.call = "match" /\ ok /\ client.n = 1
  <2>1. BeginCall(client, "match") /\ "match" \in Calls
        BY <1>4 DEF AfterCall, Calls
  <2>2. history'.returned = history.returned
        BY <1>2, <1>4
  <2>3. /\ ReplyFirst' /\ AboutShown' /\ AnswerIsNew'
        /\ client'.at = "call" /\ client'.call = "match"
        BY <1>2, <1>3, <2>1, <2>2, BeginCallKeeps
  <2>4. InHand' /\ RecordedBeforeClick'
        BY <1>2, <1>4, <2>2, <2>3
        DEF OInv, SoundOrder, InHand, Holding, Through, Leaving,
            RecordedBeforeClick
  <2> QED
      BY <2>3, <2>4 DEF SoundOrder
<1>5. CASE ~(client.call = "match" /\ ok /\ client.n = 1)
  <2>1. /\ UNCHANGED server
        /\ client'.id = id /\ client'.answer.id = 0
        /\ client'.signal = client.signal
        /\ client'.event # "signal" /\ client'.call = client.call
    <3>1. PICK goto \in {"deliver", "dispatch", "remove"},
               event \in {"none", "delivered", "other"} :
            /\ client' = [client EXCEPT !.at = goto, !.id = id,
                                        !.answer = NoReply, !.event = event]
            /\ UNCHANGED server
          BY <1>5, Zenon DEF AfterCall
    <3> QED
        BY <1>1, <3>1 DEF ClientType, NoReply
  <2>2. Heard' = Heard
        BY <1>2, <1>3, <2>1 DEF Heard
  <2>3. ReplyFirst' /\ AboutShown' /\ AnswerIsNew'
        BY <1>2, <2>1, <2>2
        DEF OInv, SoundOrder, ReplyFirst, AboutShown, AnswerIsNew
  <2>4. CASE client.call = "notify" /\ ok
    <3>1. client'.at = "deliver" /\ client'.event = "delivered"
          BY <1>1, <2>4 DEF AfterCall, Commands, ClientType
    <3>2. history.returned \subseteq history.persisted
          BY <2>4 DEF OInv, SoundOrder, InHand, Holding, Through, Leaving
    <3> QED
        BY <1>2, <2>1, <2>3, <2>4, <3>1, <3>2
        DEF SoundOrder, InHand, Holding, Through, Leaving, RecordedBeforeClick
  <2>5. CASE ~(client.call = "notify" /\ ok)
    <3>1. history'.returned = history.returned
          BY <1>2, <2>5
    <3>2. CASE client.call = "compensate"
      <4>1. client'.at = "remove"
            BY <1>1, <3>2 DEF AfterCall, Commands, ClientType
      <4> QED
          BY <1>2, <2>3, <3>1, <4>1
          DEF OInv, SoundOrder, InHand, Holding, Through, Leaving,
              RecordedBeforeClick
    <3>3. CASE client.call # "compensate"
      <4>1. client'.at # "ack" /\ client'.event # "delivered"
        <5>1. PICK goto \in {"deliver", "dispatch", "remove"},
                   event \in {"none", "other"} :
                client' = [client EXCEPT !.at = goto, !.id = id,
                                         !.answer = NoReply, !.event = event]
              BY <1>5, <2>5, Zenon DEF AfterCall
        <5> QED
            BY <1>1, <5>1 DEF ClientType
      <4>2. history.returned \subseteq history.persisted
            BY <3>3 DEF OInv, SoundOrder, InHand, Holding, Through, Leaving
      <4> QED
          BY <1>2, <2>3, <3>1, <4>1, <4>2
          DEF SoundOrder, InHand, Holding, RecordedBeforeClick
    <3> QED
        BY <3>2, <3>3
  <2> QED
      BY <2>4, <2>5
<1> QED
    BY <1>4, <1>5

LEMMA ClientKeepsOrder ==
  ASSUME OInv, ClientNext \/ \E call \in Commands : TakeCommand(call)
  PROVE  SoundOrder' /\ RecordedBeforeClick'
<1>1. /\ client \in ClientType /\ history \in HistoryType /\ raw \in RawType
      /\ reader \in ReaderType
      BY DEF OInv, TypeOK
<1>2. CASE \E call \in Commands : TakeCommand(call)
  <2>1. PICK call \in Calls : TakeCommand(call) /\ call # "compensate"
        BY <1>2 DEF Calls, Commands
  <2>2. /\ BeginCall(client, call) /\ UNCHANGED <<reader, raw>>
        /\ history'.clicked = history.clicked
        /\ history'.returned = history.returned
        /\ history'.persisted = history.persisted
        /\ client.at = "dispatch"
        BY <1>1, <2>1 DEF TakeCommand, HistoryType
  <2>3. /\ ReplyFirst' /\ AboutShown' /\ AnswerIsNew'
        /\ client'.at = "call" /\ client'.call = call
        BY <2>2, BeginCallKeeps
  <2>4. InHand' /\ RecordedBeforeClick'
        BY <2>1, <2>2, <2>3 DEF OInv, SoundOrder, InHand, Holding, Through,
                                Leaving, RecordedBeforeClick
  <2> QED
      BY <2>3, <2>4 DEF SoundOrder
<1>3. CASE Subscribe
  <2>1. /\ BeginCall(client, "match") /\ UNCHANGED <<reader, raw, history>>
        /\ client.at = "start" /\ "match" \in Calls
        BY <1>3 DEF Subscribe, Calls
  <2>2. /\ ReplyFirst' /\ AboutShown' /\ AnswerIsNew'
        /\ client'.at = "call" /\ client'.call = "match"
        BY <2>1, BeginCallKeeps
  <2>3. InHand' /\ RecordedBeforeClick'
        BY <2>1, <2>2 DEF OInv, SoundOrder, InHand, Holding, Through, Leaving,
                          RecordedBeforeClick
  <2> QED
      BY <2>2, <2>3 DEF SoundOrder
<1>4. CASE CallAnswered
  <2>1. /\ client.answer.ok \in BOOLEAN /\ client.answer.id \in Nat
        /\ AfterCall(client.answer.ok, client.answer.id) /\ client.at = "call"
        BY <1>1, <1>4 DEF CallAnswered, ClientType, ReplyType
  <2>2. client.answer.id \notin history.clicked
        BY DEF OInv, SoundOrder, AnswerIsNew
  <2> QED
      BY <2>1, <2>2, AfterCallKeepsOrder
<1>5. CASE CallExpires
  <2>1. AfterCall(FALSE, 0) /\ client.at = "call"
        BY <1>5 DEF CallExpires
  <2>2. 0 \notin history.clicked
        BY DEF OInv, SoundOrder, AnswerIsNew
  <2> QED
      BY <2>1, <2>2, AfterCallKeepsOrder
<1>6. CASE TakeSignal
  <2>1. /\ client.at = "dispatch" /\ UNCHANGED <<server, reader>>
        /\ client'.at \in {"dispatch", "deliver"}
        /\ client'.event # "delivered" \/ client'.at = "dispatch"
        /\ client'.answer = client.answer
        /\ history'.clicked = history.clicked
        /\ history'.returned = history.returned
        /\ history'.persisted = history.persisted
        BY <1>1, <1>6 DEF TakeSignal, ClientType, HistoryType
  <2>2. /\ raw.buffer # <<>> /\ raw.buffer \in Seq(SignalType)
        /\ raw'.buffer = Tail(raw.buffer)
        BY <1>1, <1>6 DEF TakeSignal, RawType
  <2>3. /\ Head(raw.buffer) = raw.buffer[1] /\ 1 \in 1..Len(raw.buffer)
        /\ Len(raw'.buffer) = Len(raw.buffer) - 1 /\ Len(raw.buffer) \in Nat
        /\ \A i \in 1..Len(raw'.buffer) : raw'.buffer[i] = raw.buffer[i + 1]
        BY <2>2, HeadTailProperties
  <2>4. \/ client' = client
        \/ /\ client'.signal = raw.buffer[1] /\ client'.event = "signal"
           /\ raw.buffer[1].about # 0
        BY <1>1, <1>6, <2>3 DEF TakeSignal, ClientType
  <2>5. \A i \in 1..Len(raw'.buffer) : i + 1 \in 1..Len(raw.buffer)
        BY <2>3
  <2>6. Heard' \subseteq Heard
    <3>1. client'.signal.about \in {client.signal.about, raw.buffer[1].about}
          BY <2>4
    <3> QED
        BY <2>1, <2>3, <2>5, <3>1 DEF Heard
  <2>7. ReplyFirst' /\ AboutShown'
        BY <2>1, <2>6 DEF OInv, SoundOrder, ReplyFirst, AboutShown
  <2>8. AnswerIsNew'
        BY <2>1, <2>4 DEF OInv, SoundOrder, AnswerIsNew
  <2>9. InHand' /\ RecordedBeforeClick'
        BY <2>1 DEF OInv, SoundOrder, InHand, Holding, Through, Leaving,
                    RecordedBeforeClick
  <2> QED
      BY <2>7, <2>8, <2>9 DEF SoundOrder
<1>7. CASE HandOver
  <2>1. /\ client.at = "deliver" /\ UNCHANGED <<server, reader, raw>>
        /\ client'.at = IF client.event = "delivered" THEN "ack" ELSE "dispatch"
        /\ client'.event = "none" /\ client'.signal.about = 0
        /\ client'.ack = "none" /\ client'.answer = client.answer
        /\ client'.id = client.id
        /\ history'.returned = history.returned
        /\ history'.persisted = history.persisted
        BY <1>1, <1>7 DEF HandOver, ClientType, HistoryType, NoSignal
  <2>2. history'.clicked = history.clicked \cup
          (IF client.event = "signal" THEN {client.signal.about} ELSE {})
        BY <1>1, <1>7 DEF HandOver, HistoryType
  <2>3. Heard' \subseteq Heard
        BY <2>1, <2>2 DEF Heard
  <2>4. ReplyFirst' /\ AboutShown'
        BY <2>1, <2>3 DEF OInv, SoundOrder, ReplyFirst, AboutShown
  <2>5. AnswerIsNew'
        BY <2>1, <2>2 DEF OInv, SoundOrder, AnswerIsNew
  <2>6. InHand' /\ RecordedBeforeClick'
    <3>1. CASE client.event = "delivered"
          BY <2>1, <2>2, <3>1 DEF OInv, SoundOrder, InHand, Holding, Through,
                                  Leaving, RecordedBeforeClick
    <3>2. CASE client.event # "delivered"
          BY <2>1, <2>2, <3>2 DEF OInv, SoundOrder, InHand, Holding, Through,
                                  Leaving, RecordedBeforeClick
    <3> QED
        BY <3>1, <3>2
  <2> QED
      BY <2>4, <2>5, <2>6 DEF SoundOrder
<1>8. CASE AwaitAck /\ client.ack # "persisted"
  <2>1. /\ BeginCall(client, "compensate") /\ UNCHANGED <<reader, raw, history>>
        /\ "compensate" \in Calls
        BY <1>8 DEF AwaitAck, Calls
  <2>2. /\ ReplyFirst' /\ AboutShown' /\ AnswerIsNew'
        /\ client'.at = "call" /\ client'.call = "compensate"
        BY <2>1, BeginCallKeeps
  <2>3. InHand' /\ RecordedBeforeClick'
        BY <2>1, <2>2 DEF OInv, SoundOrder, InHand, Holding, Through, Leaving,
                          RecordedBeforeClick
  <2> QED
      BY <2>2, <2>3 DEF SoundOrder
<1>9. ASSUME \/ AwaitAck /\ client.ack = "persisted"
             \/ GoDeaf \/ Cancelled \/ RemoveSignal \/ SignalRemoved
             \/ ClientCloses \/ ClientClosed
      PROVE  SoundOrder' /\ RecordedBeforeClick'
  <2>1. /\ UNCHANGED server
        /\ client.at # "call" /\ client'.answer = client.answer
        /\ client'.signal = client.signal /\ client'.event = client.event
        BY <1>1, <1>9 DEF AwaitAck, GoDeaf, Cancelled, RemoveSignal,
             SignalRemoved, ClientCloses, ClientClosed, ClientType, Leaving
  <2>2. /\ history'.clicked = history.clicked
        /\ history'.returned = history.returned
        /\ history'.persisted = history.persisted
        BY <1>1, <1>9 DEF AwaitAck, GoDeaf, Cancelled, RemoveSignal,
             SignalRemoved, ClientCloses, ClientClosed, Panics, HistoryType
  <2>3. reader'.signal = reader.signal /\ raw'.buffer = raw.buffer
        BY <1>1, <1>9 DEF AwaitAck, GoDeaf, Cancelled, RemoveSignal,
             SignalRemoved, ClientCloses, ClientClosed, CloseChannel,
             ReaderType, RawType
  <2>4. Heard' = Heard
        BY <2>1, <2>2, <2>3 DEF Heard
  <2>5. /\ ReplyFirst' /\ AboutShown' /\ AnswerIsNew'
        BY <2>1, <2>2, <2>4
        DEF OInv, SoundOrder, ReplyFirst, AboutShown, AnswerIsNew
  <2>6. \/ client'.at \in Leaving
        \/ client'.at = "dispatch" /\ client.at = "dispatch"
        \/ client'.at = "dispatch" /\ client.at = "ack" /\ client.ack = "persisted"
        BY <1>1, <1>9 DEF AwaitAck, GoDeaf, Cancelled, RemoveSignal,
             SignalRemoved, ClientCloses, ClientClosed, ClientType, Leaving
  <2>7. InHand' /\ RecordedBeforeClick'
        BY <2>2, <2>6 DEF OInv, SoundOrder, InHand, Holding, Through, Leaving,
                          RecordedBeforeClick
  <2> QED
      BY <2>5, <2>7 DEF SoundOrder
<1> QED
    BY <1>2, <1>3, <1>4, <1>5, <1>6, <1>7, <1>8, <1>9 DEF ClientNext

LEMMA LoopKeepsOrder ==
  ASSUME OInv, Persist \/ Refuse \/ LoopFails \/ LoopEnds \/ Stop \/ Cancel
  PROVE  SoundOrder' /\ RecordedBeforeClick'
<1>1. client \in ClientType /\ history \in HistoryType
      BY DEF OInv, TypeOK
<1>2. /\ UNCHANGED <<server, reader, raw>>
      /\ client'.at = client.at /\ client'.call = client.call
      /\ client'.event = client.event /\ client'.id = client.id
      /\ client'.signal = client.signal /\ client'.answer = client.answer
      BY <1>1 DEF Persist, Refuse, LoopFails, LoopEnds, Stop, Cancel, ClientType
<1>3. /\ history'.clicked = history.clicked
      /\ history'.returned = history.returned
      /\ history.persisted \subseteq history'.persisted
      /\ \/ client'.ack = client.ack
         \/ client'.ack = "refused"
         \/ client'.ack = "persisted" /\ client.id \in history'.persisted
      BY <1>1 DEF Persist, Refuse, LoopFails, LoopEnds, Stop, Cancel,
                  ClientType, HistoryType
<1>4. Heard' = Heard
      BY <1>2, <1>3 DEF Heard
<1>5. ReplyFirst' /\ AboutShown' /\ AnswerIsNew'
      BY <1>2, <1>3, <1>4
      DEF OInv, SoundOrder, ReplyFirst, AboutShown, AnswerIsNew
<1>6. InHand' /\ RecordedBeforeClick'
      BY <1>2, <1>3 DEF OInv, SoundOrder, InHand, Holding, Through,
                        RecordedBeforeClick
<1> QED
    BY <1>5, <1>6 DEF SoundOrder

LEMMA OrderStaysSound == OInv /\ [Next]_vars => OInv'
<1> SUFFICES ASSUME OInv, [Next]_vars PROVE OInv'
    OBVIOUS
<1>1. TypeOK'
      BY StepTyped DEF OInv
<1>2. ASSUME UNCHANGED vars
      PROVE  SoundOrder' /\ RecordedBeforeClick'
      BY <1>2 DEF vars, OInv, SoundOrder, ReplyFirst, AboutShown, AnswerIsNew,
                  InHand, Holding, Through, Heard, RecordedBeforeClick
<1>3. SoundOrder' /\ RecordedBeforeClick'
      BY <1>2, ServerKeepsOrder, ReaderKeepsOrder, ClientKeepsOrder,
         LoopKeepsOrder, Zenon DEF Next
<1> QED
    BY <1>1, <1>3 DEF OInv

(* A click never reaches the loop before the loop has recorded the          *)
(* notification that was clicked (client.go, dispatch and awaitDeliveryAck). *)
THEOREM ClicksComeAfterRecords == Spec => []RecordedBeforeClick
<1>1. OInv => RecordedBeforeClick
      BY DEF OInv
<1> QED
    BY <1>1, InitOrder, OrderStaysSound, PTL DEF Spec

-----------------------------------------------------------------------------
(* No signal is dropped *)

(* While the client is not leaving, the reader has a target to deliver to,  *)
(* or has ended.  Before the client has subscribed nothing is emitted.      *)
Connected ==
  client.at \notin Leaving =>
    /\ reader.once # "client"
    /\ reader.once = "done" => reader.at = "gone"
    /\ handler.closed => reader.at \in {"closing", "gone"}
    /\ client.at # "start" /\ reader.at \notin {"closing", "gone"} =>
         handler.registered
    /\ reader.at = "send" => ~handler.done
    /\ client.event = "signal" => client.at = "deliver"
    /\ client.at = "start" =>
         server.emitted = 0 /\ server.members = 0 /\ server.requests = {}

(* How many signals are where, once they have left the wire. *)
Taken == Len(history.taken)
Held == IF client.event = "signal" THEN 1 ELSE 0
Buffered == Len(raw.buffer)
Sending == IF reader.at = "send" THEN 1 ELSE 0
OffWire == Taken + Held + Buffered + Sending

(* A wire carries the signals after the k-th up to the last, in order. *)
SignalsOn(wire) == {i \in 1..Len(wire) : wire[i].type = "signal"}
Carries(wire, k, last) ==
  /\ \A n \in (k + 1)..last : \E i \in SignalsOn(wire) : wire[i].n = n
  /\ \A i \in SignalsOn(wire) : wire[i].n \in (k + 1)..last
  /\ \A i, j \in SignalsOn(wire) : i < j => wire[i].n < wire[j].n
  /\ k =< last

Counted ==
  /\ \A i \in 1..Taken : history.taken[i] = i
  /\ client.event = "signal" => client.signal.n = Taken + 1
  /\ \A i \in 1..Buffered : raw.buffer[i].n = Taken + Held + i
  /\ reader.at = "send" => reader.signal.n = Taken + Held + Buffered + 1
  /\ Carries(server.wire, OffWire, server.emitted)

DInv == CInv /\ Connected /\ (client.at \notin Leaving => Counted)

LEMMA ConnectedStays == CInv /\ Connected /\ [Next]_vars => Connected'
<1> SUFFICES ASSUME CInv, Connected, [Next]_vars PROVE Connected'
    OBVIOUS
<1>1. /\ server \in ServerType /\ reader \in ReaderType
      /\ handler \in HandlerType /\ client \in ClientType
      BY DEF CInv, TypeOK
<1>2. /\ reader.at = "closing" <=> reader.once = "reader"
      /\ handler.registered => ~handler.done
      BY DEF CInv, SoundChannels
<1>3. ASSUME UNCHANGED vars
      PROVE  Connected'
      BY <1>3 DEF vars, Connected
<1>4. ASSUME NEW r \in server.requests, NEW ok \in BOOLEAN, Answer(r, ok)
      PROVE  Connected'
  <2>1. UNCHANGED <<reader, handler, client>>
        BY <1>4 DEF Answer
  <2>2. client.at \notin Leaving => client.at # "start"
        BY DEF Connected
  <2> QED
      BY <2>1, <2>2 DEF Connected
<1>5. ASSUME NEW about \in 0..server.shown, Emit(about)
      PROVE  Connected'
  <2>1. UNCHANGED <<reader, handler, client>> /\ server.members > 0
        BY <1>5 DEF Emit
  <2>2. client.at \notin Leaving => client.at # "start"
        BY <1>1, <2>1 DEF Connected, ServerType
  <2> QED
      BY <2>1, <2>2 DEF Connected
<1>6. ASSUME \/ LoseBus \/ Stop \/ Cancel
             \/ Persist \/ Refuse \/ LoopFails \/ LoopEnds
      PROVE  Connected'
  <2>1. /\ UNCHANGED <<reader, handler>>
        /\ client'.at = client.at /\ client'.event = client.event
        /\ server'.emitted = server.emitted /\ server'.members = server.members
        /\ server'.requests = server.requests
        BY <1>1, <1>6 DEF LoseBus, Stop, Cancel, Persist, Refuse, LoopFails,
                          LoopEnds, ServerType, ClientType
  <2> QED
      BY <2>1 DEF Connected
<1>7. ASSUME ReaderNext
      PROVE  Connected'
  <2>1. /\ client'.at = client.at /\ client'.event = client.event
        /\ server'.emitted = server.emitted /\ server'.members = server.members
        /\ server'.requests = server.requests
        BY <1>1, <1>7 DEF ReaderNext, ReadReply, ReadSignal, SendSignal,
             GiveUpSignal, Delivered, ReadEnds, ReaderCloses, ReaderClosed,
             ServerType, ClientType
  <2>2. CASE ReadReply
        BY <2>1, <2>2 DEF ReadReply, Connected
  <2>3. CASE ReadSignal \/ SendSignal \/ GiveUpSignal
    <3>1. /\ reader'.once = reader.once
          /\ handler'.closed = handler.closed
          /\ handler'.registered = handler.registered
          /\ handler'.done = handler.done
          /\ reader.at \in {"read", "send"}
          /\ reader'.at = "send" => handler.registered
          /\ reader'.at \in {"read", "send"}
          BY <1>1, <2>3 DEF ReadSignal, SendSignal, GiveUpSignal, Delivered,
                            ReaderType, HandlerType
    <3> QED
        BY <1>2, <2>1, <3>1 DEF Connected
  <2>4. CASE ReadEnds \/ ReaderClosed
    <3>1. /\ UNCHANGED handler
          /\ \/ reader.at = "read" /\ reader'.at = "close" /\ reader'.once = reader.once
             \/ reader'.at = "gone" /\ reader'.once = "done"
          BY <1>1, <2>4 DEF ReadEnds, ReaderClosed, ReaderType
    <3> QED
        BY <2>1, <3>1 DEF Connected
  <2>5. CASE ReaderCloses
    <3>1. \/ reader'.at = "closing" /\ reader'.once = "reader"
          \/ reader'.at = "gone" /\ reader'.once = reader.once
        BY <1>1, <2>5 DEF ReaderCloses, ReaderType
    <3> QED
        BY <2>1, <3>1 DEF Connected
  <2> QED
      BY <1>7, <2>2, <2>3, <2>4, <2>5 DEF ReaderNext
<1>8. ASSUME Subscribe
      PROVE  Connected'
  <2>1. /\ UNCHANGED reader /\ client.at = "start" /\ client'.at = "call"
        /\ client'.event = client.event
        /\ handler' = AddSignal
        BY <1>1, <1>8 DEF Subscribe, BeginCall, ClientType
  <2>2. /\ handler'.closed = handler.closed
        /\ ~handler.closed => handler'.registered /\ ~handler'.done
        /\ handler.closed => handler'.done = handler.done
        BY <1>1, <2>1 DEF AddSignal, HandlerType
  <2> QED
      BY <2>1, <2>2 DEF Connected, Leaving
<1>9. ASSUME \/ CallAnswered \/ CallExpires \/ TakeSignal \/ GoDeaf
             \/ HandOver \/ AwaitAck \/ Cancelled
             \/ \E call \in Commands : TakeCommand(call)
      PROVE  Connected'
  <2> DEFINE Goal ==
        /\ UNCHANGED <<reader, handler>>
        /\ client.at \notin Leaving \cup {"start"} /\ client'.at # "start"
        /\ \/ client'.event # "signal"
           \/ client'.at \in {"deliver"} \cup Leaving
           \/ client.event = "signal" /\ client.at # "deliver"
  <2>1. ASSUME AwaitAck \/ Cancelled \/ TakeSignal \/ GoDeaf \/ HandOver
        PROVE  Goal
        BY <1>1, <2>1 DEF AwaitAck, Cancelled, TakeSignal, GoDeaf, HandOver,
                          BeginCall, ClientType, Leaving
  <2>2. ASSUME CallAnswered \/ CallExpires
        PROVE  Goal
        BY <1>1, <2>2 DEF CallAnswered, CallExpires, AfterCall, BeginCall,
                          ClientType, Leaving
  <2>3. ASSUME NEW call \in Commands, TakeCommand(call)
        PROVE  Goal
        BY <1>1, <2>3 DEF TakeCommand, BeginCall, ClientType, Leaving
  <2>4. Goal
        BY <1>9, <2>1, <2>2, <2>3
  <2> QED
      BY <2>4 DEF Connected
<1>10. ASSUME RemoveSignal \/ SignalRemoved \/ ClientCloses \/ ClientClosed
       PROVE  Connected'
  <2>1. client'.at \in Leaving
        BY <1>1, <1>10 DEF RemoveSignal, SignalRemoved, ClientCloses,
                           ClientClosed, ClientType, Leaving
  <2> QED
      BY <2>1 DEF Connected
<1> QED
    BY <1>3, <1>4, <1>5, <1>6, <1>7, <1>8, <1>9, <1>10, Zenon
    DEF Next, ClientNext

LEMMA CarriesReplyToo ==
  ASSUME NEW wire \in Seq(MessageType), NEW m \in ReplyType,
         NEW k \in Nat, NEW last \in Nat, Carries(wire, k, last)
  PROVE  Carries(Append(wire, m), k, last)
<1>1. m \in MessageType /\ m.type # "signal" /\ Len(wire) \in Nat
      BY DEF MessageType, ReplyType
<1> DEFINE next == Append(wire, m)
<1>2. /\ Len(next) = Len(wire) + 1 /\ next[Len(wire) + 1] = m
      /\ \A i \in 1..Len(wire) : next[i] = wire[i]
      BY <1>1, AppendProperties
<1> HIDE DEF next
<1>3. /\ SignalsOn(next) = SignalsOn(wire)
      /\ \A i \in SignalsOn(wire) : next[i] = wire[i]
      BY <1>1, <1>2 DEF SignalsOn
<1> QED
    BY <1>3 DEF Carries, next

LEMMA CarriesOneMore ==
  ASSUME NEW wire \in Seq(MessageType), NEW m \in SignalType,
         NEW k \in Nat, NEW last \in Nat, Carries(wire, k, last),
         m.n = last + 1
  PROVE  Carries(Append(wire, m), k, last + 1)
<1>1. m \in MessageType /\ m.type = "signal" /\ Len(wire) \in Nat
      BY DEF MessageType, SignalType
<1> DEFINE next == Append(wire, m)
           end == Len(wire) + 1
<1>2. /\ Len(next) = end /\ next[end] = m
      /\ \A i \in 1..Len(wire) : next[i] = wire[i]
      BY <1>1, AppendProperties
<1>3. end \in Nat /\ \A i \in SignalsOn(wire) : i \in Nat /\ i < end
      BY <1>1 DEF SignalsOn
<1>4. SignalsOn(next) = SignalsOn(wire) \cup {end}
  <2>1. 1..end = (1..Len(wire)) \cup {end}
        BY <1>1
  <2> HIDE DEF next, end
  <2> QED
      BY <1>1, <1>2, <2>1 DEF SignalsOn
<1> HIDE DEF next, end
<1>5. \A i \in SignalsOn(wire) : next[i] = wire[i] /\ wire[i].n \in (k + 1)..last
  <2>1. \A i \in SignalsOn(wire) : i \in 1..Len(wire)
        BY DEF SignalsOn
  <2>2. \A i \in SignalsOn(wire) : wire[i].n \in (k + 1)..last
        BY DEF Carries
  <2> QED
      BY <1>2, <2>1, <2>2
<1>6. \A n \in (k + 1)..(last + 1) : \E i \in SignalsOn(next) : next[i].n = n
  <2>1. \A n \in (k + 1)..(last + 1) : n \in (k + 1)..last \/ n = last + 1
        OBVIOUS
  <2>2. \A n \in (k + 1)..last : \E i \in SignalsOn(wire) : wire[i].n = n
        BY DEF Carries
  <2>3. next[end].n = last + 1
        BY <1>2
  <2> QED
      BY <1>4, <1>5, <2>1, <2>2, <2>3
<1>7. \A i \in SignalsOn(next) : next[i].n \in (k + 1)..(last + 1)
  <2>1. k + 1 =< last + 1
        BY DEF Carries
  <2> QED
      BY <1>2, <1>4, <1>5, <2>1
<1>8. \A i, j \in SignalsOn(next) : i < j => next[i].n < next[j].n
  <2>1. \A i, j \in SignalsOn(wire) : i < j => wire[i].n < wire[j].n
        BY DEF Carries
  <2>2. \A i \in SignalsOn(wire) : next[i].n < next[end].n
        BY <1>2, <1>5
  <2> QED
      BY <1>3, <1>4, <1>5, <2>1, <2>2
<1>9. k =< last + 1
      BY DEF Carries
<1>10. Carries(next, k, last + 1)
       BY <1>6, <1>7, <1>8, <1>9, Zenon DEF Carries
<1> QED
    BY <1>10 DEF next

LEMMA CarriesTail ==
  ASSUME NEW wire \in Seq(MessageType), wire # <<>>,
         NEW k \in Nat, NEW last \in Nat, Carries(wire, k, last)
  PROVE  /\ Head(wire).type = "reply" => Carries(Tail(wire), k, last)
         /\ Head(wire).type = "signal" =>
              Head(wire).n = k + 1 /\ Carries(Tail(wire), k + 1, last)
<1> DEFINE rest == Tail(wire)
<1>1. /\ Len(wire) \in Nat /\ Len(wire) >= 1 /\ Head(wire) = wire[1]
      /\ Len(rest) = Len(wire) - 1
      /\ \A i \in 1..Len(rest) : rest[i] = wire[i + 1]
      BY HeadTailProperties
<1>2. \A i \in 1..Len(wire) : wire[i] \in MessageType
      OBVIOUS
<1> HIDE DEF rest
<1>3. \A i \in SignalsOn(rest) :
        i + 1 \in SignalsOn(wire) /\ rest[i] = wire[i + 1] /\ i \in Nat /\ i >= 1
      BY <1>1 DEF SignalsOn
<1>4. \A i \in SignalsOn(wire) : i = 1 \/ i - 1 \in SignalsOn(rest)
  <2> SUFFICES ASSUME NEW i \in SignalsOn(wire), i # 1
               PROVE  i - 1 \in SignalsOn(rest)
      OBVIOUS
  <2>1. i \in 1..Len(wire) /\ wire[i].type = "signal"
        BY DEF SignalsOn
  <2>2. i - 1 \in 1..Len(rest) /\ rest[i - 1] = wire[(i - 1) + 1]
        BY <1>1, <2>1
  <2>3. (i - 1) + 1 = i
        BY <2>1
  <2> QED
      BY <2>1, <2>2, <2>3 DEF SignalsOn
<1>5. /\ \A n \in (k + 1)..last : \E i \in SignalsOn(wire) : wire[i].n = n
      /\ \A i \in SignalsOn(wire) : wire[i].n \in (k + 1)..last
      /\ \A i, j \in SignalsOn(wire) : i < j => wire[i].n < wire[j].n
      /\ k =< last
      BY DEF Carries
<1>6. \A i \in SignalsOn(wire) : i # 1 =>
        i - 1 \in SignalsOn(rest) /\ rest[i - 1] = wire[i]
  <2> SUFFICES ASSUME NEW i \in SignalsOn(wire), i # 1
               PROVE  i - 1 \in SignalsOn(rest) /\ rest[i - 1] = wire[i]
      OBVIOUS
  <2>1. i \in Nat /\ (i - 1) + 1 = i
        BY <1>1 DEF SignalsOn
  <2> QED
      BY <1>3, <1>4, <2>1
<1>7. \A i, j \in SignalsOn(rest) : i < j => rest[i].n < rest[j].n
  <2> SUFFICES ASSUME NEW i \in SignalsOn(rest), NEW j \in SignalsOn(rest), i < j
               PROVE  rest[i].n < rest[j].n
      OBVIOUS
  <2>1. i + 1 < j + 1
        BY <1>3
  <2> QED
      BY <1>3, <1>5, <2>1
<1>8. ASSUME Head(wire).type = "reply"
      PROVE  Carries(rest, k, last)
  <2>1. 1 \notin SignalsOn(wire)
        BY <1>1, <1>8 DEF SignalsOn
  <2>2. \A n \in (k + 1)..last : \E i \in SignalsOn(rest) : rest[i].n = n
        BY <1>5, <1>6, <2>1
  <2>3. \A i \in SignalsOn(rest) : rest[i].n \in (k + 1)..last
        BY <1>3, <1>5
  <2> QED
      BY <1>5, <1>7, <2>2, <2>3 DEF Carries
<1>9. ASSUME Head(wire).type = "signal"
      PROVE  Head(wire).n = k + 1 /\ Carries(rest, k + 1, last)
  <2>1. 1 \in SignalsOn(wire) /\ wire[1].n \in (k + 1)..last
        BY <1>1, <1>5, <1>9 DEF SignalsOn
  <2>2. wire[1].n = k + 1
    <3>1. PICK i \in SignalsOn(wire) : wire[i].n = k + 1
          BY <1>5, <2>1
    <3>2. i = 1 \/ 1 < i
          BY <1>1 DEF SignalsOn
    <3>3. 1 < i => wire[1].n < k + 1
          BY <1>5, <2>1, <3>1
    <3> QED
        BY <2>1, <3>1, <3>2, <3>3
  <2>3. \A n \in ((k + 1) + 1)..last : \E i \in SignalsOn(rest) : rest[i].n = n
    <3> SUFFICES ASSUME NEW n \in ((k + 1) + 1)..last
                 PROVE  \E i \in SignalsOn(rest) : rest[i].n = n
        OBVIOUS
    <3>1. n \in (k + 1)..last /\ n # k + 1
          OBVIOUS
    <3>2. PICK i \in SignalsOn(wire) : wire[i].n = n
          BY <1>5, <3>1
    <3>3. i # 1
          BY <2>2, <3>1, <3>2
    <3> QED
        BY <1>6, <3>2, <3>3
  <2>4. \A i \in SignalsOn(rest) : rest[i].n \in ((k + 1) + 1)..last
    <3> SUFFICES ASSUME NEW i \in SignalsOn(rest)
                 PROVE  rest[i].n \in ((k + 1) + 1)..last
        OBVIOUS
    <3>1. i + 1 \in SignalsOn(wire) /\ rest[i] = wire[i + 1] /\ 1 < i + 1
          BY <1>3
    <3>2. wire[i + 1].n \in (k + 1)..last /\ wire[1].n < wire[i + 1].n
          BY <1>5, <2>1, <3>1
    <3> QED
        BY <2>2, <3>1, <3>2
  <2>5. k + 1 =< last
        BY <2>1
  <2> QED
      BY <1>1, <1>7, <2>2, <2>3, <2>4, <2>5 DEF Carries
<1> QED
    BY <1>8, <1>9 DEF rest

LEMMA CountsAreNat ==
  ASSUME TypeOK
  PROVE  /\ Taken \in Nat /\ Held \in Nat /\ Buffered \in Nat /\ Sending \in Nat
         /\ OffWire \in Nat /\ server.emitted \in Nat
<1>1. /\ server.emitted \in Nat /\ history.taken \in Seq(Nat)
      /\ raw.buffer \in Seq(SignalType)
      BY DEF TypeOK, ServerType, HistoryType, RawType
<1>2. /\ Taken \in Nat /\ Held \in Nat /\ Buffered \in Nat /\ Sending \in Nat
      BY <1>1 DEF Taken, Held, Buffered, Sending
<1> QED
    BY <1>1, <1>2 DEF OffWire

(* A step that does not touch what is counted. *)
LEMMA CountedIfSame ==
  ASSUME Counted, raw'.buffer = raw.buffer, history'.taken = history.taken,
         client'.event = client.event, client'.signal = client.signal,
         server'.wire = server.wire, server'.emitted = server.emitted,
         reader'.signal = reader.signal \/ reader'.at # "send",
         reader'.at = "send" <=> reader.at = "send"
  PROVE  Counted'
<1>1. /\ Taken' = Taken /\ Held' = Held /\ Buffered' = Buffered
      /\ Sending' = Sending /\ OffWire' = OffWire
      BY DEF Taken, Held, Buffered, Sending, OffWire
<1> QED
    BY <1>1 DEF Counted

LEMMA ServerCounts ==
  ASSUME DInv, Counted,
         \/ \E r \in server.requests, ok \in BOOLEAN : Answer(r, ok)
         \/ \E about \in 0..server.shown : Emit(about)
         \/ LoseBus
  PROVE  Counted'
<1>1. UNCHANGED <<reader, handler, raw, client, loop, ctx, history>>
      BY DEF Answer, Emit, LoseBus
<1>2. /\ Taken' = Taken /\ Held' = Held /\ Buffered' = Buffered
      /\ Sending' = Sending /\ OffWire' = OffWire
      BY <1>1 DEF Taken, Held, Buffered, Sending, OffWire
<1>3. TypeOK /\ server \in ServerType /\ server.wire \in Seq(MessageType)
      BY DEF DInv, CInv, TypeOK, ServerType
<1>4. OffWire \in Nat /\ server.emitted \in Nat
      BY <1>3, CountsAreNat
<1>5. Carries(server.wire, OffWire, server.emitted)
      BY DEF Counted
<1>6. ASSUME NEW r \in server.requests, NEW ok \in BOOLEAN, Answer(r, ok)
      PROVE  Carries(server'.wire, OffWire, server'.emitted)
  <2>1. r \in [n : Nat, call : Calls] /\ server.shown + 1 \in Nat
        BY <1>3 DEF ServerType
  <2>2. PICK id \in Nat, m \in ReplyType :
          /\ id = IF ok /\ r.call = "notify" THEN server.shown + 1 ELSE 0
          /\ m = [type |-> "reply", n |-> r.n, ok |-> ok, id |-> id]
        BY <2>1 DEF ReplyType
  <2>3. /\ server'.wire = Append(server.wire, m)
        /\ server'.emitted = server.emitted
        BY <1>3, <1>6, <2>2 DEF Answer, ServerType
  <2> QED
      BY <1>3, <1>4, <1>5, <2>3, CarriesReplyToo
<1>7. ASSUME NEW about \in 0..server.shown, Emit(about)
      PROVE  Carries(server'.wire, OffWire, server'.emitted)
  <2>1. server.emitted + 1 \in Nat /\ about \in Nat
        BY <1>3, <1>4 DEF ServerType
  <2>2. PICK m \in SignalType :
          m = [type |-> "signal", about |-> about, n |-> server.emitted + 1]
        BY <2>1 DEF SignalType
  <2>3. /\ server'.wire = Append(server.wire, m)
        /\ server'.emitted = server.emitted + 1
        BY <1>3, <1>7, <2>2 DEF Emit, ServerType
  <2>4. m.n = server.emitted + 1
        BY <2>2
  <2> QED
      BY <1>3, <1>4, <1>5, <2>3, <2>4, CarriesOneMore
<1>8. ASSUME LoseBus
      PROVE  Carries(server'.wire, OffWire, server'.emitted)
      BY <1>3, <1>5, <1>8 DEF LoseBus, ServerType
<1>9. Carries(server'.wire, OffWire', server'.emitted)
      BY <1>2, <1>6, <1>7, <1>8
<1> QED
    BY <1>1, <1>2, <1>9 DEF Counted

LEMMA ReaderCounts ==
  ASSUME DInv, Counted, ReaderNext, client.at \notin Leaving
  PROVE  Counted'
<1>1. /\ TypeOK /\ server \in ServerType /\ reader \in ReaderType
      /\ raw \in RawType /\ client \in ClientType /\ history \in HistoryType
      BY DEF DInv, CInv, TypeOK
<1>2. /\ server.wire \in Seq(MessageType)
      /\ OffWire \in Nat /\ server.emitted \in Nat /\ Taken \in Nat
      /\ Held \in Nat /\ Buffered \in Nat /\ Sending \in Nat
      BY <1>1, CountsAreNat DEF ServerType
<1>3. Carries(server.wire, OffWire, server.emitted)
      BY DEF Counted
<1>4. /\ client'.event = client.event /\ client'.signal = client.signal
      /\ history'.taken = history.taken /\ server'.emitted = server.emitted
      BY <1>1 DEF ReaderNext, ReadReply, ReadSignal, SendSignal, GiveUpSignal,
           Delivered, ReadEnds, ReaderCloses, ReaderClosed, Panics, ClientType,
           HistoryType, ServerType
<1>5. Taken' = Taken /\ Held' = Held
      BY <1>4 DEF Taken, Held
<1>6. CASE ReadReply
  <2>1. /\ UNCHANGED <<reader, raw>> /\ server'.wire = Tail(server.wire)
        /\ server.wire # <<>> /\ Head(server.wire).type = "reply"
        BY <1>1, <1>6 DEF ReadReply, ServerType
  <2>2. /\ Buffered' = Buffered /\ Sending' = Sending /\ OffWire' = OffWire
        BY <1>5, <2>1 DEF Buffered, Sending, OffWire
  <2>3. Carries(server'.wire, OffWire', server'.emitted)
        BY <1>2, <1>3, <1>4, <2>1, <2>2, CarriesTail
  <2> QED
      BY <1>4, <1>5, <2>1, <2>2, <2>3 DEF Counted
<1>7. CASE ReadSignal
  <2>1. handler.registered
    <3>1. /\ server.wire # <<>> /\ Head(server.wire).type = "signal"
          /\ reader.at = "read"
          BY <1>7 DEF ReadSignal
    <3>2. OffWire + 1 =< server.emitted
          BY <1>2, <1>3, <3>1, CarriesTail DEF Carries
    <3>3. server.emitted # 0
          BY <1>2, <3>2
    <3> QED
        BY <3>1, <3>3 DEF DInv, Connected
  <2>2. /\ UNCHANGED raw /\ server'.wire = Tail(server.wire)
        /\ server.wire # <<>> /\ Head(server.wire).type = "signal"
        /\ reader.at = "read" /\ reader'.at = "send"
        /\ reader'.signal = Head(server.wire)
        BY <1>1, <1>7, <2>1 DEF ReadSignal, ServerType, ReaderType
  <2>3. Buffered' = Buffered /\ Sending = 0 /\ Sending' = 1
        BY <2>2 DEF Buffered, Sending
  <2>4. OffWire = Taken + Held + Buffered /\ OffWire' = OffWire + 1
        BY <1>2, <1>5, <2>3 DEF OffWire
  <2>5. /\ Head(server.wire).n = OffWire + 1
        /\ Carries(server'.wire, OffWire', server'.emitted)
        BY <1>2, <1>3, <1>4, <2>2, <2>4, CarriesTail
  <2>6. reader'.signal.n = Taken' + Held' + Buffered' + 1
        BY <1>5, <2>2, <2>3, <2>4, <2>5
  <2> QED
      BY <1>4, <1>5, <2>2, <2>3, <2>5, <2>6 DEF Counted
<1>8. CASE SendSignal
  <2>1. /\ raw'.buffer = Append(raw.buffer, reader.signal) /\ UNCHANGED server
        /\ reader.at = "send" /\ reader'.at = "read"
        BY <1>1, <1>8 DEF SendSignal, Delivered, RawType, ReaderType
  <2>2. raw.buffer \in Seq(SignalType) /\ reader.signal \in SignalType
        BY <1>1 DEF RawType, ReaderType
  <2>3. /\ Buffered' = Buffered + 1 /\ raw'.buffer[Buffered + 1] = reader.signal
        /\ \A i \in 1..Buffered : raw'.buffer[i] = raw.buffer[i]
        BY <2>1, <2>2, AppendProperties DEF Buffered
  <2>4. Sending = 1 /\ Sending' = 0
        BY <2>1 DEF Sending
  <2>5. OffWire' = OffWire
        BY <1>2, <1>5, <2>3, <2>4 DEF OffWire
  <2>6. Carries(server'.wire, OffWire', server'.emitted)
        BY <1>3, <2>1, <2>5
  <2>7. \A i \in 1..Buffered' : raw'.buffer[i].n = Taken' + Held' + i
    <3>1. /\ \A i \in 1..Buffered : raw.buffer[i].n = Taken + Held + i
          /\ reader.signal.n = Taken + Held + Buffered + 1
          BY <2>1 DEF Counted
    <3>2. \A i \in 1..(Buffered + 1) : i \in 1..Buffered \/ i = Buffered + 1
          BY <1>2
    <3> SUFFICES ASSUME NEW i \in 1..(Buffered + 1)
                 PROVE  raw'.buffer[i].n = Taken + Held + i
        BY <1>5, <2>3
    <3>3. CASE i \in 1..Buffered
          BY <2>3, <3>1, <3>3
    <3>4. CASE i = Buffered + 1
          BY <1>2, <2>3, <3>1, <3>4
    <3> QED
        BY <3>2, <3>3, <3>4
  <2> QED
      BY <1>4, <1>5, <2>1, <2>6, <2>7 DEF Counted
<1>9. CASE GiveUpSignal
      BY <1>9 DEF GiveUpSignal, DInv, Connected
<1>10. CASE ReadEnds \/ ReaderCloses \/ ReaderClosed
  <2>1. /\ UNCHANGED server /\ raw'.buffer = raw.buffer
        /\ reader'.at # "send" /\ reader.at # "send"
        BY <1>1, <1>10 DEF ReadEnds, ReaderCloses, ReaderClosed, CloseChannel,
                           ReaderType, RawType
  <2> QED
      BY <1>4, <2>1, CountedIfSame
<1> QED
    BY <1>6, <1>7, <1>8, <1>9, <1>10 DEF ReaderNext

LEMMA ClientAndLoopCount ==
  ASSUME DInv, Counted, client.at \notin Leaving,
         \/ ClientNext \/ \E call \in Commands : TakeCommand(call)
         \/ Persist \/ Refuse \/ LoopFails \/ LoopEnds \/ Stop \/ Cancel
  PROVE  client'.at \in Leaving \/ Counted'
<1>1. /\ TypeOK /\ server \in ServerType /\ reader \in ReaderType
      /\ raw \in RawType /\ client \in ClientType /\ history \in HistoryType
      BY DEF DInv, CInv, TypeOK
<1>2. /\ OffWire \in Nat /\ server.emitted \in Nat /\ Taken \in Nat
      /\ Held \in Nat /\ Buffered \in Nat /\ Sending \in Nat
      BY <1>1, CountsAreNat
<1>3. history.taken \in Seq(Nat) /\ raw.buffer \in Seq(SignalType)
      BY <1>1 DEF HistoryType, RawType
<1>4. client.event = "signal" => client.at = "deliver"
      BY DEF DInv, Connected
<1>5. CASE TakeSignal
  <2>1. /\ raw.buffer # <<>> /\ raw'.buffer = Tail(raw.buffer)
        /\ UNCHANGED <<server, reader>> /\ client.at = "dispatch"
        BY <1>1, <1>5 DEF TakeSignal, RawType
  <2>2. /\ Head(raw.buffer) = raw.buffer[1] /\ Buffered >= 1
        /\ Buffered' = Buffered - 1
        /\ \A i \in 1..Buffered' : raw'.buffer[i] = raw.buffer[i + 1]
        BY <1>3, <2>1, HeadTailProperties DEF Buffered
  <2>3. Held = 0 /\ Sending' = Sending
        BY <1>4, <2>1 DEF Held, Sending
  <2>4. /\ \A i \in 1..Buffered : raw.buffer[i].n = Taken + i
        /\ Head(raw.buffer).n = Taken + 1
        BY <1>2, <2>2, <2>3 DEF Counted
  <2>5. Taken' + Held' = Taken + 1 /\ (\A i \in 1..Taken' : history'.taken[i] = i)
        /\ (client'.event = "signal" => client'.signal.n = Taken' + 1)
    <3>1. CASE Head(raw.buffer).about = 0
      <4>1. /\ history'.taken = Append(history.taken, Head(raw.buffer).n)
            /\ UNCHANGED client
            BY <1>1, <1>5, <3>1 DEF TakeSignal, HistoryType
      <4>2. /\ Len(history'.taken) = Taken + 1 /\ history'.taken[Taken + 1] = Taken + 1
            /\ \A i \in 1..Taken : history'.taken[i] = history.taken[i]
            BY <1>2, <1>3, <2>4, <4>1, AppendProperties DEF Taken
      <4>3. \A i \in 1..(Taken + 1) : i \in 1..Taken \/ i = Taken + 1
            BY <1>2
      <4>4. \A i \in 1..Taken : history.taken[i] = i
            BY DEF Counted
      <4>5. client.event # "signal"
            BY <1>4, <2>1
      <4>6. Taken' = Taken + 1 /\ Held' = 0
            BY <4>1, <4>2, <4>5 DEF Taken, Held
      <4> QED
          BY <1>2, <4>1, <4>2, <4>3, <4>4, <4>5, <4>6
    <3>2. CASE Head(raw.buffer).about # 0
      <4>1. /\ history'.taken = history.taken /\ client'.event = "signal"
            /\ client'.signal = Head(raw.buffer)
            BY <1>1, <1>5, <3>2 DEF TakeSignal, ClientType
      <4>2. Taken' = Taken /\ Held' = 1
            BY <4>1 DEF Taken, Held
      <4>3. \A i \in 1..Taken : history.taken[i] = i
            BY DEF Counted
      <4> QED
          BY <1>2, <2>4, <4>1, <4>2, <4>3
    <3> QED
        BY <3>1, <3>2
  <2>6. \A i \in 1..Buffered' : raw'.buffer[i].n = Taken' + Held' + i
    <3> SUFFICES ASSUME NEW i \in 1..Buffered'
                 PROVE  raw'.buffer[i].n = Taken' + Held' + i
        OBVIOUS
    <3>1. i + 1 \in 1..Buffered /\ i \in Nat
          BY <1>2, <2>2
    <3>2. raw'.buffer[i].n = Taken + (i + 1)
          BY <2>2, <2>4, <3>1
    <3> QED
        BY <1>2, <2>5, <3>1, <3>2
  <2>7. OffWire' = OffWire /\ Taken' + Held' + Buffered' = Taken + Held + Buffered
        BY <1>2, <2>2, <2>3, <2>5 DEF OffWire
  <2>8. Carries(server'.wire, OffWire', server'.emitted)
        BY <2>1, <2>7 DEF Counted
  <2>9. reader'.at = "send" => reader'.signal.n = Taken' + Held' + Buffered' + 1
        BY <2>1, <2>7 DEF Counted
  <2> QED
      BY <2>5, <2>6, <2>8, <2>9 DEF Counted
<1>6. CASE HandOver
  <2>1. /\ UNCHANGED <<server, reader, raw>> /\ client'.event = "none"
        BY <1>1, <1>6 DEF HandOver, ClientType
  <2>2. Held' = 0 /\ Buffered' = Buffered /\ Sending' = Sending
        BY <2>1 DEF Held, Buffered, Sending
  <2>3. Taken' = Taken + Held /\ \A i \in 1..Taken' : history'.taken[i] = i
    <3>1. \A i \in 1..Taken : history.taken[i] = i
          BY DEF Counted
    <3>2. CASE client.event = "signal"
      <4>1. /\ history'.taken = Append(history.taken, client.signal.n)
            /\ client.signal.n = Taken + 1
            BY <1>1, <1>6, <3>2 DEF HandOver, HistoryType, Counted
      <4>2. /\ Len(history'.taken) = Taken + 1 /\ history'.taken[Taken + 1] = Taken + 1
            /\ \A i \in 1..Taken : history'.taken[i] = history.taken[i]
            BY <1>2, <1>3, <4>1, AppendProperties DEF Taken
      <4>3. \A i \in 1..(Taken + 1) : i \in 1..Taken \/ i = Taken + 1
            BY <1>2
      <4>4. Taken' = Taken + 1 /\ Held = 1
            BY <3>2, <4>2 DEF Taken, Held
      <4> QED
          BY <3>1, <4>2, <4>3, <4>4
    <3>3. CASE client.event # "signal"
      <4>1. history'.taken = history.taken /\ Held = 0
            BY <1>6, <3>3 DEF HandOver, Held
      <4>2. Taken' = Taken
            BY <4>1 DEF Taken
      <4> QED
          BY <1>2, <3>1, <4>1, <4>2
    <3> QED
        BY <3>2, <3>3
  <2>4. Taken' + Held' = Taken + Held /\ OffWire' = OffWire
        BY <1>2, <2>2, <2>3 DEF OffWire
  <2>5. \A i \in 1..Buffered' : raw'.buffer[i].n = Taken' + Held' + i
        BY <2>1, <2>2, <2>4 DEF Counted
  <2>6. reader'.at = "send" => reader'.signal.n = Taken' + Held' + Buffered' + 1
        BY <2>1, <2>2, <2>4 DEF Counted
  <2>7. Carries(server'.wire, OffWire', server'.emitted)
        BY <2>1, <2>4 DEF Counted
  <2> QED
      BY <2>1, <2>3, <2>5, <2>6, <2>7 DEF Counted
<1>7. ASSUME \/ Subscribe \/ CallAnswered \/ CallExpires \/ GoDeaf
             \/ AwaitAck \/ Cancelled
             \/ \E call \in Commands : TakeCommand(call)
             \/ Persist \/ Refuse \/ LoopFails \/ LoopEnds \/ Stop \/ Cancel
      PROVE  Counted'
  <2>1. /\ UNCHANGED <<reader, raw>> /\ history'.taken = history.taken
        BY <1>1, <1>7 DEF Subscribe, CallAnswered, CallExpires, AfterCall,
             GoDeaf, AwaitAck, Cancelled, TakeCommand, Persist, Refuse,
             LoopFails, LoopEnds, Stop, Cancel, HistoryType
  <2>2. server'.wire = server.wire /\ server'.emitted = server.emitted
        BY <1>1, <1>7 DEF Subscribe, CallAnswered, CallExpires, AfterCall,
             BeginCall, GoDeaf, AwaitAck, Cancelled, TakeCommand, Persist,
             Refuse, LoopFails, LoopEnds, Stop, Cancel, ServerType
  <2>3. /\ client'.signal = client.signal
        /\ client'.event = "signal" <=> client.event = "signal"
    <3>1. CASE CallAnswered \/ CallExpires
      <4>1. client.event # "signal"
            BY <1>4, <3>1 DEF CallAnswered, CallExpires
      <4>2. client'.signal = client.signal /\ client'.event # "signal"
            BY <1>1, <3>1, <4>1
            DEF CallAnswered, CallExpires, AfterCall, BeginCall, ClientType
      <4> QED
          BY <4>1, <4>2
    <3>2. CASE ~(CallAnswered \/ CallExpires)
          BY <1>1, <1>7, <3>2 DEF Subscribe, BeginCall, GoDeaf, AwaitAck,
               Cancelled, TakeCommand, Persist, Refuse, LoopFails, LoopEnds,
               Stop, Cancel, ClientType
    <3> QED
        BY <3>1, <3>2
  <2>4. /\ Taken' = Taken /\ Held' = Held /\ Buffered' = Buffered
        /\ Sending' = Sending /\ OffWire' = OffWire
        BY <2>1, <2>3 DEF Taken, Held, Buffered, Sending, OffWire
  <2> QED
      BY <2>1, <2>2, <2>3, <2>4 DEF Counted
<1>8. ASSUME RemoveSignal \/ SignalRemoved \/ ClientCloses \/ ClientClosed
      PROVE  client'.at \in Leaving
      BY <1>1, <1>8 DEF RemoveSignal, SignalRemoved, ClientCloses, ClientClosed,
                        ClientType, Leaving
<1> QED
    BY <1>5, <1>6, <1>7, <1>8, Zenon DEF ClientNext

(* A sequence that counts from 1, followed by one that counts on. *)
LEMMA CountingOn ==
  ASSUME NEW s \in Seq(Nat), NEW t \in Seq(Nat), NEW k \in Nat, Len(s) = k,
         \A i \in 1..k : s[i] = i,
         \A i \in 1..Len(t) : t[i] = k + i
  PROVE  /\ s \o t \in Seq(Nat) /\ Len(s \o t) = k + Len(t)
         /\ \A i \in 1..(k + Len(t)) : (s \o t)[i] = i
<1> DEFINE both == s \o t
<1>1. /\ both \in Seq(Nat) /\ Len(both) = k + Len(t) /\ Len(t) \in Nat
      /\ \A i \in 1..(k + Len(t)) :
           both[i] = IF i =< k THEN s[i] ELSE t[i - k]
  <2>1. /\ both \in Seq(Nat) /\ Len(both) = Len(s) + Len(t)
        /\ \A i \in 1..Len(s) + Len(t) :
             both[i] = IF i =< Len(s) THEN s[i] ELSE t[i - Len(s)]
        BY ONLY s \in Seq(Nat), t \in Seq(Nat), ConcatProperties, Zenon
  <2> QED
      BY <2>1
<1> HIDE DEF both
<1>2. ASSUME NEW i \in 1..(k + Len(t))
      PROVE  both[i] = i
  <2>1. CASE i =< k
        BY <1>1, <2>1
  <2>2. CASE ~(i =< k)
    <3>1. i - k \in 1..Len(t) /\ k + (i - k) = i
          BY <1>1, <2>2
    <3> QED
        BY <1>1, <2>2, <3>1
  <2> QED
      BY <2>1, <2>2
<1> QED
    BY <1>1, <1>2 DEF both

LEMMA NumberedIsCounted ==
  ASSUME TypeOK, Counted
  PROVE  /\ OffTheWire = [i \in 1..Len(OffTheWire) |-> i]
         /\ Len(OffTheWire) = OffWire
<1> DEFINE held == IF client.event = "signal" THEN <<client.signal.n>> ELSE <<>>
           buffered == [i \in DOMAIN raw.buffer |-> raw.buffer[i].n]
           sending == IF reader.at = "send" THEN <<reader.signal.n>> ELSE <<>>
           one == history.taken \o held
           two == one \o buffered
           all == two \o sending
<1>1. /\ history.taken \in Seq(Nat) /\ raw.buffer \in Seq(SignalType)
      /\ client.signal.n \in Nat /\ reader.signal.n \in Nat
      /\ Taken \in Nat /\ Held \in Nat /\ Buffered \in Nat /\ Sending \in Nat
      BY CountsAreNat DEF TypeOK, HistoryType, RawType, ClientType, ReaderType,
                          SignalType
<1>2. held \in Seq(Nat) /\ Len(held) = Held
      BY <1>1 DEF Held
<1>3. sending \in Seq(Nat) /\ Len(sending) = Sending
      BY <1>1 DEF Sending
<1>4. buffered \in Seq(Nat) /\ Len(buffered) = Buffered
  <2>1. /\ DOMAIN raw.buffer = 1..Buffered
        /\ \A i \in 1..Buffered : raw.buffer[i].n \in Nat
    <3>1. \A i \in 1..Len(raw.buffer) : raw.buffer[i] \in SignalType
          BY <1>1
    <3>2. DOMAIN raw.buffer = 1..Len(raw.buffer)
          BY <1>1
    <3> QED
        BY <3>1, <3>2 DEF Buffered, SignalType
  <2>2. buffered = [i \in 1..Buffered |-> raw.buffer[i].n]
        BY <2>1
  <2> QED
      BY <1>1, <2>1, <2>2, IsASeq
<1>5. /\ \A i \in 1..Taken : history.taken[i] = i
      /\ \A i \in 1..Held : held[i] = Taken + i
      /\ \A i \in 1..Buffered : buffered[i] = Taken + Held + i
      /\ \A i \in 1..Sending : sending[i] = Taken + Held + Buffered + i
  <2>1. \A i \in 1..Held : held[i] = Taken + i
        BY <1>1 DEF Counted, Held
  <2>2. \A i \in 1..Sending : sending[i] = Taken + Held + Buffered + i
        BY <1>1 DEF Counted, Sending
  <2>3. \A i \in 1..Buffered : buffered[i] = Taken + Held + i
        BY <1>1 DEF Counted, Buffered
  <2> QED
      BY <2>1, <2>2, <2>3 DEF Counted
<1> HIDE DEF held, buffered, sending
<1>6. /\ one \in Seq(Nat) /\ Len(one) = Taken + Held
      /\ \A i \in 1..(Taken + Held) : one[i] = i
      BY <1>1, <1>2, <1>5, CountingOn DEF Taken
<1> HIDE DEF one
<1>7. /\ two \in Seq(Nat) /\ Len(two) = Taken + Held + Buffered
      /\ \A i \in 1..(Taken + Held + Buffered) : two[i] = i
  <2>1. Taken + Held \in Nat
        BY <1>1
  <2> QED
      BY <1>4, <1>5, <1>6, <2>1, CountingOn
<1> HIDE DEF two
<1>8. /\ all \in Seq(Nat) /\ Len(all) = OffWire
      /\ \A i \in 1..OffWire : all[i] = i
  <2>1. Taken + Held + Buffered \in Nat
        BY <1>1
  <2> QED
      BY <1>3, <1>5, <1>7, <2>1, CountingOn DEF OffWire
<1>9. OffTheWire = all
      BY DEF OffTheWire, all, two, one, held, buffered, sending
<1> HIDE DEF all
<1>10. all = [i \in 1..Len(all) |-> i]
       BY <1>8, LenProperties
<1> QED
    BY <1>8, <1>9, <1>10

LEMMA CountedMeansNothingDropped ==
  ASSUME TypeOK, client.at \notin Leaving => Counted
  PROVE  NothingDropped
<1> SUFFICES ASSUME Counted
             PROVE  LET read == Len(OffTheWire)
                        signals == {i \in DOMAIN server.wire :
                                      server.wire[i].type = "signal"}
                    IN /\ OffTheWire = [i \in 1..read |-> i]
                       /\ {server.wire[i].n : i \in signals}
                            = (read + 1)..server.emitted
                       /\ \A i, j \in signals :
                            i < j => server.wire[i].n < server.wire[j].n
    BY DEF NothingDropped, Leaving
<1>1. /\ OffTheWire = [i \in 1..Len(OffTheWire) |-> i]
      /\ Len(OffTheWire) = OffWire
      BY NumberedIsCounted
<1>2. Carries(server.wire, OffWire, server.emitted)
      BY DEF Counted
<1>3. {i \in DOMAIN server.wire : server.wire[i].type = "signal"}
        = SignalsOn(server.wire)
      BY DEF SignalsOn, TypeOK, ServerType
<1>4. {server.wire[i].n : i \in SignalsOn(server.wire)}
        = (OffWire + 1)..server.emitted
      BY <1>2 DEF Carries
<1> QED
    BY <1>1, <1>2, <1>3, <1>4 DEF Carries

LEMMA InitCounted == Init => DInv
<1> SUFFICES ASSUME Init PROVE DInv
    OBVIOUS
<1>1. CInv
      BY InitChannels
<1>2. Connected
      BY DEF Init, Connected
<1>3. /\ server.wire = <<>> /\ raw.buffer = <<>> /\ history.taken = <<>>
      /\ client.event = "none" /\ reader.at = "read" /\ server.emitted = 0
      BY DEF Init
<1>4. Taken = 0 /\ Held = 0 /\ Buffered = 0 /\ OffWire = 0
      BY <1>3 DEF Taken, Held, Buffered, Sending, OffWire
<1>5. Carries(server.wire, OffWire, server.emitted)
      BY <1>3, <1>4 DEF Carries, SignalsOn
<1>6. Counted
      BY <1>3, <1>4, <1>5 DEF Counted
<1> QED
    BY <1>1, <1>2, <1>6 DEF DInv

(* The client does not come back once it leaves. *)
LEMMA LeavesForGood ==
  ASSUME TypeOK, [Next]_vars, client.at \in Leaving
  PROVE  client'.at \in Leaving
<1>1. client \in ClientType
      BY DEF TypeOK
<1>2. CASE UNCHANGED vars
      BY <1>2 DEF vars
<1>3. ASSUME ReaderNext
      PROVE  client'.at = client.at
      BY <1>1, <1>3 DEF ReaderNext, ReadReply, ReadSignal, SendSignal,
           GiveUpSignal, Delivered, ReadEnds, ReaderCloses, ReaderClosed,
           ClientType
<1>4. ASSUME \/ LoseBus \/ Stop \/ Cancel
             \/ Persist \/ Refuse \/ LoopFails \/ LoopEnds
      PROVE  client'.at = client.at
      BY <1>1, <1>4 DEF LoseBus, Stop, Cancel, Persist, Refuse, LoopFails,
                        LoopEnds, ClientType
<1>5. ASSUME \/ \E r \in server.requests, ok \in BOOLEAN : Answer(r, ok)
             \/ \E about \in 0..server.shown : Emit(about)
      PROVE  client'.at = client.at
      BY <1>5 DEF Answer, Emit
<1>6. ASSUME ClientNext \/ \E call \in Commands : TakeCommand(call)
      PROVE  client'.at \in Leaving
  <2>1. CASE RemoveSignal \/ SignalRemoved \/ ClientCloses \/ ClientClosed
        BY <1>1, <2>1 DEF RemoveSignal, SignalRemoved, ClientCloses,
                          ClientClosed, ClientType, Leaving
  <2>2. CASE ~(RemoveSignal \/ SignalRemoved \/ ClientCloses \/ ClientClosed)
        BY <1>6, <2>2 DEF ClientNext, Subscribe, CallAnswered, CallExpires,
             TakeSignal, GoDeaf, HandOver, AwaitAck, Cancelled, TakeCommand,
             Leaving
  <2> QED
      BY <2>1, <2>2
<1> QED
    BY <1>2, <1>3, <1>4, <1>5, <1>6 DEF Next

LEMMA CountedStays == DInv /\ [Next]_vars => DInv'
<1> SUFFICES ASSUME DInv, [Next]_vars PROVE DInv'
    OBVIOUS
<1>1. CInv' /\ Connected'
      BY ChannelsStaySound, ConnectedStays DEF DInv
<1>2. CASE client.at \in Leaving
      BY <1>1, <1>2, LeavesForGood DEF DInv, CInv
<1>3. CASE client.at \notin Leaving
  <2>1. Counted
        BY <1>3 DEF DInv
  <2>2. CASE UNCHANGED vars
        BY <1>1, <2>1, <2>2, CountedIfSame DEF DInv, vars
  <2>3. CASE Next
        BY <1>1, <1>3, <2>1, <2>3, ServerCounts, ReaderCounts,
           ClientAndLoopCount, Zenon DEF Next, DInv
  <2> QED
      BY <2>2, <2>3
<1> QED
    BY <1>2, <1>3

(* Overload applies backpressure and drops nothing: until the client leaves,*)
(* every signal the server has emitted is on the wire, with the reader, in  *)
(* the buffer, with the client or dealt with, once and in order             *)
(* (dbus.go, DeliverSignal; client.go, dispatch).                           *)
THEOREM NoSignalIsDropped == Spec => []NothingDropped
<1>1. DInv => NothingDropped
      BY CountedMeansNothingDropped DEF DInv, CInv
<1> QED
    BY <1>1, InitCounted, CountedStays, PTL DEF Spec
=============================================================================
