------------------------- MODULE ActivityReaderProofs -------------------------
(***************************************************************************)
(* OneConnection and NoneLeft of ActivityReader for any set of callers.     *)
(*                                                                          *)
(* Neither is inductive: both follow from who may hold a connection.  There *)
(* is at most one maker, a caller between the decision to dial and the end  *)
(* of what it made of the result; while there is one, the reader has no     *)
(* connection and Close has none to close; and every open connection is the *)
(* reader's, the closer's or the maker's.                                   *)
(***************************************************************************)
EXTENDS ActivityReader, TLAPS

Maker(c) == caller[c].at \in {"dial", "dialled", "discard"}
Holds(c) == caller[c].at \in {"dialled", "discard"}

(* A maker is alone, and nobody else has a connection while there is one. *)
OneMaker ==
  /\ \A c, d \in Callers : Maker(c) /\ Maker(d) => c = d
  /\ \A c \in Callers : Maker(c) =>
       reader.conn = NoConn /\ closer.at # "closing"

(* A dial is in progress exactly as the reader says, and a connection is    *)
(* discarded only after Close.                                              *)
MakerKnown ==
  \A c \in Callers :
    /\ caller[c].at \in {"dial", "dialled"} => reader.connecting
    /\ caller[c].at = "dial" => caller[c].dial # 0
    /\ caller[c].at = "discard" => reader.closed /\ caller[c].conn # NoConn

(* Close has taken the connection. *)
Closed ==
  /\ reader.closed => reader.conn = NoConn
  /\ closer.at # "not called" => reader.closed
  /\ closer.at = "closing" => closer.conn # NoConn

(* Every open connection has an owner, and every owner's is open. *)
Owned ==
  /\ NoConn \notin bus.open
  /\ \A a \in bus.open :
       \/ a = reader.conn
       \/ closer.at = "closing" /\ a = closer.conn
       \/ \E c \in Callers : Holds(c) /\ caller[c].conn = a
  /\ reader.conn # NoConn => reader.conn \in bus.open
  /\ \A c \in Callers : Holds(c) /\ caller[c].conn # NoConn =>
       caller[c].conn \in bus.open

IInv == TypeOK /\ OneMaker /\ MakerKnown /\ Closed /\ Owned

-----------------------------------------------------------------------------
(* The initial state has no caller inside Current and no connection. *)
LEMMA InitIInv == Init => IInv
<1> SUFFICES ASSUME Init PROVE IInv
  OBVIOUS
<1> USE DEF Init
<1>1. TypeOK
  BY DEF TypeOK, Places, Results, NoConn
<1>2. OneMaker /\ MakerKnown
  BY DEF OneMaker, MakerKnown, Maker
<1>3. Closed
  BY DEF Closed, NoConn
<1>4. Owned
  BY DEF Owned, Holds, NoConn
<1> QED BY <1>1, <1>2, <1>3, <1>4 DEF IInv

CallerType == [at: Places, dial: Nat, conn: Nat, result: Results]

(* The step of one caller that owns nothing before it and nothing after it,  *)
(* and touches neither the reader's connection nor the closer's.             *)
OwnsNothing(c) ==
  /\ caller' \in [Callers -> CallerType]
  /\ \A d \in Callers \ {c} : caller'[d] = caller[d]
  /\ caller[c].at \notin {"dialled", "discard"}
  /\ caller'[c].at \notin {"dialled", "discard"}
  /\ reader'.conn = reader.conn
  /\ UNCHANGED <<closer, bus>>

LEMMA OwnedStays ==
  ASSUME IInv, NEW c \in Callers, OwnsNothing(c)
  PROVE  Owned'
<1> USE DEF IInv, OwnsNothing, Owned, Holds
<1>1. \A d \in Callers : Holds(d)' <=> Holds(d)
  OBVIOUS
<1>2. \A d \in Callers : Holds(d) => caller'[d] = caller[d]
  OBVIOUS
<1>3. ASSUME NEW a \in bus'.open
      PROVE  \/ a = reader'.conn
             \/ closer'.at = "closing" /\ a = closer'.conn
             \/ \E d \in Callers : Holds(d)' /\ caller'[d].conn = a
  BY <1>1, <1>2
<1> QED BY <1>1, <1>2, <1>3

(* A caller that moves or returns leaves the others as they are. *)
LEMMA MoveOne ==
  ASSUME TypeOK, NEW c \in Callers, NEW p \in Places, NEW m \in Nat,
         caller' = [caller EXCEPT ![c].at = p, ![c].dial = m]
  PROVE  /\ caller' \in [Callers -> CallerType]
         /\ caller'[c].at = p /\ caller'[c].dial = m
         /\ \A e \in Callers \ {c} : caller'[e] = caller[e]
<1>1. caller[c] \in CallerType /\ caller \in [Callers -> CallerType]
  BY DEF TypeOK, CallerType
<1>2. PICK r : r = [caller[c] EXCEPT !.at = p, !.dial = m]
  OBVIOUS
<1>3. r \in CallerType /\ r.at = p /\ r.dial = m
  BY <1>1, <1>2 DEF CallerType
<1>4. caller' = [caller EXCEPT ![c] = r]
  BY <1>1, <1>2
<1> QED BY <1>1, <1>3, <1>4

LEMMA ReturnOne ==
  ASSUME TypeOK, NEW c \in Callers, NEW r \in Results, Return(c, r)
  PROVE  /\ caller' \in [Callers -> CallerType]
         /\ caller'[c].at = "idle" /\ caller'[c].conn = NoConn
         /\ \A e \in Callers \ {c} : caller'[e] = caller[e]
<1>1. [at |-> "idle", dial |-> 0, conn |-> NoConn, result |-> r] \in CallerType
  BY DEF CallerType, Places, NoConn
<1> QED BY <1>1 DEF Return, TypeOK, CallerType

(* Entering Current owns nothing. *)
LEMMA CurrentStep ==
  ASSUME IInv, NEW c \in Callers, NEW session \in BOOLEAN, Current(c, session)
  PROVE  IInv'
<1> USE DEF IInv
<1>1. /\ caller[c].at = "idle" /\ UNCHANGED <<reader, closer, bus>>
      /\ \/ Return(c, "degraded")
         \/ caller' = [caller EXCEPT ![c].at = "connection"]
  BY DEF Current
<1>2. /\ caller' \in [Callers -> CallerType]
      /\ caller'[c].at \in {"idle", "connection"}
      /\ \A d \in Callers \ {c} : caller'[d] = caller[d]
  <2>1. CASE Return(c, "degraded")
    BY <2>1, ReturnOne DEF Results
  <2>2. CASE caller' = [caller EXCEPT ![c].at = "connection"]
    BY <2>2 DEF TypeOK, CallerType, Places
  <2> QED BY <1>1, <2>1, <2>2
<1>3. OwnsNothing(c)
  BY <1>1, <1>2 DEF OwnsNothing
<1>4. TypeOK'
  BY <1>1, <1>2 DEF TypeOK, CallerType
<1>5. OneMaker' /\ MakerKnown' /\ Closed'
  BY <1>1, <1>2 DEF OneMaker, MakerKnown, Closed, Maker
<1> QED BY <1>3, <1>4, <1>5, OwnedStays

(* A caller becomes the maker only when there is no other and no connection. *)
LEMMA ConnectionStep ==
  ASSUME IInv, NEW c \in Callers, Connection(c)
  PROVE  IInv'
<1> USE DEF IInv, Connection, Return
<1>1. CASE /\ OwnsNothing(c) /\ UNCHANGED reader
           /\ caller'[c].at \in {"idle", "read", "wait"}
  <2>1. TypeOK'
    BY <1>1 DEF TypeOK, OwnsNothing, CallerType
  <2>2. OneMaker' /\ MakerKnown' /\ Closed'
    BY <1>1 DEF OwnsNothing, OneMaker, MakerKnown, Closed, Maker
  <2> QED BY <1>1, <2>1, <2>2, OwnedStays
<1>2. CASE /\ ~reader.closed /\ reader.conn = NoConn /\ ~reader.connecting
           /\ reader' = [reader EXCEPT !.connecting = TRUE, !.dial = @ + 1]
           /\ caller' = [caller EXCEPT ![c].at = "dial",
                                       ![c].dial = reader.dial + 1]
  <2>0. reader.dial \in Nat
    BY DEF TypeOK
  <2> PICK n \in Nat : n = reader.dial + 1 /\ n # 0
    BY <2>0
  <2>1. OwnsNothing(c) /\ caller'[c].at = "dial" /\ caller'[c].dial # 0
    <3>1. /\ caller' \in [Callers -> CallerType]
          /\ caller'[c].at = "dial" /\ caller'[c].dial = n
          /\ \A d \in Callers \ {c} : caller'[d] = caller[d]
      <4>1. caller' = [caller EXCEPT ![c].at = "dial", ![c].dial = n]
        BY <1>2
      <4> QED BY <4>1, MoveOne DEF Places
    <3>2. reader'.conn = reader.conn
      BY <1>2 DEF TypeOK
    <3> QED BY <3>1, <3>2 DEF OwnsNothing
  <2>2. /\ reader' \in [conn: Nat, connecting: BOOLEAN, dial: Nat,
                        closed: BOOLEAN]
        /\ reader'.connecting /\ reader'.conn = NoConn /\ ~reader'.closed
    <3>1. reader' = [reader EXCEPT !.connecting = TRUE, !.dial = n]
      BY <1>2
    <3> QED BY <1>2, <3>1 DEF TypeOK
  <2>3. TypeOK'
    BY <2>1, <2>2 DEF TypeOK, OwnsNothing, CallerType
  <2>4. \A d \in Callers : Maker(d) => caller[d].at = "discard"
    BY <1>2 DEF MakerKnown, Maker
  <2>5. \A d \in Callers : ~Maker(d)
    BY <1>2, <2>4 DEF MakerKnown
  <2>6. closer.at # "closing"
    BY <1>2 DEF Closed, TypeOK
  <2>7. OneMaker'
    BY <2>1, <2>2, <2>5, <2>6 DEF OneMaker, OwnsNothing, Maker
  <2>8. MakerKnown' /\ Closed'
    BY <1>2, <2>1, <2>2, <2>5, <2>6 DEF MakerKnown, OwnsNothing, Maker, Closed
  <2> QED BY <2>1, <2>3, <2>7, <2>8, OwnedStays
<1>3. CASE reader.closed /\ Return(c, "degraded") /\ UNCHANGED reader
  <2>1. OwnsNothing(c) /\ caller'[c].at = "idle"
    BY <1>3, ReturnOne DEF OwnsNothing, Results
  <2> QED BY <1>1, <1>3, <2>1
<1>4. CASE /\ caller' = [caller EXCEPT ![c].at = "read", ![c].conn = reader.conn]
           /\ UNCHANGED reader
  <2>1. OwnsNothing(c) /\ caller'[c].at = "read"
    <3>1. caller[c] \in CallerType /\ reader.conn \in Nat
      BY DEF TypeOK, CallerType
    <3>2. PICK r : r = [caller[c] EXCEPT !.at = "read", !.conn = reader.conn]
      OBVIOUS
    <3>3. r \in CallerType /\ r.at = "read"
      BY <3>1, <3>2 DEF CallerType, Places
    <3>4. caller' = [caller EXCEPT ![c] = r]
      BY <1>4, <3>1, <3>2 DEF TypeOK
    <3>5. /\ caller' \in [Callers -> CallerType] /\ caller'[c].at = "read"
          /\ \A e \in Callers \ {c} : caller'[e] = caller[e]
      BY <3>3, <3>4 DEF TypeOK, CallerType
    <3> QED BY <1>4, <3>5 DEF OwnsNothing
  <2> QED BY <1>1, <1>4, <2>1
<1>5. CASE /\ caller' = [caller EXCEPT ![c].at = "wait", ![c].dial = reader.dial]
           /\ UNCHANGED reader
  <2>1. OwnsNothing(c) /\ caller'[c].at = "wait"
    <3>1. PICK m \in Nat : m = reader.dial
      BY DEF TypeOK
    <3>2. caller' = [caller EXCEPT ![c].at = "wait", ![c].dial = m]
      BY <1>5, <3>1
    <3>3. /\ caller' \in [Callers -> CallerType]
          /\ caller'[c].at = "wait"
          /\ \A e \in Callers \ {c} : caller'[e] = caller[e]
      BY <3>2, MoveOne DEF Places
    <3> QED BY <1>5, <3>3 DEF OwnsNothing
  <2> QED BY <1>1, <1>5, <2>1
<1> QED BY <1>2, <1>3, <1>4, <1>5

(* A waiter that looks again owns nothing. *)
LEMMA WakeStep ==
  ASSUME IInv, NEW c \in Callers, Wake(c)
  PROVE  IInv'
<1> USE DEF IInv, Wake
<1>1. OwnsNothing(c) /\ UNCHANGED reader /\ caller'[c].at \in {"connection"}
  <2>1. /\ caller' \in [Callers -> CallerType]
        /\ caller'[c].at = "connection"
        /\ \A e \in Callers \ {c} : caller'[e] = caller[e]
    BY MoveOne DEF Places
  <2> QED BY <2>1 DEF OwnsNothing
<1>2. TypeOK'
  BY <1>1 DEF TypeOK, OwnsNothing, CallerType
<1>3. OneMaker' /\ MakerKnown' /\ Closed'
  BY <1>1 DEF OwnsNothing, OneMaker, MakerKnown, Closed, Maker
<1> QED BY <1>1, <1>2, <1>3, OwnedStays

(* A waiter that gives up owns nothing. *)
LEMMA WaitExpiresStep ==
  ASSUME IInv, NEW c \in Callers, WaitExpires(c)
  PROVE  IInv'
<1> USE DEF IInv, WaitExpires, Return
<1>1. OwnsNothing(c) /\ UNCHANGED reader /\ caller'[c].at \in {"idle"}
  BY DEF OwnsNothing, TypeOK, CallerType, Places, Results, NoConn
<1>2. TypeOK'
  BY <1>1 DEF TypeOK, OwnsNothing, CallerType
<1>3. OneMaker' /\ MakerKnown' /\ Closed'
  BY <1>1 DEF OwnsNothing, OneMaker, MakerKnown, Closed, Maker
<1> QED BY <1>1, <1>2, <1>3, OwnedStays

(* The maker owns what its dial has brought. *)
LEMMA DialledStep ==
  ASSUME IInv, NEW c \in Callers, NEW ok \in BOOLEAN, Dialled(c, ok)
  PROVE  IInv'
<1> USE DEF IInv
<1>1. PICK conn \in Nat :
        /\ caller[c].at = "dial"
        /\ caller' = [caller EXCEPT ![c].at = "dialled", ![c].conn = conn]
        /\ bus' = [bus EXCEPT !.open = @ \cup ({conn} \ {NoConn})]
        /\ UNCHANGED <<reader, closer>>
  BY DEF Dialled, TypeOK, CallerType, NoConn
<1>2. /\ caller' \in [Callers -> CallerType]
      /\ caller'[c].at = "dialled" /\ caller'[c].conn = conn
      /\ \A d \in Callers \ {c} : caller'[d] = caller[d]
  BY <1>1 DEF TypeOK, CallerType, Places
<1>3. bus'.open = bus.open \cup ({conn} \ {NoConn})
      /\ bus' \in [open: SUBSET Nat, broken: SUBSET Nat]
  BY <1>1 DEF TypeOK
<1>4. TypeOK'
  BY <1>1, <1>2, <1>3 DEF TypeOK, CallerType
<1>5. OneMaker' /\ MakerKnown' /\ Closed'
  BY <1>1, <1>2 DEF OneMaker, MakerKnown, Closed, Maker
<1>6. \A d \in Callers : Holds(d) => d # c /\ Holds(d)'
  BY <1>1, <1>2 DEF Holds
<1>7. ASSUME NEW a \in bus'.open
      PROVE  \/ a = reader'.conn
             \/ closer'.at = "closing" /\ a = closer'.conn
             \/ \E d \in Callers : Holds(d)' /\ caller'[d].conn = a
  <2>1. CASE a \in bus.open
    BY <1>1, <1>2, <1>6, <2>1 DEF Owned
  <2>2. CASE a = conn
    BY <1>2, <2>2 DEF Holds
  <2> QED BY <1>3, <2>1, <2>2
<1>8. ASSUME NEW d \in Callers, Holds(d)', caller'[d].conn # NoConn
      PROVE  caller'[d].conn \in bus'.open
  BY <1>2, <1>3, <1>8 DEF Owned, Holds
<1>9. Owned'
  BY <1>1, <1>3, <1>7, <1>8 DEF Owned, NoConn
<1> QED BY <1>4, <1>5, <1>9

(* The maker gives its connection to the reader, or keeps it to discard it. *)
LEMMA PublishStep ==
  ASSUME IInv, NEW c \in Callers, Publish(c)
  PROVE  IInv'
<1> USE DEF IInv
<1>1. /\ caller[c].at = "dialled" /\ Maker(c) /\ Holds(c)
      /\ reader.conn = NoConn /\ closer.at # "closing"
      /\ \A d \in Callers \ {c} : ~Maker(d) /\ ~Holds(d)
  BY DEF Publish, Maker, Holds, OneMaker
<1>2. /\ UNCHANGED <<closer, bus>>
      /\ reader' \in [conn: Nat, connecting: BOOLEAN, dial: Nat,
                      closed: BOOLEAN]
      /\ reader'.closed = reader.closed
      /\ reader'.conn = IF reader.closed THEN NoConn ELSE caller[c].conn
  BY <1>1 DEF Publish, TypeOK, CallerType
<1>3. \/ /\ caller[c].conn = NoConn
         /\ Return(c, "degraded")
      \/ /\ caller[c].conn # NoConn /\ reader.closed
         /\ caller' = [caller EXCEPT ![c].at = "discard", ![c].dial = 0]
      \/ /\ caller[c].conn # NoConn /\ ~reader.closed
         /\ caller' = [caller EXCEPT ![c].at = "read", ![c].dial = 0]
  BY DEF Publish
<1>4. /\ caller' \in [Callers -> CallerType]
      /\ \A d \in Callers \ {c} : caller'[d] = caller[d]
      /\ \/ caller[c].conn = NoConn /\ caller'[c].at = "idle"
         \/ /\ caller[c].conn # NoConn /\ reader.closed
            /\ caller'[c].at = "discard" /\ caller'[c].conn = caller[c].conn
         \/ /\ caller[c].conn # NoConn /\ ~reader.closed
            /\ caller'[c].at = "read"
  <2>1. CASE caller[c].conn = NoConn /\ Return(c, "degraded")
    BY <2>1, ReturnOne DEF Results
  <2>2. CASE /\ caller[c].conn # NoConn /\ reader.closed
             /\ caller' = [caller EXCEPT ![c].at = "discard", ![c].dial = 0]
    BY <2>2 DEF TypeOK, CallerType, Places
  <2>3. CASE /\ caller[c].conn # NoConn /\ ~reader.closed
             /\ caller' = [caller EXCEPT ![c].at = "read", ![c].dial = 0]
    BY <2>3 DEF TypeOK, CallerType, Places
  <2> QED BY <1>3, <2>1, <2>2, <2>3
<1>6. TypeOK'
  BY <1>2, <1>4 DEF TypeOK, CallerType
<1>7. OneMaker'
  BY <1>1, <1>2, <1>4 DEF OneMaker, Maker
<1>8. MakerKnown'
  BY <1>1, <1>2, <1>4 DEF MakerKnown, Maker
<1>9. Closed'
  BY <1>1, <1>2 DEF Closed
<1>10. \A a \in bus.open : a = caller[c].conn
  BY <1>1 DEF Owned
<1>11. caller[c].conn # NoConn => caller[c].conn \in bus.open
  BY <1>1 DEF Owned
<1>12. ASSUME NEW a \in bus'.open
       PROVE  a = reader'.conn \/ \E d \in Callers : Holds(d)' /\ caller'[d].conn = a
  <2>1. a = caller[c].conn /\ a # NoConn
    BY <1>2, <1>10 DEF Owned
  <2> QED BY <1>2, <1>4, <2>1 DEF Holds
<1>13. ASSUME NEW d \in Callers, Holds(d)', caller'[d].conn # NoConn
       PROVE  caller'[d].conn \in bus'.open
  BY <1>1, <1>2, <1>4, <1>11, <1>13 DEF Holds
<1>14. Owned'
  BY <1>2, <1>11, <1>12, <1>13 DEF Owned
<1> QED BY <1>6, <1>7, <1>8, <1>9, <1>14

(* The maker closes the connection that only it owns. *)
LEMMA DiscardStep ==
  ASSUME IInv, NEW c \in Callers, Discard(c)
  PROVE  IInv'
<1> USE DEF IInv
<1>1. /\ Maker(c) /\ Holds(c) /\ reader.conn = NoConn /\ closer.at # "closing"
      /\ \A d \in Callers \ {c} : ~Maker(d) /\ ~Holds(d)
  BY DEF Discard, Maker, Holds, OneMaker
<1>2. /\ UNCHANGED <<reader, closer>>
      /\ caller' \in [Callers -> CallerType]
      /\ caller'[c].at = "idle"
      /\ \A d \in Callers \ {c} : caller'[d] = caller[d]
  BY DEF Discard, Return, TypeOK, CallerType, Places, Results, NoConn
<1>3. /\ bus' \in [open: SUBSET Nat, broken: SUBSET Nat]
      /\ bus'.open = bus.open \ {caller[c].conn}
  BY DEF Discard, TypeOK
<1>4. TypeOK'
  BY <1>2, <1>3 DEF TypeOK, CallerType
<1>5. OneMaker' /\ MakerKnown' /\ Closed'
  BY <1>2 DEF OneMaker, MakerKnown, Closed, Maker
<1>6. bus'.open = {}
  BY <1>1, <1>3 DEF Owned
<1>7. \A d \in Callers : ~Holds(d)'
  BY <1>1, <1>2 DEF Holds
<1>8. Owned'
  BY <1>1, <1>2, <1>6, <1>7 DEF Owned
<1> QED BY <1>4, <1>5, <1>8

(* Reading the session changes no owner. *)
LEMMA ReadSessionStep ==
  ASSUME IInv, NEW c \in Callers, NEW ok \in BOOLEAN, ReadSession(c, ok)
  PROVE  IInv'
<1> USE DEF IInv, ReadSession, Return
<1>1. OwnsNothing(c) /\ UNCHANGED reader /\ caller'[c].at \in {"idle"}
  BY DEF OwnsNothing, TypeOK, CallerType, Places, Results, NoConn
<1>2. TypeOK'
  BY <1>1 DEF TypeOK, OwnsNothing, CallerType
<1>3. OneMaker' /\ MakerKnown' /\ Closed'
  BY <1>1 DEF OwnsNothing, OneMaker, MakerKnown, Closed, Maker
<1> QED BY <1>1, <1>2, <1>3, OwnedStays

(* Close takes the connection from the reader, if it has one. *)
LEMMA CloseStep ==
  ASSUME IInv, Close
  PROVE  IInv'
<1> USE DEF IInv, Close
<1>1. TypeOK'
  BY DEF TypeOK, Places, Results, NoConn
<1>2. OneMaker'
  BY DEF TypeOK, OneMaker, Closed, Maker, NoConn
<1>3. MakerKnown' /\ Closed'
  BY DEF TypeOK, MakerKnown, Closed, NoConn
<1>4. Owned'
  BY DEF TypeOK, Owned, Closed, Holds, NoConn
<1> QED BY <1>1, <1>2, <1>3, <1>4

(* Close closes the connection that only it owns. *)
LEMMA CloseConnStep ==
  ASSUME IInv, CloseConn
  PROVE  IInv'
<1> USE DEF IInv
<1>1. /\ closer.at = "closing" /\ reader.conn = NoConn
      /\ \A d \in Callers : ~Maker(d) /\ ~Holds(d)
  BY DEF CloseConn, OneMaker, Closed, Maker, Holds
<1>2. /\ UNCHANGED <<reader, caller>>
      /\ closer' = [at |-> "done", conn |-> NoConn]
      /\ bus' \in [open: SUBSET Nat, broken: SUBSET Nat]
      /\ bus'.open = bus.open \ {closer.conn}
  BY DEF CloseConn, TypeOK
<1>3. TypeOK'
  BY <1>2 DEF TypeOK, NoConn
<1>4. OneMaker' /\ MakerKnown' /\ Closed'
  BY <1>1, <1>2 DEF OneMaker, MakerKnown, Closed, Maker
<1>5. bus'.open = {}
  BY <1>1, <1>2 DEF Owned
<1>6. Owned'
  BY <1>1, <1>2, <1>5 DEF Owned, Holds
<1> QED BY <1>3, <1>4, <1>6

(* A connection that the bus breaks keeps its owner. *)
LEMMA BreakStep ==
  ASSUME IInv, NEW conn \in bus.open, Break(conn)
  PROVE  IInv'
<1> USE DEF IInv
<1>1. /\ UNCHANGED <<reader, caller, closer>>
      /\ bus' \in [open: SUBSET Nat, broken: SUBSET Nat]
      /\ bus'.open = bus.open
  BY DEF Break, TypeOK
<1>2. TypeOK' /\ OneMaker' /\ MakerKnown' /\ Closed'
  BY <1>1 DEF TypeOK, OneMaker, MakerKnown, Closed, Maker
<1>3. Owned'
  BY <1>1 DEF Owned, Holds
<1> QED BY <1>2, <1>3

(* Every step keeps the invariant. *)
LEMMA NextIInv == IInv /\ [Next]_vars => IInv'
<1> SUFFICES ASSUME IInv, [Next]_vars PROVE IInv'
  OBVIOUS
<1>1. CASE UNCHANGED vars
  BY <1>1 DEF vars, IInv, TypeOK, OneMaker, MakerKnown, Closed, Owned, Maker,
              Holds
<1>2. ASSUME NEW c \in Callers,
             \/ \E session \in BOOLEAN : Current(c, session)
             \/ \E ok \in BOOLEAN : Dialled(c, ok)
             \/ Proceed(c)
      PROVE  IInv'
  BY <1>2, CurrentStep, DialledStep, ConnectionStep, WakeStep,
     WaitExpiresStep, PublishStep, DiscardStep, ReadSessionStep DEF Proceed
<1>3. CASE Close \/ CloseConn
  BY <1>3, CloseStep, CloseConnStep
<1>4. ASSUME NEW conn \in bus.open, Break(conn)
      PROVE  IInv'
  BY <1>4, BreakStep
<1> QED BY <1>1, <1>2, <1>3, <1>4 DEF Next

(* The invariant gives both properties. *)
LEMMA IInvGivesOne == IInv => OneConnection
<1> SUFFICES ASSUME IInv, NEW a \in bus.open, NEW b \in bus.open PROVE a = b
  BY DEF OneConnection, IInv, Owned
<1>1. CASE \E c \in Callers : Holds(c)
  <2> PICK c \in Callers : Holds(c)
    BY <1>1
  <2>1. /\ reader.conn = NoConn /\ closer.at # "closing"
        /\ \A d \in Callers : Holds(d) => d = c
    BY DEF IInv, OneMaker, Maker, Holds
  <2> QED BY <2>1 DEF IInv, Owned
<1>2. CASE ~\E c \in Callers : Holds(c)
  <2>1. closer.at = "closing" => reader.conn = NoConn
    BY DEF IInv, Closed
  <2> QED BY <1>2, <2>1 DEF IInv, Owned
<1> QED BY <1>1, <1>2

LEMMA IInvGivesNone == IInv => NoneLeft
BY DEF IInv, TypeOK, Closed, Owned, NoneLeft, Holds, NoConn

LEMMA Invariance == Spec => []IInv
BY InitIInv, NextIInv, PTL DEF Spec

(* The state keeps its type. *)
THEOREM TypeCorrect == Spec => []TypeOK
BY Invariance, PTL DEF IInv

(* Any number of callers share one connection, whenever Close comes. *)
THEOREM SharedConnection == Spec => []OneConnection
BY Invariance, IInvGivesOne, PTL

(* After Close, the last caller out leaves no connection behind. *)
THEOREM NothingLeftOpen == Spec => []NoneLeft
BY Invariance, IInvGivesNone, PTL

=============================================================================
