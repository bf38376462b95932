---------------------------- MODULE ActivityReader ----------------------------
(***************************************************************************)
(* activity/logind.go: callers of Current share one connection to the       *)
(* system bus, which the first of them makes while the others wait, and     *)
(* Close may come at any time.  The service has one caller, the activity    *)
(* worker, but nothing in Reader depends on that, so any set of callers is  *)
(* allowed here.                                                            *)
(*                                                                          *)
(* Sections under the mutex neither block nor wait, so each is one step.    *)
(***************************************************************************)
EXTENDS Naturals, FiniteSets

CONSTANTS
  Callers,    \* goroutines that call Current
  MaxDials    \* bound: no call begins after so many dials, unless one of
              \* them has left a connection

ASSUME DialsAssumption == MaxDials \in Nat

VARIABLES
  reader,   \* the fields of Reader under its mutex; dial numbers the
            \* connectDone channels, and each is closed when its dial is over
  caller,   \* for each caller where it is, the dial it waits for or makes,
            \* the connection it holds and its last result
  closer,   \* Close: not called, about to close its connection, or done
  bus       \* connections that this process has open, and those of them
            \* that the bus has broken

vars == <<reader, caller, closer, bus>>

(* A connection is named by the number of the dial that made it; 0 is nil. *)
NoConn == 0
Places == {"idle", "connection", "wait", "dial", "dialled", "discard", "read"}
Results == {"none", "known", "degraded"}

TypeOK ==
  /\ reader \in [conn: Nat, connecting: BOOLEAN, dial: Nat, closed: BOOLEAN]
  /\ caller \in [Callers -> [at: Places, dial: Nat, conn: Nat, result: Results]]
  /\ closer \in [at: {"not called", "closing", "done"}, conn: Nat]
  /\ bus \in [open: SUBSET Nat, broken: SUBSET Nat]

Init ==
  /\ reader = [conn |-> NoConn, connecting |-> FALSE, dial |-> 0,
               closed |-> FALSE]
  /\ caller = [c \in Callers |-> [at |-> "idle", dial |-> 0, conn |-> NoConn,
                                  result |-> "none"]]
  /\ closer = [at |-> "not called", conn |-> NoConn]
  /\ bus = [open |-> {}, broken |-> {}]

(* evaluate: any error lets the notification through. *)
Return(c, result) ==
  caller' = [caller EXCEPT ![c] = [at |-> "idle", dial |-> 0, conn |-> NoConn,
                                   result |-> result]]

-----------------------------------------------------------------------------
(* Current *)

(* Current up to the call of connection: the reader is closed, the session  *)
(* has no id, or it goes on.                                                *)
Current(c, session) ==
  /\ caller[c].at = "idle"
  /\ reader.dial < MaxDials \/ reader.conn # NoConn
  /\ IF reader.closed \/ ~session
       THEN Return(c, "degraded")
       ELSE caller' = [caller EXCEPT ![c].at = "connection"]
  /\ UNCHANGED <<reader, closer, bus>>

(* Mutant: nobody looks whether a connection is being made. *)
ConnectionWithoutWaiting(c) ==
  /\ caller[c].at = "connection"
  /\ IF reader.conn # NoConn
       THEN /\ caller' = [caller EXCEPT ![c].at = "read",
                                        ![c].conn = reader.conn]
            /\ UNCHANGED reader
       ELSE /\ reader' = [reader EXCEPT !.connecting = TRUE, !.dial = @ + 1]
            /\ caller' = [caller EXCEPT ![c].at = "dial",
                                        ![c].dial = reader.dial + 1]
  /\ UNCHANGED <<closer, bus>>

(* connection, its first section: take the connection, wait for the one     *)
(* that is being made, or make one.                                         *)
Connection(c) ==
  /\ caller[c].at = "connection"
  /\ \/ /\ reader.closed
        /\ Return(c, "degraded")
        /\ UNCHANGED reader
     \/ /\ ~reader.closed /\ reader.conn # NoConn
        /\ caller' = [caller EXCEPT ![c].at = "read", ![c].conn = reader.conn]
        /\ UNCHANGED reader
     \/ /\ ~reader.closed /\ reader.conn = NoConn /\ reader.connecting
        /\ caller' = [caller EXCEPT ![c].at = "wait", ![c].dial = reader.dial]
        /\ UNCHANGED reader
     \/ /\ ~reader.closed /\ reader.conn = NoConn /\ ~reader.connecting
        /\ reader' = [reader EXCEPT !.connecting = TRUE, !.dial = @ + 1]
        /\ caller' = [caller EXCEPT ![c].at = "dial",
                                    ![c].dial = reader.dial + 1]
  /\ UNCHANGED <<closer, bus>>

(* The channel of the dial is closed: look again. *)
DialOver(d) == d # reader.dial \/ ~reader.connecting

Wake(c) ==
  /\ caller[c].at = "wait" /\ DialOver(caller[c].dial)
  /\ caller' = [caller EXCEPT ![c].at = "connection", ![c].dial = 0]
  /\ UNCHANGED <<reader, closer, bus>>

(* Mutant: the wait ignores the deadline of the call. *)
WaitOnly(c) == FALSE

WaitExpires(c) ==
  /\ caller[c].at = "wait"
  /\ Return(c, "degraded")
  /\ UNCHANGED <<reader, closer, bus>>

(* connect returns, with a connection or without; it knows no deadline. *)
Dialled(c, ok) ==
  LET conn == IF ok THEN caller[c].dial ELSE NoConn
  IN /\ caller[c].at = "dial"
     /\ caller' = [caller EXCEPT ![c].at = "dialled", ![c].conn = conn]
     /\ bus' = [bus EXCEPT !.open = @ \cup ({conn} \ {NoConn})]
     /\ UNCHANGED <<reader, closer>>

(* Mutant: the new connection is kept although the reader was closed. *)
PublishAlways(c) ==
  LET conn == caller[c].conn
  IN /\ caller[c].at = "dialled"
     /\ reader' = [reader EXCEPT !.connecting = FALSE, !.conn = conn]
     /\ IF conn # NoConn
          THEN caller' = [caller EXCEPT ![c].at = "read", ![c].dial = 0]
          ELSE Return(c, "degraded")
     /\ UNCHANGED <<closer, bus>>

(* connection, its second section: everybody may use the new connection,    *)
(* unless the reader was closed meanwhile; the waiters wake either way.     *)
Publish(c) ==
  LET conn == caller[c].conn
  IN /\ caller[c].at = "dialled"
     /\ reader' = [reader EXCEPT !.connecting = FALSE,
                                 !.conn = IF reader.closed THEN @ ELSE conn]
     /\ \/ /\ conn = NoConn
           /\ Return(c, "degraded")
        \/ /\ conn # NoConn
           /\ caller' = [caller EXCEPT
                ![c].at = IF reader.closed THEN "discard" ELSE "read",
                ![c].dial = 0]
     /\ UNCHANGED <<closer, bus>>

Discard(c) ==
  /\ caller[c].at = "discard"
  /\ bus' = [bus EXCEPT !.open = @ \ {caller[c].conn}]
  /\ Return(c, "degraded")
  /\ UNCHANGED <<reader, closer>>

(* readSession: three calls on the connection, each under the deadline.     *)
(* They fail if the connection is closed or broken, and may fail anyway.    *)
Usable(conn) == conn \in bus.open \ bus.broken

ReadSession(c, ok) ==
  /\ caller[c].at = "read"
  /\ ok => Usable(caller[c].conn)
  /\ Return(c, IF ok THEN "known" ELSE "degraded")
  /\ UNCHANGED <<reader, closer, bus>>

-----------------------------------------------------------------------------
(* Close, and the bus (external) *)

(* Close takes the connection from the reader and closes it, in two steps. *)
Close ==
  /\ ~reader.closed
  /\ reader' = [reader EXCEPT !.closed = TRUE, !.conn = NoConn]
  /\ closer' = [at |-> IF reader.conn = NoConn THEN "done" ELSE "closing",
                conn |-> reader.conn]
  /\ UNCHANGED <<caller, bus>>

CloseConn ==
  /\ closer.at = "closing"
  /\ bus' = [bus EXCEPT !.open = @ \ {closer.conn}]
  /\ closer' = [at |-> "done", conn |-> NoConn]
  /\ UNCHANGED <<reader, caller>>

Break(conn) ==
  /\ conn \in bus.open \ bus.broken
  /\ bus' = [bus EXCEPT !.broken = @ \cup {conn}]
  /\ UNCHANGED <<reader, caller, closer>>

-----------------------------------------------------------------------------
(* A caller that has begun goes on; connect may take for ever. *)
Proceed(c) ==
  \/ Connection(c) \/ Wake(c) \/ WaitExpires(c) \/ Publish(c) \/ Discard(c)
  \/ \E ok \in BOOLEAN : ReadSession(c, ok)

Next ==
  \/ \E c \in Callers :
       \/ \E session \in BOOLEAN : Current(c, session)
       \/ \E ok \in BOOLEAN : Dialled(c, ok)
       \/ Proceed(c)
  \/ Close \/ CloseConn
  \/ \E conn \in bus.open : Break(conn)

Spec == Init /\ [][Next]_vars

Fairness == \A c \in Callers : WF_vars(Proceed(c))

FairSpec == Spec /\ Fairness

-----------------------------------------------------------------------------
(* Properties *)

(* Whatever the callers, the closing and the failures do, the process has   *)
(* at most one connection open, and the one that callers are given is it.   *)
OneConnection ==
  /\ \A a, b \in bus.open : a = b
  /\ reader.conn # NoConn => reader.conn \in bus.open

(* A connection that is made while Close runs is not left behind: once      *)
(* Close is done and nobody is inside Current, none is open.                *)
NoneLeft ==
  closer.at = "done" /\ (\A c \in Callers : caller[c].at = "idle") =>
    bus.open = {}

(* A caller that does not itself make the connection returns, although      *)
(* the dial it waits for may hang: the deadline of its own call ends the    *)
(* wait.                                                                    *)
WaitersReturn ==
  \A c \in Callers :
    caller[c].at = "wait" ~> caller[c].at \in {"idle", "dial"}

=============================================================================
