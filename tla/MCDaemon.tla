------------------------------ MODULE MCDaemon ------------------------------
(* Small instances of Daemon.tla for TLC. *)
EXTENDS Daemon, TLC

Event(start, end, content) ==
  [start |-> start, end |-> end, content |-> content, location |-> "utc"]

(* One event, its link changed, and the event moved out of the lead window. *)
MCMeetings == {Event(3, 4, "meet"), Event(3, 4, "zoom"), Event(5, 6, "meet")}
MCOneMeeting == {Event(3, 4, "meet")}
MCTwoMeetings == {Event(3, 4, "meet"), Event(3, 4, "zoom")}

Missing == [seen |-> "missing", meeting |-> NoMeeting, reason |-> ""]
Current(m) == [seen |-> "current", meeting |-> m, reason |-> ""]

MCPollItems == {Missing} \cup {Current(m) : m \in Meetings}

MCOneAccount == [k \in Keys |-> 1]
MCKeyHash == [k \in Keys |-> k]
MCRetryDelays == <<1, 2>>
=============================================================================
