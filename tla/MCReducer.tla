----------------------------- MODULE MCReducer -----------------------------
(* Small instances of Reducer.tla for TLC. *)
EXTENDS Reducer, TLC

Event(start, end, content) ==
  [start |-> start, end |-> end, content |-> content, location |-> "utc"]

(* One event, the same event with another link, and the event moved out of  *)
(* the lead window, there without an end.                                   *)
MCMeetings == {Event(2, 3, "meet"), Event(2, 3, "zoom"), Event(3, 0, "meet")}

(* One event in a zone whose offset is not a number of whole hours. *)
MCOddZone == {[Event(2, 3, "meet") EXCEPT !.location = "fabricated"]}

Missing == [seen |-> "missing", meeting |-> NoMeeting, reason |-> ""]
Current(m) == [seen |-> "current", meeting |-> m, reason |-> ""]
Observed(r) == [seen |-> "observed", meeting |-> NoMeeting, reason |-> r]
Both(m, r) == [seen |-> "both", meeting |-> m, reason |-> r]

MCPollItems ==
  {Missing, Observed("cancelled")} \cup {Current(m) : m \in Meetings}
    \cup {Both(m, r) : m \in Meetings, r \in {"cancelled", "url-removed"}}

MCHostPolicies == {{"meet", "zoom"}, {"meet"}}
MCOneAccount == [k \in Keys |-> 1]
MCKeyHash == [k \in Keys |-> k]
MCRetryDelays == <<4>>

(* No step looks at the time of the event before it, and the properties only *)
(* at the one of the step itself: states that differ in `now' are the same.  *)
MCView == <<state, hosts, outcome>>
=============================================================================
