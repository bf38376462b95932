------------------------------ MODULE Reducer ------------------------------
(***************************************************************************)
(* The reducer of the meeting notifier (internal/daemon/reducer.go) in its *)
(* most general environment: any event, at any time, in any order, stale   *)
(* and repeated results included.  The owner loop applies one event at a   *)
(* time, so one action is one call of reduceWithIndex.                     *)
(***************************************************************************)
EXTENDS Lifecycle

CONSTANTS
  MaxTime,        \* events are stamped 1..MaxTime, in any order
  NotificationIDs,\* the ids the notification server hands out
  PollItems,      \* what a poll can say of one key
  HostPolicies,   \* the allowed-host sets the configuration can hold, as
                  \* the sets of contents whose URL they accept
  ErrorKinds      \* the poll failures that occur

ASSUME BoundsAssumption ==
  /\ MaxTime \in Nat
  /\ NotificationIDs \subseteq Nat \ {0}
  /\ PollItems \subseteq PollItemType
  /\ ErrorKinds \subseteq PollErrorKinds
ASSUME PollItemsAssumption ==
  \A item \in PollItems : GoodItem(item)

VARIABLES
  state,    \* storage.State
  hosts,    \* the policy's allowed hosts
  now,      \* Event.At of the last event
  outcome   \* how the last call of the reducer ended

vars == <<state, hosts, now, outcome>>

Times == 1..MaxTime
Revisions == 1..MaxRevision

Init == /\ state = NewState
        /\ hosts \in HostPolicies
        /\ now = 0
        /\ outcome = "ok"

(* The tail of reduceWithIndex: an error leaves the state as it was. *)
Commit(mid, at) ==
  /\ outcome' = IF RevisionExhausted(mid) THEN "exhausted"
                ELSE IF Validate(Settle(mid, at)) THEN "ok" ELSE "invalid"
  /\ state' = IF Accepted(mid, at) THEN Settle(mid, at) ELSE state
  /\ now' = at
  /\ UNCHANGED hosts

Tick == \E at \in Times : Commit(TickEvent(state, at), at)

Activity ==
  \E at \in Times, announce \in BOOLEAN :
    Commit(ActivityResultEvent(state, announce, at), at)

(* A poll only lists meetings whose URL the hosts of the day accept. *)
Polls(a) ==
  [KeysOf(a) -> {item \in PollItems :
                   item.seen \in {"current", "both"}
                     => item.meeting.content \in hosts}]

PollResult ==
  \E at \in Times, a \in Accounts : \E poll \in Polls(a) :
    Commit(Reconcile(state, a, poll, at), at)

PollFailure ==
  \E at \in Times, a \in Accounts, kind \in ErrorKinds, gen \in Generations :
    Commit(ApplyPollFailure(state, a, kind, gen, at), at)

(* The server returns the id it was asked to replace or an unused one. *)
UnusedID(k, id) == \A j \in Keys \ {k} : state.occurrences[j].id # id

Delivered ==
  \E at \in Times, k \in Keys, r \in Revisions, id \in NotificationIDs :
    UnusedID(k, id) /\ Commit(ApplyDelivery(state, k, r, id, at), at)

WarningDelivered ==
  \E at \in Times, a \in Accounts, r \in Revisions :
    Commit(ApplyWarningDelivery(state, a, r, at), at)

Failed ==
  \E at \in Times, k \in Keys, r \in Revisions,
     id \in NotificationIDs \cup {0} :
    Commit(ApplyNotificationFailure(state, k, r, id, at), at)

WarningFailed ==
  \E at \in Times, a \in Accounts, r \in Revisions :
    Commit(ApplyWarningFailure(state, a, r, at), at)

CommandCompleted ==
  \E at \in Times, k \in Keys, id \in NotificationIDs :
    Commit(CompleteClose(state, k, id), at)

ActionInvoked ==
  \E at \in Times, id \in NotificationIDs :
    Commit(JoinSignal(state, id, at, hosts), at)

NotificationClosed ==
  \E at \in Times, id \in NotificationIDs :
    Commit(ClosedSignal(state, id), at)

Launch ==
  \E at \in Times, k \in Keys, r \in Revisions, ok \in BOOLEAN :
    Commit(LaunchResultEvent(state, k, r, ok), at)

(* The service restarts with another configuration: the state is loaded,    *)
(* normalised and cleaned of announcements that came too late (Loop.Run).   *)
Restart ==
  /\ hosts' \in HostPolicies
  /\ now' \in Times
  /\ state' = Settle(NormalizeLegacy(state), now')
  /\ outcome' = "ok"

Next == \/ Tick \/ Activity \/ PollResult \/ PollFailure
        \/ Delivered \/ WarningDelivered \/ Failed \/ WarningFailed
        \/ CommandCompleted \/ ActionInvoked \/ NotificationClosed
        \/ Launch \/ Restart

Spec == Init /\ [][Next]_vars

-----------------------------------------------------------------------------
(* Type invariant of the reducer's state. *)
TypeOK == /\ state \in StateType /\ WidthsOK(state)
          /\ hosts \in HostPolicies
          /\ now \in Times \cup {0}
          /\ outcome \in {"ok", "exhausted", "invalid"}

(* State.Validate accepts every state the reducer builds, whatever event    *)
(* arrives in whatever phase: no handler leaves a field behind that its new *)
(* phase forbids, and two occurrences never hold one notification.  The     *)
(* daemon exits on a rejected state, so a rejection would be an outage.     *)
NeverInvalid == Validate(state) /\ outcome # "invalid"

Occurrence(k) == state.occurrences[k]

(* Entry k leaves a tombstone phase. *)
Leaves(k, phase) ==
  Occurrence(k).phase = phase /\ Occurrence(k)'.phase # phase

(* joined is a deduplication tombstone: it only disappears once the meeting *)
(* has ended (expiry.go, PhaseJoined), so no poll, signal, late result or   *)
(* tick announces the meeting again while it lasts.                         *)
JoinedUntilEnd ==
  [][\A k \in Keys :
       Leaves(k, "joined") => MeetingExpired(Occurrence(k), now')]_vars

(* The design: "Cancellation, deletion, decline, URL removal [...]           *)
(* transitions the aggregate to `close-pending`"; what is about to be        *)
(* announced is in the last snapshot of its account.                         *)
AnnouncedIsListed ==
  \A k \in Keys :
    Occurrence(k).phase = "notify-pending" => k \in state.snapshots[AccountOf[k]]

(* The design: "Notify at most once per eligible host during normal          *)
(* polling"; what has been shown is not announced again for a meeting that  *)
(* begins and ends when it did, with the same content, in whatever time     *)
(* zone the calendar now writes its times.                                  *)
Listing(m) == [start |-> m.start, end |-> m.end, content |-> m.content]

UnchangedNotReannounced ==
  [][\A k \in Keys :
       /\ Occurrence(k).phase \in
            {"notified", "actionable-history", "join-pending"}
       /\ Occurrence(k)'.phase = "notify-pending"
       => Listing(Occurrence(k)'.meeting) # Listing(Occurrence(k).meeting)]_vars

(* Revisions tell a result from an older one: they never go back while the  *)
(* entry lives, and an entry that announces again never reuses one.         *)
RevisionsAdvance ==
  [][\A k \in Keys :
       LET o == Occurrence(k)  n == Occurrence(k)' IN
       o.phase # "absent" /\ n.phase # "absent" =>
         /\ n.notifyRevision >= o.notifyRevision
         /\ n.joinRevision >= o.joinRevision
         /\ (n.phase = "notify-pending" /\ o.phase # "notify-pending")
              => n.notifyRevision > o.notifyRevision
         /\ (n.phase = "join-pending" /\ o.phase # "join-pending")
              => n.joinRevision > o.joinRevision]_vars

(* Every step moves each occurrence along the lifecycle that                *)
(* OccurrencePhases.tla describes: the reducer implements it.               *)
Contract == INSTANCE OccurrencePhases
              WITH phase <- [k \in Keys |-> state.occurrences[k].phase],
                   id <- [k \in Keys |-> state.occurrences[k].id]

FollowsLifecycle == Contract!Spec
=============================================================================
