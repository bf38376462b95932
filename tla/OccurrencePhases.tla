-------------------------- MODULE OccurrencePhases --------------------------
(***************************************************************************)
(* What the daemon promises of an occurrence: the lifecycle of its durable *)
(* aggregate and of the notification it owns.  phase[k] is the lifecycle   *)
(* phase ("absent" when there is no aggregate) and id[k] the notification  *)
(* the aggregate holds, 0 for none.  One event of the daemon may move      *)
(* several occurrences, each by one of the moves below.                    *)
(*                                                                         *)
(* Two promises are built in.  A notification that the user can see is     *)
(* given up in two ways only, with one exception (Abandon): the daemon     *)
(* closed it (Withdrawn, Resumed), or the meeting was joined (Launched).   *)
(* A joined meeting is never announced again.                              *)
(***************************************************************************)
EXTENDS Naturals

CONSTANT Keys

VARIABLES phase, id

vars == <<phase, id>>

Init == /\ phase = [k \in Keys |-> "absent"]
        /\ id = [k \in Keys |-> 0]

Move(k, from, to) == phase[k] \in from /\ phase'[k] = to
KeepID(k) == id'[k] = id[k]
DropID(k) == id'[k] = 0

Discover(k) == Move(k, {"absent"}, "scheduled") /\ KeepID(k)

Announce(k) == Move(k, {"scheduled"}, "notify-pending") /\ KeepID(k)

(* The server answered; a replacement may come back under a new id. *)
Deliver(k) ==
  Move(k, {"notify-pending"}, "notified") /\ id'[k] \in Nat \ {0}

Dismiss(k) == Move(k, {"notified"}, "actionable-history") /\ KeepID(k)

Click(k) ==
  Move(k, {"notified", "actionable-history"}, "join-pending") /\ KeepID(k)

Launched(k) == Move(k, {"join-pending"}, "joined") /\ DropID(k)

LaunchFailed(k) == /\ phase[k] = "join-pending"
                   /\ phase'[k] \in {"notified", "actionable-history"}
                   /\ KeepID(k)

(* A change that still falls into the lead window replaces in place. *)
Replace(k) == /\ Move(k, {"notified", "actionable-history", "join-pending"},
                      "notify-pending")
              /\ KeepID(k)

(* From here Join is invalid; the id is kept until the close is done. *)
Withdraw(k) == /\ Move(k, {"notify-pending", "notified",
                           "actionable-history", "join-pending"},
                       "close-pending")
               /\ id[k] # 0 /\ KeepID(k)

Withdrawn(k) == Move(k, {"close-pending"}, "absent") /\ DropID(k)

Resumed(k) == Move(k, {"close-pending"}, "scheduled") /\ DropID(k)

Postpone(k) ==
  Move(k, {"notify-pending"}, "scheduled") /\ id[k] = 0 /\ KeepID(k)

(* Only what shows nothing is dropped without a close: an announcement not  *)
(* yet made, the history of one dismissed, and the tombstone of one joined. *)
Forget(k) ==
  /\ Move(k, {"scheduled", "notify-pending", "actionable-history", "joined"},
          "absent")
  /\ phase[k] = "actionable-history" \/ id[k] = 0
  /\ DropID(k)

(* The exception: a replacement that is still undelivered when its meeting  *)
(* has ended is dropped with the notification it was to replace.            *)
Abandon(k) ==
  Move(k, {"notify-pending"}, "absent") /\ id[k] # 0 /\ DropID(k)

Stay(k) == phase'[k] = phase[k] /\ KeepID(k)

Step(k) ==
  \/ Discover(k) \/ Announce(k) \/ Deliver(k) \/ Dismiss(k) \/ Click(k)
  \/ Launched(k) \/ LaunchFailed(k) \/ Replace(k) \/ Withdraw(k)
  \/ Withdrawn(k) \/ Resumed(k) \/ Postpone(k) \/ Forget(k) \/ Abandon(k)
  \/ Stay(k)

Next == \A k \in Keys : Step(k)

Spec == Init /\ [][Next]_vars
=============================================================================
