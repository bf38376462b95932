--------------------------- MODULE LifecycleProofs ---------------------------
(***************************************************************************)
(* Lemmas about the operators of Lifecycle.tla, for every value of its     *)
(* constants: what the handlers of the reducer keep of a sound state.      *)
(* ReducerProofs and DaemonProofs rest on them.                            *)
(*                                                                         *)
(* The argument goes from entries to states.  Legit is what the reducer    *)
(* keeps of one entry, Keeps(o, n) says that a handler that turns o into n *)
(* keeps it and brings in no notification id; there is one lemma for each  *)
(* way the handlers rewrite an entry.  Sound lifts Legit to the state and  *)
(* adds that ids are distinct and warnings valid; there is one lemma for   *)
(* each event.  The last part follows an entry from one event to the next. *)
(***************************************************************************)
EXTENDS Lifecycle, TLAPS

(* What the reducer keeps of every entry.  Validate would let a close resume *)
(* as "notify-pending", but no handler asks for that.                       *)
Legit(o) ==
  /\ o \in OccurrenceType
  /\ o.resume # "notify-pending"
  /\ o.attempt =< Len(RetryDelays) /\ o.joinRevision =< MaxRevision
  /\ o = NoEntry \/ ValidOccurrence(o)

(* The entry n is sound, and its notification, if any, is that of o. *)
Keeps(o, n) == Legit(n) /\ n.id \in {0, o.id}

(* The retry table is not empty. *)
LEMMA DelaysLen == Len(RetryDelays) \in Nat /\ Len(RetryDelays) >= 1
  BY RetryDelaysAssumption

(* Every delay of the retry table is positive (retry.go). *)
LEMMA DelayType ==
  \A i \in 1..Len(RetryDelays) : RetryDelays[i] \in Nat /\ RetryDelays[i] >= 1
  BY RetryDelaysAssumption

(* An entry that validates and counts no attempt is sound. *)
LEMMA LegitNew ==
  ASSUME NEW n, n \in OccurrenceType, n.attempt = 0,
         n.resume # "notify-pending", n.joinRevision =< MaxRevision,
         ValidOccurrence(n)
  PROVE  Legit(n)
<1>1. n.attempt =< Len(RetryDelays)
  BY DelaysLen
<1> QED  BY <1>1 DEF Legit

(* A deleted entry is sound. *)
LEMMA NoEntryLegit == Legit(NoEntry)
<1>1. /\ NoEntry \in OccurrenceType /\ NoEntry.resume # "notify-pending"
      /\ NoEntry.attempt = 0 /\ NoEntry.joinRevision = 0
  BY DEF NoEntry, OccurrenceType, NoMeeting
<1>2. NoEntry.attempt =< Len(RetryDelays) /\ NoEntry.joinRevision =< MaxRevision
  BY <1>1, DelaysLen, MaxRevisionAssumption
<1> QED  BY <1>1, <1>2 DEF Legit

(* Deleting an entry keeps soundness. *)
LEMMA KeepsNone == ASSUME NEW o PROVE Keeps(o, NoEntry)
  BY NoEntryLegit DEF Keeps, NoEntry

(* So does leaving it alone. *)
LEMMA KeepsSelf == ASSUME NEW o, Legit(o) PROVE Keeps(o, o)
  BY DEF Keeps

(* A sound entry that exists passes OccurrenceState.Validate. *)
LEMMA PresentValid ==
  ASSUME NEW o, Legit(o), o.phase # "absent"
  PROVE  ValidOccurrence(o)
<1>1. NoEntry.phase = "absent"
  BY DEF NoEntry
<1> QED  BY <1>1 DEF Legit

(* A sound entry has its type. *)
LEMMA LegitType ==
  ASSUME NEW o, Legit(o)
  PROVE  o \in OccurrenceType
  BY DEF Legit

(* A sound entry is in a phase, or absent. *)
LEMMA PhaseType ==
  ASSUME NEW o, Legit(o)
  PROVE  o.phase \in Phases \cup {"absent"}
<1>1. o \in OccurrenceType
  BY LegitType
<1> QED  BY <1>1 DEF OccurrenceType

(* The counter of revisions holds 0 and 1. *)
LEMMA RevisionBound == 0 =< MaxRevision /\ 1 =< MaxRevision
  BY MaxRevisionAssumption

(* The phases that own a notification. *)
LEMMA ShownHasID ==
  ASSUME NEW o, Legit(o),
         o.phase \in {"notified", "actionable-history", "join-pending",
                      "close-pending"}
  PROVE  o.id # 0
<1>1. ValidOccurrence(o)
  BY PresentValid
<1> QED  BY <1>1 DEF ValidOccurrence, RequireAction

(* beginClose, for an entry that has a notification. *)
LEMMA BeginCloseKeeps ==
  ASSUME NEW o, Legit(o), o.id # 0, NEW reason \in CloseReasons,
         NEW resume \in {"", "scheduled"},
         resume # "" => reason = "rescheduled",
         NEW n, n = BeginClose(o, reason, resume)
  PROVE  Keeps(o, n)
<1>1. n \in OccurrenceType
  BY DEF Legit, BeginClose, OccurrenceType, Phases, CloseReasons
<1>2. /\ n.phase = "close-pending" /\ n.closeReason = reason
      /\ n.resume = resume /\ n.notifiedAt = FALSE /\ n.actionExpiresAt = 0
      /\ n.notBefore = 0 /\ n.attempt = 0 /\ n.joinRequestedAt = FALSE
      /\ n.joinedAt = FALSE /\ n.id = o.id /\ n.joinRevision = o.joinRevision
  BY DEF Legit, BeginClose, OccurrenceType
<1>3. ValidOccurrence(n)
  BY <1>2 DEF ValidOccurrence, NoJoin, Phases, CloseReasons
<1>4. n.joinRevision =< MaxRevision
  BY <1>2 DEF Legit
<1> QED  BY <1>1, <1>2, <1>3, <1>4, LegitNew DEF Keeps

(* expireNotifyPending. *)
LEMMA ExpireKeeps ==
  ASSUME NEW o, Legit(o), NEW at \in Nat
  PROVE  Keeps(o, ExpireNotifyPending(o, at))
<1>1. CASE o.phase # "notify-pending" \/ o.meeting.start > at
  BY <1>1, KeepsSelf DEF ExpireNotifyPending
<1>2. CASE ~(o.phase # "notify-pending" \/ o.meeting.start > at) /\ o.id = 0
  BY <1>2, KeepsNone DEF ExpireNotifyPending
<1>3. CASE ~(o.phase # "notify-pending" \/ o.meeting.start > at) /\ o.id # 0
  BY <1>3, BeginCloseKeeps DEF ExpireNotifyPending, CloseReasons
<1> QED  BY <1>1, <1>2, <1>3

(* prune, for one entry. *)
LEMMA PruneKeeps ==
  ASSUME NEW o, Legit(o), NEW at \in Nat
  PROVE  Keeps(o, Prune(o, at))
<1>1. CASE o.phase \in {"scheduled", "notify-pending", "joined"}
  BY <1>1, KeepsSelf, KeepsNone DEF Prune
<1>2. CASE o.phase \in {"notified", "join-pending"}
  <2>1. o.id # 0
    BY <1>2, ShownHasID
  <2>2. Keeps(o, BeginClose(o, "expired", ""))
    BY <2>1, BeginCloseKeeps DEF CloseReasons
  <2> QED  BY <1>2, <2>2, KeepsSelf DEF Prune
<1>3. CASE o.phase = "actionable-history"
  BY <1>3, KeepsSelf, KeepsNone DEF Prune
<1>4. CASE o.phase \in {"absent", "close-pending"}
  BY <1>4, KeepsSelf DEF Prune
<1> QED  BY <1>1, <1>2, <1>3, <1>4 DEF Legit, OccurrenceType, Phases

(* A new meeting under a new revision. *)
LEMMA RenewedKeeps ==
  ASSUME NEW o, Legit(o), o.phase # "absent", NEW m \in Meetings,
         NEW n, n = Renewed(o, m)
  PROVE  Legit(n) /\ n.id = o.id /\ n.phase = o.phase /\ n.meeting = m
<1>0. o \in OccurrenceType
  BY LegitType
<1>1. n \in OccurrenceType
  <2>a. o.notifyRevision \in Nat
    BY <1>0 DEF OccurrenceType
  <2>1. PICK r \in Nat : r = o.notifyRevision + 1
    BY <2>a
  <2>2. n = [o EXCEPT !.notifyRevision = r, !.meeting = m]
    BY <2>1 DEF Renewed
  <2> QED  BY <1>0, <2>2 DEF OccurrenceType
<1>2. /\ n.phase = o.phase /\ n.closeReason = o.closeReason
      /\ n.resume = o.resume /\ n.notifiedAt = o.notifiedAt
      /\ n.actionExpiresAt = o.actionExpiresAt
      /\ n.attempt = o.attempt /\ n.joinRequestedAt = o.joinRequestedAt
      /\ n.joinedAt = o.joinedAt /\ n.id = o.id /\ n.notBefore = o.notBefore
      /\ n.joinRevision = o.joinRevision /\ n.meeting = m
  BY <1>0 DEF OccurrenceType, Renewed
<1>3. ValidOccurrence(o)
  BY PresentValid
<1>4. ValidOccurrence(n)
  BY <1>2, <1>3 DEF ValidOccurrence, NoAction, RequireAction, NoRetry,
     NoJoin, NoClose
<1> QED  BY <1>1, <1>2, <1>4 DEF Legit

(* prepareReplacement. *)
LEMMA ReplacementKeeps ==
  ASSUME NEW o, Legit(o), o.phase # "absent", NEW m \in Meetings,
         NEW at \in Nat, NEW n, n = PrepareReplacement(o, m, at)
  PROVE  Keeps(o, n)
<1>0. PICK r : r = Renewed(o, m) /\ Legit(r) /\ r.id = o.id
  BY RenewedKeeps
<1>1. r \in OccurrenceType /\ r.joinRevision =< MaxRevision
  BY <1>0 DEF Legit
<1>2. n \in OccurrenceType
  BY <1>0, <1>1 DEF OccurrenceType, Phases, PrepareReplacement
<1>3. /\ n.phase = "notify-pending" /\ n.closeReason = ""
      /\ n.resume = "" /\ n.notifiedAt = FALSE /\ n.actionExpiresAt = 0
      /\ n.attempt = 0 /\ n.joinRequestedAt = FALSE
      /\ n.joinedAt = FALSE /\ n.id = o.id /\ n.joinRevision = r.joinRevision
  BY <1>0, <1>1 DEF OccurrenceType, PrepareReplacement
<1>4. ValidOccurrence(n)
  BY <1>3 DEF ValidOccurrence, NoJoin, NoClose, Phases
<1> QED  BY <1>1, <1>2, <1>3, <1>4, LegitNew DEF Keeps

(* Storing the polled meeting in an entry that exists. *)
LEMMA MeetingKeeps ==
  ASSUME NEW o, Legit(o), o.phase # "absent", NEW m \in Meetings,
         NEW n, n = [o EXCEPT !.meeting = m]
  PROVE  Keeps(o, n)
<1>0. o \in OccurrenceType
  BY LegitType
<1>1. n \in OccurrenceType
  BY <1>0 DEF OccurrenceType
<1>2. /\ n.phase = o.phase /\ n.closeReason = o.closeReason
      /\ n.resume = o.resume /\ n.notifiedAt = o.notifiedAt
      /\ n.actionExpiresAt = o.actionExpiresAt
      /\ n.attempt = o.attempt /\ n.joinRequestedAt = o.joinRequestedAt
      /\ n.joinedAt = o.joinedAt /\ n.id = o.id /\ n.notBefore = o.notBefore
      /\ n.joinRevision = o.joinRevision
  BY <1>0 DEF OccurrenceType
<1>3. ValidOccurrence(o)
  BY PresentValid
<1>4. ValidOccurrence(n)
  BY <1>2, <1>3 DEF ValidOccurrence, NoAction, RequireAction, NoRetry,
     NoJoin, NoClose
<1> QED  BY <1>1, <1>2, <1>4 DEF Legit, Keeps

(* The notify-pending case of reconcileCurrent. *)
LEMMA RenewPendingKeeps ==
  ASSUME NEW o, Legit(o), o.phase = "notify-pending", NEW m \in Meetings,
         NEW at \in Nat
  PROVE  Keeps(o, RenewPending(o, m, at))
<1>0. PICK r : /\ r = Renewed(o, m) /\ Legit(r) /\ r.id = o.id
               /\ r.phase = "notify-pending"
  BY RenewedKeeps
<1>1. /\ r \in OccurrenceType /\ r.joinRevision =< MaxRevision
      /\ r.resume # "notify-pending"
  BY <1>0 DEF Legit
<1>2. ValidOccurrence(r)
  BY <1>0, PresentValid
<1>3. CASE Due(m, at)
  <2>1. PICK n : n = [r EXCEPT !.notBefore = at, !.attempt = 0]
    OBVIOUS
  <2>2. n \in OccurrenceType
    BY <1>1, <2>1 DEF OccurrenceType
  <2>3. /\ n.phase = "notify-pending" /\ n.closeReason = r.closeReason
        /\ n.resume = r.resume /\ n.notifiedAt = r.notifiedAt
        /\ n.actionExpiresAt = r.actionExpiresAt /\ n.attempt = 0
        /\ n.joinRequestedAt = r.joinRequestedAt /\ n.joinedAt = r.joinedAt
        /\ n.id = o.id /\ n.joinRevision = r.joinRevision
    BY <1>0, <1>1, <2>1 DEF OccurrenceType
  <2>4. ValidOccurrence(n)
    BY <1>0, <1>2, <2>3 DEF ValidOccurrence, NoJoin, NoClose, Phases
  <2>5. Keeps(o, n)
    BY <1>1, <2>2, <2>3, <2>4, LegitNew DEF Keeps
  <2> QED  BY <1>0, <1>3, <2>1, <2>5 DEF RenewPending
<1>4. CASE ~Due(m, at) /\ o.id # 0
  <2>1. Keeps(r, BeginClose(r, "rescheduled", "scheduled"))
    BY <1>0, <1>4, BeginCloseKeeps DEF CloseReasons
  <2>2. RenewPending(o, m, at) = BeginClose(r, "rescheduled", "scheduled")
    BY <1>0, <1>4 DEF RenewPending
  <2> QED  BY <1>0, <2>1, <2>2 DEF Keeps
<1>5. CASE ~Due(m, at) /\ o.id = 0
  <2>1. PICK n : n = [r EXCEPT !.phase = "scheduled", !.notBefore = 0,
                               !.attempt = 0]
    OBVIOUS
  <2>2. n \in OccurrenceType
    BY <1>1, <2>1 DEF OccurrenceType, Phases
  <2>3. /\ n.phase = "scheduled" /\ n.closeReason = r.closeReason
        /\ n.resume = r.resume /\ n.notifiedAt = r.notifiedAt
        /\ n.actionExpiresAt = r.actionExpiresAt /\ n.attempt = 0
        /\ n.joinRequestedAt = r.joinRequestedAt /\ n.joinedAt = r.joinedAt
        /\ n.id = o.id /\ n.joinRevision = r.joinRevision /\ n.notBefore = 0
    BY <1>0, <1>1, <2>1 DEF OccurrenceType
  <2>4. ValidOccurrence(n)
    BY <1>0, <1>2, <1>5, <2>3
    DEF ValidOccurrence, NoJoin, NoClose, NoAction, NoRetry, Phases
  <2>5. Keeps(o, n)
    BY <1>1, <2>2, <2>3, <2>4, LegitNew DEF Keeps
  <2>6. RenewPending(o, m, at) = n
    BY <1>0, <1>5, <2>1 DEF RenewPending
  <2> QED  BY <2>5, <2>6
<1> QED  BY <1>3, <1>4, <1>5

(* reconcileCurrent. *)
LEMMA ReconcileCurrentKeeps ==
  ASSUME NEW o, Legit(o), NEW m \in Meetings, NEW at \in Nat
  PROVE  Keeps(o, ReconcileCurrent(o, m, at))
<1> DEFINE changed == ReplacementRelevantChanged(o.meeting, m)
<1>1. CASE o.phase = "absent"
  <2>1. PICK n : n = [NoEntry EXCEPT !.meeting = m, !.phase = "scheduled"]
    OBVIOUS
  <2>2. n \in OccurrenceType
    BY <2>1 DEF OccurrenceType, NoEntry, Phases
  <2>3. /\ n.phase = "scheduled" /\ n.closeReason = ""
        /\ n.resume = "" /\ n.notifiedAt = FALSE
        /\ n.actionExpiresAt = 0 /\ n.attempt = 0
        /\ n.joinRequestedAt = FALSE /\ n.joinedAt = FALSE
        /\ n.id = 0 /\ n.joinRevision = 0 /\ n.notBefore = 0
    BY <2>1 DEF NoEntry
  <2>4. ValidOccurrence(n)
    BY <2>3 DEF ValidOccurrence, NoJoin, NoClose, NoAction, NoRetry, Phases
  <2>5. n.joinRevision =< MaxRevision
    BY <2>3, RevisionBound
  <2>6. Keeps(o, n)
    BY <2>2, <2>3, <2>4, <2>5, LegitNew DEF Keeps
  <2>7. ReconcileCurrent(o, m, at) = n
    BY <1>1, <2>1 DEF ReconcileCurrent
  <2> QED  BY <2>6, <2>7
<1>2. CASE /\ o.phase # "absent"
           /\ o.phase \in {"joined", "scheduled", "close-pending"} \/ ~changed
  <2>1. ReconcileCurrent(o, m, at) = [o EXCEPT !.meeting = m]
    BY <1>2 DEF ReconcileCurrent
  <2> QED  BY <1>2, <2>1, MeetingKeeps
<1>3. CASE o.phase = "notify-pending" /\ changed
  <2>1. ReconcileCurrent(o, m, at) = RenewPending(o, m, at)
    BY <1>3 DEF ReconcileCurrent
  <2> QED  BY <1>3, <2>1, RenewPendingKeeps
<1>4. CASE /\ o.phase \in {"notified", "actionable-history", "join-pending"}
           /\ changed
  <2>1. CASE Due(m, at)
    <3>1. ReconcileCurrent(o, m, at) = PrepareReplacement(o, m, at)
      BY <1>4, <2>1 DEF ReconcileCurrent
    <3> QED  BY <1>4, <3>1, ReplacementKeeps
  <2>2. CASE ~Due(m, at)
    <3>1. PICK c : c = BeginClose(o, "rescheduled", "scheduled")
      OBVIOUS
    <3>2. Keeps(o, c) /\ c.phase # "absent"
      <4>1. o.id # 0
        BY <1>4, ShownHasID
      <4>2. Keeps(o, c)
        BY <3>1, <4>1, BeginCloseKeeps DEF CloseReasons
      <4>3. o \in OccurrenceType
        BY LegitType
      <4>4. c.phase = "close-pending"
        BY <3>1, <4>3 DEF BeginClose, OccurrenceType
      <4> QED  BY <4>2, <4>4
    <3>3. ReconcileCurrent(o, m, at) = [c EXCEPT !.meeting = m]
      BY <1>4, <2>2, <3>1 DEF ReconcileCurrent
    <3>4. Keeps(c, ReconcileCurrent(o, m, at))
      BY <3>2, <3>3, MeetingKeeps DEF Keeps
    <3> QED  BY <3>2, <3>4 DEF Keeps
  <2> QED  BY <2>1, <2>2
<1> QED
  <2>1. o.phase \in Phases \cup {"absent"}
    BY PhaseType
  <2> QED  BY <1>1, <1>2, <1>3, <1>4, <2>1 DEF Phases

(* Advancing the notify revision. *)
LEMMA BumpKeeps ==
  ASSUME NEW o, Legit(o), o.phase # "absent",
         NEW n, n = [o EXCEPT !.notifyRevision = @ + 1]
  PROVE  Legit(n) /\ n.id = o.id
<1>0. o \in OccurrenceType
  BY LegitType
<1>a. o.notifyRevision \in Nat
  BY <1>0 DEF OccurrenceType
<1>b. PICK r \in Nat : r = o.notifyRevision + 1
  BY <1>a
<1>c. n = [o EXCEPT !.notifyRevision = r]
  BY <1>b
<1>1. n \in OccurrenceType
  BY <1>0, <1>c DEF OccurrenceType
<1>2. /\ n.phase = o.phase /\ n.closeReason = o.closeReason
      /\ n.resume = o.resume /\ n.notifiedAt = o.notifiedAt
      /\ n.actionExpiresAt = o.actionExpiresAt
      /\ n.attempt = o.attempt /\ n.joinRequestedAt = o.joinRequestedAt
      /\ n.joinedAt = o.joinedAt /\ n.id = o.id /\ n.notBefore = o.notBefore
      /\ n.joinRevision = o.joinRevision
  BY <1>0, <1>c DEF OccurrenceType
<1>3. ValidOccurrence(o)
  BY PresentValid
<1>4. ValidOccurrence(n)
  BY <1>2, <1>3 DEF ValidOccurrence, NoAction, RequireAction, NoRetry,
     NoJoin, NoClose
<1> QED  BY <1>1, <1>2, <1>4 DEF Legit

(* reconcileRemoved. *)
LEMMA ReconcileRemovedKeeps ==
  ASSUME NEW o, Legit(o), NEW reason \in CloseReasons
  PROVE  Keeps(o, ReconcileRemoved(o, reason))
<1>1. CASE o.phase = "scheduled"
  BY <1>1, KeepsNone DEF ReconcileRemoved
<1>2. CASE o.phase = "notify-pending" /\ o.id = 0
  BY <1>2, KeepsNone DEF ReconcileRemoved
<1>3. CASE o.phase = "notify-pending" /\ o.id # 0
  <2>1. PICK r : /\ r = [o EXCEPT !.notifyRevision = @ + 1]
                 /\ Legit(r) /\ r.id = o.id
    BY <1>3, BumpKeeps
  <2>2. ReconcileRemoved(o, reason) = BeginClose(r, reason, "")
    BY <1>3, <2>1 DEF ReconcileRemoved
  <2> QED  BY <1>3, <2>1, <2>2, BeginCloseKeeps DEF Keeps
<1>4. CASE o.phase \in {"notified", "actionable-history", "join-pending"}
  <2>1. o.id # 0
    BY <1>4, ShownHasID
  <2>2. ReconcileRemoved(o, reason) = BeginClose(o, reason, "")
    BY <1>4 DEF ReconcileRemoved
  <2> QED  BY <2>1, <2>2, BeginCloseKeeps
<1>5. CASE o.phase \in {"absent", "joined", "close-pending"}
  BY <1>5, KeepsSelf DEF ReconcileRemoved
<1> QED
  <2>1. o.phase \in Phases \cup {"absent"}
    BY PhaseType
  <2> QED  BY <1>1, <1>2, <1>3, <1>4, <1>5, <2>1 DEF Phases

(* The next attempt has an entry in the retry table. *)
LEMMA NextAttemptType ==
  ASSUME NEW a \in Nat
  PROVE  NextAttempt(a) \in 1..Len(RetryDelays)
  BY DelaysLen DEF NextAttempt

(* A retry is never scheduled for the zero time. *)
LEMMA NextRetryType ==
  ASSUME NEW at \in Nat, NEW i \in 1..Len(RetryDelays)
  PROVE  NextRetry(at, i) \in Nat \ {0}
<1>1. RetryDelays[i] \in Nat /\ RetryDelays[i] >= 1
  BY DelayType
<1> QED  BY <1>1 DEF NextRetry

(* Nor is the retry of a close, with its jitter. *)
LEMMA CloseRetryType ==
  ASSUME NEW at \in Nat, NEW i \in 1..Len(RetryDelays), NEW k \in Keys
  PROVE  CloseRetry(at, i, k) \in Nat \ {0}
<1>1. RetryDelays[i] \in Nat
  BY DelayType
<1>2. (RetryDelays[i] \div 4) + 1 \in Nat \ {0}
  BY <1>1
<1>3. KeyHash[k] \in Nat
  BY KeyHashAssumption
<1>4. KeyHash[k] % ((RetryDelays[i] \div 4) + 1) \in Nat
  BY <1>2, <1>3
<1>5. NextRetry(at, i) \in Nat \ {0}
  BY NextRetryType
<1> QED  BY <1>4, <1>5 DEF CloseRetry

(* An activity result that announces a scheduled entry. *)
LEMMA AnnounceKeeps ==
  ASSUME NEW o, Legit(o), o.phase = "scheduled", NEW at \in Nat,
         NEW n, n = [o EXCEPT !.phase = "notify-pending", !.notBefore = at,
                              !.notifyRevision = @ + 1]
  PROVE  Keeps(o, n)
<1>0. /\ o \in OccurrenceType /\ o.joinRevision =< MaxRevision
      /\ o.resume # "notify-pending"
  BY DEF Legit
<1>a. o.notifyRevision \in Nat
  BY <1>0 DEF OccurrenceType
<1>b. PICK r \in Nat : r = o.notifyRevision + 1
  BY <1>a
<1>c. n = [o EXCEPT !.phase = "notify-pending", !.notBefore = at,
                    !.notifyRevision = r]
  BY <1>b
<1>1. n \in OccurrenceType
  BY <1>0, <1>c DEF OccurrenceType, Phases
<1>2. /\ n.phase = "notify-pending" /\ n.closeReason = o.closeReason
      /\ n.resume = o.resume /\ n.notifiedAt = o.notifiedAt
      /\ n.actionExpiresAt = o.actionExpiresAt
      /\ n.attempt = o.attempt /\ n.joinRequestedAt = o.joinRequestedAt
      /\ n.joinedAt = o.joinedAt /\ n.id = o.id
      /\ n.joinRevision = o.joinRevision
  BY <1>0, <1>c DEF OccurrenceType
<1>3. ValidOccurrence(o)
  BY PresentValid
<1>4. ValidOccurrence(n) /\ n.attempt = 0
  BY <1>2, <1>3 DEF ValidOccurrence, NoAction, NoRetry, NoJoin, NoClose, Phases
<1> QED  BY <1>0, <1>1, <1>2, <1>4, LegitNew DEF Keeps

(* A launch that succeeded. *)
LEMMA JoinedKeeps ==
  ASSUME NEW o, Legit(o), o.phase = "join-pending",
         NEW n, n = [o EXCEPT !.phase = "joined", !.joinedAt = TRUE, !.id = 0,
                     !.notifiedAt = FALSE, !.actionExpiresAt = 0,
                     !.joinRequestedAt = FALSE, !.resume = ""]
  PROVE  Keeps(o, n)
<1>0. o \in OccurrenceType /\ o.joinRevision =< MaxRevision
  BY DEF Legit
<1>1. n \in OccurrenceType
  BY <1>0 DEF OccurrenceType, Phases
<1>2. /\ n.phase = "joined" /\ n.closeReason = o.closeReason
      /\ n.resume = "" /\ n.notifiedAt = FALSE /\ n.actionExpiresAt = 0
      /\ n.attempt = o.attempt /\ n.notBefore = o.notBefore
      /\ n.joinRequestedAt = FALSE /\ n.joinedAt = TRUE /\ n.id = 0
      /\ n.joinRevision = o.joinRevision
  BY <1>0 DEF OccurrenceType
<1>3. ValidOccurrence(o)
  BY PresentValid
<1>4. ValidOccurrence(n) /\ n.attempt = 0
  BY <1>2, <1>3 DEF ValidOccurrence, NoAction, NoRetry, NoClose, Phases
<1> QED  BY <1>0, <1>1, <1>2, <1>4, LegitNew DEF Keeps

(* A launch that failed goes back to the phase of the click. *)
LEMMA LaunchFailedKeeps ==
  ASSUME NEW o, Legit(o), o.phase = "join-pending",
         NEW n, n = [o EXCEPT !.phase = o.resume, !.joinRequestedAt = FALSE,
                              !.resume = ""]
  PROVE  Keeps(o, n)
<1>0. o \in OccurrenceType /\ o.joinRevision =< MaxRevision
  BY DEF Legit
<1>3. ValidOccurrence(o)
  BY PresentValid
<1>a. o.resume \in {"notified", "actionable-history"}
  BY <1>3 DEF ValidOccurrence
<1>1. n \in OccurrenceType
  BY <1>0, <1>a DEF OccurrenceType, Phases
<1>2. /\ n.phase = o.resume /\ n.closeReason = o.closeReason
      /\ n.resume = "" /\ n.notifiedAt = o.notifiedAt
      /\ n.actionExpiresAt = o.actionExpiresAt
      /\ n.attempt = o.attempt /\ n.notBefore = o.notBefore
      /\ n.joinRequestedAt = FALSE /\ n.joinedAt = o.joinedAt
      /\ n.id = o.id /\ n.joinRevision = o.joinRevision
  BY <1>0 DEF OccurrenceType
<1>4. ValidOccurrence(n) /\ n.attempt = 0
  BY <1>2, <1>3, <1>a DEF ValidOccurrence, RequireAction, NoRetry, NoJoin,
     NoClose, Phases
<1> QED  BY <1>0, <1>1, <1>2, <1>4, LegitNew DEF Keeps

(* A close that is done. *)
LEMMA ClosedKeeps ==
  ASSUME NEW o, Legit(o), o.phase = "close-pending"
  PROVE  Keeps(o, Closed(o))
<1>1. CASE o.resume \in {"scheduled", "notify-pending"}
  <2>1. PICK n : n = [o EXCEPT !.phase = o.resume, !.id = 0,
                   !.notifiedAt = FALSE, !.actionExpiresAt = 0,
                   !.closeReason = "", !.resume = "", !.notBefore = 0,
                   !.attempt = 0]
    OBVIOUS
  <2>2. o \in OccurrenceType /\ o.joinRevision =< MaxRevision
    BY DEF Legit
  <2>3. n \in OccurrenceType
    BY <1>1, <2>1, <2>2 DEF OccurrenceType, Phases
  <2>4. /\ n.phase = o.resume /\ n.closeReason = ""
        /\ n.resume = "" /\ n.notifiedAt = FALSE /\ n.actionExpiresAt = 0
        /\ n.attempt = 0 /\ n.notBefore = 0
        /\ n.joinRequestedAt = o.joinRequestedAt /\ n.joinedAt = o.joinedAt
        /\ n.id = 0 /\ n.joinRevision = o.joinRevision
    BY <2>1, <2>2 DEF OccurrenceType
  <2>5. ValidOccurrence(o)
    BY PresentValid
  <2>6. ValidOccurrence(n)
    BY <1>1, <2>4, <2>5 DEF ValidOccurrence, NoAction, NoRetry, NoJoin,
       NoClose, Phases
  <2>7. Keeps(o, n)
    BY <2>2, <2>3, <2>4, <2>6, LegitNew DEF Keeps
  <2>8. Closed(o) = n
    BY <1>1, <2>1 DEF Closed
  <2> QED  BY <2>7, <2>8
<1>2. CASE o.resume \notin {"scheduled", "notify-pending"}
  BY <1>2, KeepsNone DEF Closed
<1> QED  BY <1>1, <1>2

(* An announcement that was shown as id, with Join valid until e. *)
Announced(o, id, e) ==
  [o EXCEPT !.phase = "notified", !.id = id, !.notifiedAt = TRUE,
            !.actionExpiresAt = e, !.notBefore = 0, !.attempt = 0]

(* applyDelivery: sound, and under the id the server returned. *)
LEMMA DeliveredLegit ==
  ASSUME NEW o, Legit(o), o.phase = "notify-pending",
         NEW id \in Nat, id # 0, NEW e \in Nat, e # 0,
         NEW n, n = Announced(o, id, e)
  PROVE  Legit(n) /\ n.id = id
<1>0. /\ o \in OccurrenceType /\ o.joinRevision =< MaxRevision
      /\ o.resume # "notify-pending"
  BY DEF Legit
<1>1. n \in OccurrenceType
  BY <1>0 DEF Announced, OccurrenceType, Phases
<1>2. /\ n.phase = "notified" /\ n.closeReason = o.closeReason
      /\ n.resume = o.resume /\ n.notifiedAt = TRUE
      /\ n.actionExpiresAt = e /\ n.attempt = 0 /\ n.notBefore = 0
      /\ n.joinRequestedAt = o.joinRequestedAt /\ n.joinedAt = o.joinedAt
      /\ n.id = id /\ n.joinRevision = o.joinRevision
  BY <1>0 DEF Announced, OccurrenceType
<1>3. ValidOccurrence(o)
  BY PresentValid
<1>5. ValidOccurrence(n)
  BY <1>2, <1>3 DEF ValidOccurrence, RequireAction, NoRetry, NoJoin,
     NoClose, Phases
<1> QED  BY <1>0, <1>1, <1>2, <1>5, LegitNew

(* A failed Notify or CloseNotification, to be retried. *)
LEMMA RetriedKeeps ==
  ASSUME NEW o, Legit(o), o.phase \in {"notify-pending", "close-pending"},
         NEW i \in 1..Len(RetryDelays), NEW t \in Nat \ {0},
         NEW n, n = [o EXCEPT !.attempt = i, !.notBefore = t]
  PROVE  Keeps(o, n)
<1>0. o \in OccurrenceType /\ o.joinRevision =< MaxRevision
  BY DEF Legit
<1>a. i \in Nat /\ i # 0 /\ i =< Len(RetryDelays)
  BY DelaysLen
<1>1. n \in OccurrenceType
  BY <1>0, <1>a DEF OccurrenceType
<1>2. /\ n.phase = o.phase /\ n.closeReason = o.closeReason
      /\ n.resume = o.resume /\ n.notifiedAt = o.notifiedAt
      /\ n.actionExpiresAt = o.actionExpiresAt
      /\ n.attempt = i /\ n.joinRequestedAt = o.joinRequestedAt
      /\ n.joinedAt = o.joinedAt /\ n.id = o.id /\ n.notBefore = t
      /\ n.joinRevision = o.joinRevision
  BY <1>0 DEF OccurrenceType
<1>3. ValidOccurrence(o)
  BY PresentValid
<1>4. ValidOccurrence(n)
  BY <1>2, <1>3, <1>a DEF ValidOccurrence, NoJoin, NoClose
<1>5. Legit(n)
  BY <1>0, <1>1, <1>2, <1>4, <1>a DEF Legit
<1> QED  BY <1>2, <1>5 DEF Keeps

(* A click on Join. *)
LEMMA ClickKeeps ==
  ASSUME NEW o, Legit(o), o.phase \in {"notified", "actionable-history"},
         o.joinRevision < MaxRevision,
         NEW n, n = [o EXCEPT !.phase = "join-pending",
                       !.joinRequestedAt = TRUE, !.joinRevision = @ + 1,
                       !.resume = o.phase]
  PROVE  Keeps(o, n)
<1>0. o \in OccurrenceType /\ o.joinRevision \in Nat
  <2>1. o \in OccurrenceType
    BY LegitType
  <2> QED  BY <2>1 DEF OccurrenceType
<1>a. PICK r \in Nat : r = o.joinRevision + 1
  BY <1>0
<1>b. n = [o EXCEPT !.phase = "join-pending", !.joinRequestedAt = TRUE,
                    !.joinRevision = r, !.resume = o.phase]
  BY <1>a
<1>1. n \in OccurrenceType
  BY <1>0, <1>b DEF OccurrenceType, Phases
<1>2. /\ n.phase = "join-pending" /\ n.closeReason = o.closeReason
      /\ n.resume = o.phase /\ n.notifiedAt = o.notifiedAt
      /\ n.actionExpiresAt = o.actionExpiresAt
      /\ n.attempt = o.attempt /\ n.joinRequestedAt = TRUE
      /\ n.joinedAt = o.joinedAt /\ n.id = o.id /\ n.notBefore = o.notBefore
      /\ n.joinRevision = r
  BY <1>0, <1>b DEF OccurrenceType
<1>3. ValidOccurrence(o)
  BY PresentValid
<1>4. r # 0 /\ r =< MaxRevision
  BY <1>0, <1>a, MaxRevisionAssumption
<1>5. ValidOccurrence(n) /\ n.attempt = 0
  BY <1>2, <1>3, <1>4 DEF ValidOccurrence, RequireAction, NoRetry, NoJoin,
     NoClose, Phases
<1> QED  BY <1>1, <1>2, <1>4, <1>5, LegitNew DEF Keeps

(* A notification that the user dismissed. *)
LEMMA DismissKeeps ==
  ASSUME NEW o, Legit(o), o.phase = "notified",
         NEW n, n = [o EXCEPT !.phase = "actionable-history"]
  PROVE  Keeps(o, n)
<1>0. /\ o \in OccurrenceType /\ o.joinRevision =< MaxRevision
      /\ o.resume # "notify-pending"
  BY DEF Legit
<1>1. n \in OccurrenceType
  BY <1>0 DEF OccurrenceType, Phases
<1>2. /\ n.phase = "actionable-history" /\ n.closeReason = o.closeReason
      /\ n.resume = o.resume /\ n.notifiedAt = o.notifiedAt
      /\ n.actionExpiresAt = o.actionExpiresAt
      /\ n.attempt = o.attempt /\ n.joinRequestedAt = o.joinRequestedAt
      /\ n.joinedAt = o.joinedAt /\ n.id = o.id /\ n.notBefore = o.notBefore
      /\ n.joinRevision = o.joinRevision
  BY <1>0 DEF OccurrenceType
<1>3. ValidOccurrence(o)
  BY PresentValid
<1>4. ValidOccurrence(n) /\ n.attempt = 0
  BY <1>2, <1>3 DEF ValidOccurrence, RequireAction, NoRetry, NoJoin,
     NoClose, Phases
<1> QED  BY <1>0, <1>1, <1>2, <1>4, LegitNew DEF Keeps

-----------------------------------------------------------------------------
(* From entries to states *)

(* The inductive invariant of the durable state.  Validate alone is not     *)
(* inductive: it says nothing of the width of a counter, and it looks at an *)
(* entry only while there is one, so that a handler that leaves an id in a  *)
(* deleted entry would hide a duplicate.                                    *)
Sound(s) ==
  /\ s \in StateType
  /\ \A k \in Keys : Legit(s.occurrences[k])
  /\ DistinctIDs(s)
  /\ \A a \in Accounts : Warned(s, a) => ValidWarning(s, a)
  /\ \A a \in Accounts : s.pendingAuthWarnings[a].attempt =< Len(RetryDelays)

(* A sound state is one that State.Validate accepts. *)
LEMMA SoundValid ==
  ASSUME NEW s, Sound(s)
  PROVE  Validate(s)
<1>1. ASSUME NEW k \in Keys, Present(s, k)
      PROVE  ValidOccurrence(s.occurrences[k])
  BY <1>1, PresentValid DEF Sound, Present
<1> QED  BY <1>1 DEF Sound, Validate

(* Whatever a handler does to the entries, as long as it keeps each of them *)
(* sound and hands out no notification id, the state stays sound.           *)
LEMMA EntriesSound ==
  ASSUME NEW s, Sound(s), NEW t, NEW f,
         t = [s EXCEPT !.occurrences = f], f = [k \in Keys |-> f[k]],
         \A k \in Keys : Keeps(s.occurrences[k], f[k])
  PROVE  Sound(t)
<1>0. s \in StateType
  BY DEF Sound
<1>1. \A k \in Keys : f[k] \in OccurrenceType
  BY DEF Keeps, Legit
<1>2. f \in [Keys -> OccurrenceType]
  BY <1>1
<1>3. t \in StateType
  BY <1>0, <1>2 DEF StateType
<1>4. /\ t.occurrences = f
      /\ t.pendingAuthWarnings = s.pendingAuthWarnings
      /\ t.authWarningRevisions = s.authWarningRevisions
  BY <1>0 DEF StateType
<1>5. \A k \in Keys : Legit(t.occurrences[k])
  BY <1>4 DEF Keeps
<1>6. DistinctIDs(t)
  <2> SUFFICES ASSUME NEW j \in Keys, NEW k \in Keys,
                      f[j].id # 0, f[j].id = f[k].id
               PROVE  j = k
    BY <1>4 DEF DistinctIDs
  <2>1. f[j].id = s.occurrences[j].id /\ f[k].id = s.occurrences[k].id
    BY DEF Keeps
  <2> QED  BY <2>1 DEF Sound, DistinctIDs
<1>7. \A a \in Accounts : Warned(t, a) => ValidWarning(t, a)
  BY <1>4 DEF Sound, Warned, ValidWarning
<1> QED  BY <1>3, <1>4, <1>5, <1>6, <1>7 DEF Sound

(* The same for a handler that updates one entry. *)
LEMMA UpdateSound ==
  ASSUME NEW s, Sound(s), NEW k \in Keys, NEW guard, NEW new,
         guard => Keeps(s.occurrences[k], new)
  PROVE  Sound(Update(s, k, guard, new))
<1>1. CASE guard
  <2>0. s \in StateType
    BY DEF Sound
  <2>1. PICK f : f = [s.occurrences EXCEPT ![k] = new]
    OBVIOUS
  <2>2. s.occurrences = [j \in Keys |-> s.occurrences[j]]
    BY <2>0 DEF StateType
  <2>3. f = [j \in Keys |-> f[j]]
    BY <2>1, <2>2
  <2>4. \A j \in Keys : f[j] = IF j = k THEN new ELSE s.occurrences[j]
    BY <2>1, <2>2
  <2>5. \A j \in Keys : Keeps(s.occurrences[j], f[j])
    BY <1>1, <2>4, KeepsSelf DEF Sound
  <2>6. Update(s, k, guard, new) = [s EXCEPT !.occurrences = f]
    BY <1>1, <2>1 DEF Update
  <2> QED  BY <2>3, <2>5, <2>6, EntriesSound
<1>2. CASE ~guard
  BY <1>2 DEF Update
<1> QED  BY <1>1, <1>2

(* The tail of reduceWithIndex keeps soundness. *)
LEMMA SettleSound ==
  ASSUME NEW s, Sound(s), NEW at \in Nat
  PROVE  Sound(Settle(s, at))
<1>1. PICK f : f = [k \in Keys |-> ExpireNotifyPending(s.occurrences[k], at)]
  OBVIOUS
<1>2. \A k \in Keys : Keeps(s.occurrences[k], f[k])
  BY <1>1, ExpireKeeps DEF Sound
<1>3. Settle(s, at) = [s EXCEPT !.occurrences = f]
  BY <1>1 DEF Settle
<1> QED  BY <1>1, <1>2, <1>3, EntriesSound

(* Tick keeps soundness. *)
LEMMA TickSound ==
  ASSUME NEW s, Sound(s), NEW at \in Nat
  PROVE  Sound(TickEvent(s, at))
<1>1. PICK f : f = [k \in Keys |-> Prune(s.occurrences[k], at)]
  OBVIOUS
<1>2. \A k \in Keys : Keeps(s.occurrences[k], f[k])
  BY <1>1, PruneKeeps DEF Sound
<1>3. TickEvent(s, at) = [s EXCEPT !.occurrences = f]
  BY <1>1 DEF TickEvent
<1> QED  BY <1>1, <1>2, <1>3, EntriesSound

(* An activity result keeps soundness. *)
LEMMA ActivitySound ==
  ASSUME NEW s, Sound(s), NEW announce \in BOOLEAN, NEW at \in Nat
  PROVE  Sound(ActivityResultEvent(s, announce, at))
<1> DEFINE New(o) == [o EXCEPT !.phase = "notify-pending", !.notBefore = at,
                               !.notifyRevision = @ + 1]
           Goes(o) == announce /\ o.phase = "scheduled" /\ Due(o.meeting, at)
<1>1. PICK f : f = [k \in Keys |-> IF Goes(s.occurrences[k])
                                    THEN New(s.occurrences[k])
                                    ELSE s.occurrences[k]]
  OBVIOUS
<1>2. ASSUME NEW k \in Keys PROVE Keeps(s.occurrences[k], f[k])
  <2>1. Legit(s.occurrences[k])
    BY DEF Sound
  <2>2. CASE Goes(s.occurrences[k])
    <3>1. f[k] = New(s.occurrences[k])
      BY <1>1, <2>2
    <3> QED  BY <2>1, <2>2, <3>1, AnnounceKeeps
  <2>3. CASE ~Goes(s.occurrences[k])
    <3>1. f[k] = s.occurrences[k]
      BY <1>1, <2>3
    <3> QED  BY <2>1, <3>1, KeepsSelf
  <2> QED  BY <2>2, <2>3
<1>3. ActivityResultEvent(s, announce, at) = [s EXCEPT !.occurrences = f]
  BY <1>1 DEF ActivityResultEvent
<1>4. f = [k \in Keys |-> f[k]]
  BY <1>1
<1> HIDE DEF New, Goes
<1> QED  BY <1>2, <1>3, <1>4, EntriesSound

(* A launch result keeps soundness, stale ones included. *)
LEMMA LaunchSound ==
  ASSUME NEW s, Sound(s), NEW k \in Keys, NEW revision, NEW ok \in BOOLEAN
  PROVE  Sound(LaunchResultEvent(s, k, revision, ok))
<1>1. PICK o : o = s.occurrences[k]
  OBVIOUS
<1>2. Legit(o)
  BY <1>1 DEF Sound
<1>3. PICK n : n = IF ok
        THEN [o EXCEPT !.phase = "joined", !.joinedAt = TRUE, !.id = 0,
                       !.notifiedAt = FALSE, !.actionExpiresAt = 0,
                       !.joinRequestedAt = FALSE, !.resume = ""]
        ELSE [o EXCEPT !.phase = o.resume, !.joinRequestedAt = FALSE,
                       !.resume = ""]
  OBVIOUS
<1>4. o.phase = "join-pending" => Keeps(o, n)
  <2>1. CASE ok
    BY <1>2, <1>3, <2>1, JoinedKeeps
  <2>2. CASE ~ok
    BY <1>2, <1>3, <2>2, LaunchFailedKeeps
  <2> QED  BY <2>1, <2>2
<1>5. LaunchResultEvent(s, k, revision, ok)
        = Update(s, k, o.phase = "join-pending" /\ o.joinRevision = revision, n)
  BY <1>1, <1>3 DEF LaunchResultEvent
<1>6. Sound(Update(s, k, o.phase = "join-pending" /\ o.joinRevision = revision, n))
  BY <1>1, <1>4, UpdateSound
<1> QED  BY <1>5, <1>6

(* A completed close keeps soundness. *)
LEMMA CompleteCloseSound ==
  ASSUME NEW s, Sound(s), NEW k \in Keys, NEW id
  PROVE  Sound(CompleteClose(s, k, id))
<1>1. PICK o : o = s.occurrences[k]
  OBVIOUS
<1>2. Legit(o)
  BY <1>1 DEF Sound
<1>3. o.phase = "close-pending" => Keeps(o, Closed(o))
  BY <1>2, ClosedKeeps
<1>4. Sound(Update(s, k, o.phase = "close-pending" /\ id \in {0, o.id}, Closed(o)))
  BY <1>1, <1>3, UpdateSound
<1> QED  BY <1>1, <1>4 DEF CompleteClose

(* Delivery is the one event that brings a new id in: it must be one that   *)
(* no other entry holds.                                                    *)
LEMMA DeliverySound ==
  ASSUME NEW s, Sound(s), NEW k \in Keys, NEW revision,
         NEW id \in Nat, id # 0, NEW at \in Nat,
         \A j \in Keys \ {k} : s.occurrences[j].id # id
  PROVE  Sound(ApplyDelivery(s, k, revision, id, at))
<1>1. PICK o : o = s.occurrences[k]
  OBVIOUS
<1>2. Legit(o) /\ s \in StateType
  BY <1>1 DEF Sound
<1> DEFINE guard == o.phase = "notify-pending" /\ o.notifyRevision = revision
<1>3. PICK e \in Nat : e = at + ActionLifetime /\ e # 0
  BY ActionLifetimeAssumption
<1>4. PICK n : n = Announced(o, id, e)
  OBVIOUS
<1>5. ApplyDelivery(s, k, revision, id, at) = Update(s, k, guard, n)
  BY <1>1, <1>3, <1>4 DEF ApplyDelivery, Announced
<1>6. CASE guard
  <2>0. e \in Nat /\ e # 0 /\ o.phase = "notify-pending"
    BY <1>3, <1>6
  <2>1. Legit(n) /\ n.id = id
    BY <1>2, <1>4, <2>0, DeliveredLegit
  <2>2. PICK f : f = [s.occurrences EXCEPT ![k] = n]
    OBVIOUS
  <2>3. s.occurrences \in [Keys -> OccurrenceType]
    BY <1>2 DEF StateType
  <2>4. \A j \in Keys : f[j] = IF j = k THEN n ELSE s.occurrences[j]
    BY <2>2, <2>3
  <2>5. n \in OccurrenceType
    BY <2>1, LegitType
  <2>6. f \in [Keys -> OccurrenceType]
    BY <2>2, <2>3, <2>5
  <2>7. PICK t : t = [s EXCEPT !.occurrences = f]
    OBVIOUS
  <2>8. Update(s, k, guard, n) = t
    BY <1>6, <2>2, <2>7 DEF Update
  <2>9. t \in StateType
    BY <1>2, <2>6, <2>7 DEF StateType
  <2>10. /\ t.occurrences = f
         /\ t.pendingAuthWarnings = s.pendingAuthWarnings
         /\ t.authWarningRevisions = s.authWarningRevisions
    BY <1>2, <2>7 DEF StateType
  <2>11. \A j \in Keys : Legit(t.occurrences[j])
    BY <2>1, <2>4, <2>10 DEF Sound
  <2>12. DistinctIDs(t)
    <3> SUFFICES ASSUME NEW i \in Keys, NEW j \in Keys,
                        f[i].id # 0, f[i].id = f[j].id
                 PROVE  i = j
      BY <2>10 DEF DistinctIDs
    <3>1. CASE i = k \/ j = k
      BY <2>1, <2>4, <3>1
    <3>2. CASE i # k /\ j # k
      BY <2>4, <3>2 DEF Sound, DistinctIDs
    <3> QED  BY <3>1, <3>2
  <2>13. \A a \in Accounts : Warned(t, a) => ValidWarning(t, a)
    BY <2>10 DEF Sound, Warned, ValidWarning
  <2>14. Sound(t)
    BY <2>9, <2>10, <2>11, <2>12, <2>13 DEF Sound
  <2> QED  BY <1>5, <2>8, <2>14
<1>7. CASE ~guard
  BY <1>5, <1>7 DEF Update
<1> QED  BY <1>6, <1>7

(* A failed command keeps soundness. *)
LEMMA FailureSound ==
  ASSUME NEW s, Sound(s), NEW k \in Keys, NEW revision, NEW id, NEW at \in Nat
  PROVE  Sound(ApplyNotificationFailure(s, k, revision, id, at))
<1>1. PICK o : o = s.occurrences[k]
  OBVIOUS
<1>2. Legit(o)
  BY <1>1 DEF Sound
<1>3. PICK i \in 1..Len(RetryDelays) : i = NextAttempt(o.attempt)
  <2>0. o \in OccurrenceType
    BY <1>2, LegitType
  <2>1. o.attempt \in Nat
    BY <2>0 DEF OccurrenceType
  <2> QED  BY <2>1, NextAttemptType
<1>4. PICK c \in Nat \ {0} : c = CloseRetry(at, i, k)
  BY CloseRetryType
<1>5. PICK r \in Nat \ {0} : r = NextRetry(at, i)
  BY NextRetryType
<1>6. CASE o.phase = "close-pending"
  <2>1. PICK n : n = [o EXCEPT !.attempt = i, !.notBefore = c]
    OBVIOUS
  <2>2. Keeps(o, n)
    BY <1>2, <1>6, <2>1, RetriedKeeps
  <2>3. ApplyNotificationFailure(s, k, revision, id, at)
          = Update(s, k, id # 0 /\ id = o.id, n)
    BY <1>1, <1>3, <1>4, <1>6, <2>1 DEF ApplyNotificationFailure
  <2>4. Sound(Update(s, k, id # 0 /\ id = o.id, n))
    BY <1>1, <2>2, UpdateSound
  <2> QED  BY <2>3, <2>4
<1>7. CASE o.phase # "close-pending"
  <2> DEFINE guard == o.phase = "notify-pending" /\ o.notifyRevision = revision
  <2>1. PICK n : n = [o EXCEPT !.attempt = i, !.notBefore = r]
    OBVIOUS
  <2>2. guard => Keeps(o, n)
    BY <1>2, <2>1, RetriedKeeps
  <2>3. ApplyNotificationFailure(s, k, revision, id, at) = Update(s, k, guard, n)
    BY <1>1, <1>3, <1>5, <1>7, <2>1 DEF ApplyNotificationFailure
  <2>4. Sound(Update(s, k, guard, n))
    BY <1>1, <2>2, UpdateSound
  <2> QED  BY <2>3, <2>4
<1> QED  BY <1>6, <1>7

(* A click on Join keeps soundness. *)
LEMMA JoinSignalSound ==
  ASSUME NEW s, Sound(s), NEW id, NEW at \in Nat, NEW H
  PROVE  Sound(JoinSignal(s, id, at, H))
<1> DEFINE New(o) == [o EXCEPT !.phase = "join-pending",
                       !.joinRequestedAt = TRUE, !.joinRevision = @ + 1,
                       !.resume = o.phase]
           Goes(k) == HoldsID(s, k, id) /\ JoinAllowed(s.occurrences[k], at, H)
<1>1. PICK f : f = [k \in Keys |-> IF Goes(k) THEN New(s.occurrences[k])
                                             ELSE s.occurrences[k]]
  OBVIOUS
<1>2. ASSUME NEW k \in Keys PROVE Keeps(s.occurrences[k], f[k])
  <2>1. Legit(s.occurrences[k])
    BY DEF Sound
  <2>2. CASE Goes(k)
    <3>1. f[k] = New(s.occurrences[k])
      BY <1>1, <2>2
    <3>2. /\ s.occurrences[k].phase \in {"notified", "actionable-history"}
          /\ s.occurrences[k].joinRevision < MaxRevision
      BY <2>2 DEF JoinAllowed
    <3> QED  BY <2>1, <3>1, <3>2, ClickKeeps
  <2>3. CASE ~Goes(k)
    <3>1. f[k] = s.occurrences[k]
      BY <1>1, <2>3
    <3> QED  BY <2>1, <3>1, KeepsSelf
  <2> QED  BY <2>2, <2>3
<1>3. JoinSignal(s, id, at, H) = [s EXCEPT !.occurrences = f]
  BY <1>1 DEF JoinSignal
<1>4. f = [k \in Keys |-> f[k]]
  BY <1>1
<1> HIDE DEF New, Goes
<1> QED  BY <1>2, <1>3, <1>4, EntriesSound

(* A NotificationClosed signal keeps soundness. *)
LEMMA ClosedSignalSound ==
  ASSUME NEW s, Sound(s), NEW id
  PROVE  Sound(ClosedSignal(s, id))
<1> DEFINE New(k) == LET o == s.occurrences[k] IN
             CASE HoldsID(s, k, id) /\ o.phase = "close-pending" -> Closed(o)
               [] HoldsID(s, k, id) /\ o.phase = "notified" ->
                    [o EXCEPT !.phase = "actionable-history"]
               [] OTHER -> o
<1>1. PICK f : f = [k \in Keys |-> New(k)]
  OBVIOUS
<1>2. ASSUME NEW k \in Keys PROVE Keeps(s.occurrences[k], f[k])
  <2>0. PICK o : o = s.occurrences[k]
    OBVIOUS
  <2>1. Legit(o) /\ f[k] = New(k)
    BY <1>1, <2>0 DEF Sound
  <2>2. CASE HoldsID(s, k, id) /\ o.phase = "close-pending"
    <3>1. New(k) = Closed(o)
      BY <2>0, <2>2
    <3> QED  BY <2>0, <2>1, <2>2, <3>1, ClosedKeeps
  <2>3. CASE HoldsID(s, k, id) /\ o.phase = "notified"
    <3>1. New(k) = [o EXCEPT !.phase = "actionable-history"]
      BY <2>0, <2>3
    <3> QED  BY <2>0, <2>1, <2>3, <3>1, DismissKeeps
  <2>4. CASE ~(HoldsID(s, k, id) /\ o.phase \in {"close-pending", "notified"})
    <3>1. New(k) = o
      BY <2>0, <2>4
    <3> QED  BY <2>0, <2>1, <3>1, KeepsSelf
  <2> QED  BY <2>2, <2>3, <2>4
<1>3. ClosedSignal(s, id) = [s EXCEPT !.occurrences = f]
  BY <1>1 DEF ClosedSignal
<1>4. f = [k \in Keys |-> f[k]]
  BY <1>1
<1> HIDE DEF New
<1> QED  BY <1>2, <1>3, <1>4, EntriesSound

-----------------------------------------------------------------------------
(* The events of an account *)

(* A state with the entries of s and other account maps is sound when its   *)
(* pending warnings are.                                                    *)
LEMMA AccountsSound ==
  ASSUME NEW s, Sound(s), NEW t, t \in StateType,
         t.occurrences = s.occurrences,
         \A a \in Accounts :
           /\ Warned(t, a) => ValidWarning(t, a)
           /\ t.pendingAuthWarnings[a].attempt =< Len(RetryDelays)
  PROVE  Sound(t)
  BY DEF Sound, DistinctIDs

(* What a poll does to one entry, without the cases of reconcile: it is     *)
(* left alone, taken off, renewed, or renewed and taken off.                *)
Reconciled(o, n, at) ==
  \/ n = o
  \/ \E reason \in CloseReasons : n = ReconcileRemoved(o, reason)
  \/ \E m \in Meetings :
       LET listed == ReconcileCurrent(o, m, at) IN
       n = listed \/ \E reason \in CloseReasons : n = ReconcileRemoved(listed, reason)

LEMMA ReconcileItemCases ==
  ASSUME NEW s, NEW a, NEW k, NEW item, GoodItem(item), NEW at
  PROVE  Reconciled(s.occurrences[k], ReconcileItem(s, a, k, item, at), at)
<1>1. PICK o : o = s.occurrences[k]
  OBVIOUS
<1>2. PICK n : n = ReconcileItem(s, a, k, item, at)
  OBVIOUS
<1>3. CASE item.seen = "current"
  <2>1. n = ReconcileCurrent(o, item.meeting, at)
    BY <1>1, <1>2, <1>3, Zenon DEF ReconcileItem
  <2>2. item.meeting \in Meetings
    BY <1>3 DEF GoodItem
  <2> QED  BY <1>1, <1>2, <2>1, <2>2 DEF Reconciled
<1>4. CASE item.seen = "observed"
  <2>1. n = ReconcileRemoved(o, item.reason)
    BY <1>1, <1>2, <1>4 DEF ReconcileItem
  <2>2. item.reason \in CloseReasons
    BY <1>4 DEF GoodItem
  <2> QED  BY <1>1, <1>2, <2>1, <2>2 DEF Reconciled
<1>5. CASE item.seen = "both"
  <2>1. PICK c : c = ReconcileCurrent(o, item.meeting, at)
    OBVIOUS
  <2>2. n = c \/ n = ReconcileRemoved(c, item.reason)
    BY <1>1, <1>2, <1>5, <2>1 DEF ReconcileItem
  <2>3. item.meeting \in Meetings /\ item.reason \in CloseReasons
    BY <1>5 DEF GoodItem
  <2> QED  BY <1>1, <1>2, <2>1, <2>2, <2>3 DEF Reconciled
<1>6. CASE item.seen \notin {"current", "observed", "both"}
  <2>1. n = o \/ n = ReconcileRemoved(o, "deleted")
    BY <1>1, <1>2, <1>6 DEF ReconcileItem
  <2> QED  BY <1>1, <1>2, <2>1 DEF Reconciled, CloseReasons
<1> QED  BY <1>3, <1>4, <1>5, <1>6

LEMMA ReconciledKeeps ==
  ASSUME NEW o, Legit(o), NEW n, NEW at \in Nat, Reconciled(o, n, at)
  PROVE  Keeps(o, n)
<1>1. CASE n = o
  BY <1>1, KeepsSelf
<1>2. ASSUME NEW reason \in CloseReasons, n = ReconcileRemoved(o, reason)
      PROVE  Keeps(o, n)
  BY <1>2, ReconcileRemovedKeeps
<1>3. ASSUME NEW m \in Meetings, NEW c, c = ReconcileCurrent(o, m, at)
      PROVE  /\ Keeps(o, c)
             /\ \A reason \in CloseReasons : Keeps(o, ReconcileRemoved(c, reason))
  <2>1. Keeps(o, c)
    BY <1>3, ReconcileCurrentKeeps
  <2>2. Legit(c) /\ c.id \in {0, o.id}
    BY <2>1 DEF Keeps
  <2>3. ASSUME NEW reason \in CloseReasons
        PROVE  Keeps(o, ReconcileRemoved(c, reason))
    <3>1. Keeps(c, ReconcileRemoved(c, reason))
      BY <2>2, ReconcileRemovedKeeps
    <3> QED  BY <2>2, <3>1 DEF Keeps
  <2> QED  BY <2>1, <2>3
<1> QED  BY <1>1, <1>2, <1>3 DEF Reconciled

LEMMA ReconcileItemKeeps ==
  ASSUME NEW s, Sound(s), NEW a, NEW k \in Keys, NEW item, GoodItem(item),
         NEW at \in Nat
  PROVE  Keeps(s.occurrences[k], ReconcileItem(s, a, k, item, at))
<1>1. Legit(s.occurrences[k])
  BY DEF Sound
<1> QED  BY <1>1, ReconcileItemCases, ReconciledKeeps

(* A successful poll keeps soundness. *)
LEMMA ReconcileSound ==
  ASSUME NEW s, Sound(s), NEW a \in Accounts, NEW poll,
         \A k \in KeysOf(a) : GoodItem(poll[k]), NEW at \in Nat
  PROVE  Sound(Reconcile(s, a, poll, at))
<1>1. PICK f : f = [k \in Keys |->
         IF k \in KeysOf(a) THEN ReconcileItem(s, a, k, poll[k], at)
                            ELSE s.occurrences[k]]
  OBVIOUS
<1>2. ASSUME NEW k \in Keys PROVE Keeps(s.occurrences[k], f[k])
  <2>1. CASE k \in KeysOf(a)
    BY <1>1, <2>1, ReconcileItemKeeps
  <2>2. CASE k \notin KeysOf(a)
    BY <1>1, <2>2, KeepsSelf DEF Sound
  <2> QED  BY <2>1, <2>2
<1>3. PICK u : u = [s EXCEPT !.occurrences = f]
  OBVIOUS
<1>4. Sound(u)
  <2>1. f = [k \in Keys |-> f[k]]
    BY <1>1
  <2> QED  BY <1>2, <1>3, <2>1, EntriesSound
<1>5. PICK seen : seen = {k \in KeysOf(a) : poll[k].seen \in {"current", "both"}}
  OBVIOUS
<1>6. PICK h : h = [lastError |-> "", needsAuth |-> FALSE, generation |-> 0]
  OBVIOUS
<1>7. PICK t : t = [u EXCEPT !.snapshots = [s.snapshots EXCEPT ![a] = seen],
                             !.health = [s.health EXCEPT ![a] = h]]
  OBVIOUS
<1>8. s \in StateType /\ u \in StateType
  BY <1>4 DEF Sound
<1>9. Reconcile(s, a, poll, at) = t
  BY <1>1, <1>3, <1>5, <1>6, <1>7, <1>8 DEF Reconcile, StateType
<1>10. seen \in SUBSET Keys
  BY <1>5 DEF KeysOf
<1>11. h \in HealthType
  BY <1>6 DEF HealthType
<1>12. /\ [s.snapshots EXCEPT ![a] = seen] \in [Accounts -> SUBSET Keys]
       /\ [s.health EXCEPT ![a] = h] \in [Accounts -> HealthType]
  BY <1>8, <1>10, <1>11 DEF StateType
<1>13. t \in StateType
  BY <1>7, <1>8, <1>12 DEF StateType
<1>14. /\ t.occurrences = u.occurrences
       /\ t.pendingAuthWarnings = u.pendingAuthWarnings
       /\ t.authWarningRevisions = u.authWarningRevisions
  BY <1>7, <1>8 DEF StateType
<1>15. Sound(t)
  <2>1. \A b \in Accounts :
          /\ Warned(t, b) => ValidWarning(t, b)
          /\ t.pendingAuthWarnings[b].attempt =< Len(RetryDelays)
    BY <1>4, <1>14 DEF Sound, Warned, ValidWarning
  <2> QED  BY <1>4, <1>13, <1>14, <2>1, AccountsSound
<1> QED  BY <1>9, <1>15

(* s with new values for account a: its health, the time of its last        *)
(* warning, its warning revision and its pending warning.                   *)
WithAccount(s, a, h, last, r, w) ==
  [s EXCEPT !.health = [s.health EXCEPT ![a] = h],
            !.authWarnings = [s.authWarnings EXCEPT ![a] = last],
            !.authWarningRevisions = [s.authWarningRevisions EXCEPT ![a] = r],
            !.pendingAuthWarnings = [s.pendingAuthWarnings EXCEPT ![a] = w]]

(* New values for one account keep soundness, if they are valid.            *)
LEMMA WithAccountSound ==
  ASSUME NEW s, Sound(s), NEW a \in Accounts, NEW h \in HealthType,
         NEW last \in Nat, NEW r \in Nat, NEW w \in WarningType,
         w.attempt =< Len(RetryDelays),
         w.revision # 0 =>
           w.createdAt # 0 /\ w.notBefore # 0 /\ r = w.revision
  PROVE  Sound(WithAccount(s, a, h, last, r, w))
<1>1. PICK t : t = WithAccount(s, a, h, last, r, w)
  OBVIOUS
<1>2. s \in StateType
  BY DEF Sound
<1>3. /\ [s.health EXCEPT ![a] = h] \in [Accounts -> HealthType]
      /\ [s.authWarnings EXCEPT ![a] = last] \in [Accounts -> Nat]
      /\ [s.authWarningRevisions EXCEPT ![a] = r] \in [Accounts -> Nat]
      /\ [s.pendingAuthWarnings EXCEPT ![a] = w] \in [Accounts -> WarningType]
  BY <1>2 DEF StateType
<1>4. t \in StateType
  BY <1>1, <1>2, <1>3 DEF StateType, WithAccount
<1>5. /\ t.occurrences = s.occurrences
      /\ t.authWarningRevisions = [s.authWarningRevisions EXCEPT ![a] = r]
      /\ t.pendingAuthWarnings = [s.pendingAuthWarnings EXCEPT ![a] = w]
  BY <1>1, <1>2 DEF StateType, WithAccount
<1>6. \A b \in Accounts :
        /\ t.pendingAuthWarnings[b] =
             IF b = a THEN w ELSE s.pendingAuthWarnings[b]
        /\ t.authWarningRevisions[b] =
             IF b = a THEN r ELSE s.authWarningRevisions[b]
  BY <1>2, <1>5 DEF StateType
<1>7. \A b \in Accounts :
        /\ Warned(t, b) => ValidWarning(t, b)
        /\ t.pendingAuthWarnings[b].attempt =< Len(RetryDelays)
  BY <1>6 DEF Sound, Warned, ValidWarning
<1>8. Sound(t)
  BY <1>4, <1>5, <1>7, AccountsSound
<1> QED  BY <1>1, <1>8

(* What Sound says of one account. *)
LEMMA AccountType ==
  ASSUME NEW s, Sound(s), NEW a \in Accounts
  PROVE  /\ s.health[a] \in HealthType
         /\ s.authWarnings[a] \in Nat
         /\ s.authWarningRevisions[a] \in Nat
         /\ s.pendingAuthWarnings[a] \in WarningType
         /\ s.pendingAuthWarnings[a].attempt =< Len(RetryDelays)
         /\ Warned(s, a) => ValidWarning(s, a)
<1>1. s \in StateType
  BY DEF Sound
<1>2. /\ s.pendingAuthWarnings[a].attempt =< Len(RetryDelays)
      /\ Warned(s, a) => ValidWarning(s, a)
  BY DEF Sound
<1> QED  BY <1>1, <1>2 DEF StateType

(* A state is the record of its fields, and so is one with new values for  *)
(* an account.                                                              *)
LEMMA StateFields ==
  ASSUME NEW s \in StateType
  PROVE  /\ s = [occurrences |-> s.occurrences, snapshots |-> s.snapshots,
                 health |-> s.health, authWarnings |-> s.authWarnings,
                 authWarningRevisions |-> s.authWarningRevisions,
                 pendingAuthWarnings |-> s.pendingAuthWarnings]
         /\ s.authWarnings \in [Accounts -> Nat]
  BY DEF StateType

LEMMA WithAccountFields ==
  ASSUME NEW s \in StateType, NEW a, NEW h, NEW last, NEW r, NEW w
  PROVE  WithAccount(s, a, h, last, r, w) =
           [occurrences |-> s.occurrences, snapshots |-> s.snapshots,
            health |-> [s.health EXCEPT ![a] = h],
            authWarnings |-> [s.authWarnings EXCEPT ![a] = last],
            authWarningRevisions |-> [s.authWarningRevisions EXCEPT ![a] = r],
            pendingAuthWarnings |-> [s.pendingAuthWarnings EXCEPT ![a] = w]]
<1>1. PICK t \in [occurrences: {s.occurrences}, snapshots: {s.snapshots},
            health: {[s.health EXCEPT ![a] = h]},
            authWarnings: {[s.authWarnings EXCEPT ![a] = last]},
            authWarningRevisions: {[s.authWarningRevisions EXCEPT ![a] = r]},
            pendingAuthWarnings: {[s.pendingAuthWarnings EXCEPT ![a] = w]}] :
        t = WithAccount(s, a, h, last, r, w)
  BY DEF WithAccount, StateType
<1> QED  BY <1>1

(* A failed poll keeps soundness, with or without a warning. *)
LEMMA PollFailureSound ==
  ASSUME NEW s, Sound(s), NEW a \in Accounts, NEW kind \in PollErrorKinds,
         NEW gen \in Generations, NEW at \in Nat, at # 0
  PROVE  Sound(ApplyPollFailure(s, a, kind, gen, at))
<1>1. PICK h \in HealthType :
        h = [lastError |-> kind, needsAuth |-> kind = "authentication",
             generation |-> IF kind = "authentication" THEN gen ELSE 0]
  <2>1. CASE kind = "authentication"
    <3>1. [lastError |-> kind, needsAuth |-> TRUE, generation |-> gen]
            \in HealthType
      BY DEF HealthType
    <3> QED  BY <2>1, <3>1
  <2>2. CASE kind # "authentication"
    <3>1. [lastError |-> kind, needsAuth |-> FALSE, generation |-> 0]
            \in HealthType
      BY DEF HealthType
    <3> QED  BY <2>2, <3>1
  <2> QED  BY <2>1, <2>2
<1>2. PICK r \in Nat : r = s.authWarningRevisions[a] + 1
  <2>1. s.authWarningRevisions[a] \in Nat
    BY AccountType
  <2> QED  BY <2>1
<1>3. PICK w : w = [revision |-> r, createdAt |-> at, notBefore |-> at,
                    attempt |-> 0]
  OBVIOUS
<1>4. /\ w \in WarningType /\ w.attempt = 0 /\ w.revision = r
      /\ w.createdAt = at /\ w.notBefore = at
  BY <1>2, <1>3 DEF WarningType
<1>5. s \in StateType
  BY DEF Sound
<1>6. CASE kind = "authentication" /\ WarningDue(s, a, at)
  <2>1. ApplyPollFailure(s, a, kind, gen, at)
          = WithAccount(s, a, h, s.authWarnings[a], r, w)
    <3>1. [s.authWarnings EXCEPT ![a] = s.authWarnings[a]] = s.authWarnings
      BY <1>5, StateFields
    <3>2. ApplyPollFailure(s, a, kind, gen, at)
            = [s EXCEPT !.health[a] = h, !.authWarningRevisions[a] = r,
                        !.pendingAuthWarnings[a] = w]
      BY <1>1, <1>2, <1>3, <1>6 DEF ApplyPollFailure
    <3>3. PICK u : u = [s EXCEPT
             !.health = [s.health EXCEPT ![a] = h],
             !.authWarningRevisions = [s.authWarningRevisions EXCEPT ![a] = r],
             !.pendingAuthWarnings = [s.pendingAuthWarnings EXCEPT ![a] = w]]
      OBVIOUS
    <3>4. u = [s EXCEPT !.health[a] = h, !.authWarningRevisions[a] = r,
                        !.pendingAuthWarnings[a] = w]
      BY <3>3
    <3>5. u \in
            [occurrences: {s.occurrences}, snapshots: {s.snapshots},
             health: {[s.health EXCEPT ![a] = h]},
             authWarnings: {s.authWarnings},
             authWarningRevisions: {[s.authWarningRevisions EXCEPT ![a] = r]},
             pendingAuthWarnings: {[s.pendingAuthWarnings EXCEPT ![a] = w]}]
      BY <1>5, <3>3 DEF StateType
    <3>6. PICK last : last = s.authWarnings[a]
      OBVIOUS
    <3>7. u = WithAccount(s, a, h, last, r, w)
      BY <1>5, <3>1, <3>5, <3>6, WithAccountFields
    <3> QED  BY <3>2, <3>4, <3>6, <3>7
  <2>2. s.authWarnings[a] \in Nat /\ w.attempt =< Len(RetryDelays)
    BY <1>4, AccountType, DelaysLen
  <2> QED  BY <1>1, <1>2, <1>4, <2>1, <2>2, WithAccountSound
<1>7. CASE ~(kind = "authentication" /\ WarningDue(s, a, at))
  <2>1. ApplyPollFailure(s, a, kind, gen, at)
          = WithAccount(s, a, h, s.authWarnings[a],
              s.authWarningRevisions[a], s.pendingAuthWarnings[a])
    BY <1>1, <1>5, <1>7 DEF ApplyPollFailure, WithAccount, StateType
  <2> QED  BY <1>1, <2>1, AccountType, WithAccountSound DEF Warned, ValidWarning
<1> QED  BY <1>6, <1>7

(* The delivery of a warning keeps soundness. *)
LEMMA WarningDeliverySound ==
  ASSUME NEW s, Sound(s), NEW a \in Accounts, NEW revision, NEW at \in Nat
  PROVE  Sound(ApplyWarningDelivery(s, a, revision, at))
<1>1. s \in StateType
  BY DEF Sound
<1>2. NoWarning \in WarningType /\ NoWarning.attempt =< Len(RetryDelays)
      /\ NoWarning.revision = 0
  <2>1. NoWarning \in WarningType /\ NoWarning.attempt = 0
        /\ NoWarning.revision = 0
    BY DEF NoWarning, WarningType
  <2> QED  BY <2>1, DelaysLen
<1>3. CASE Warned(s, a) /\ s.pendingAuthWarnings[a].revision = revision
  <2>1. ApplyWarningDelivery(s, a, revision, at)
          = WithAccount(s, a, s.health[a], at, s.authWarningRevisions[a],
                        NoWarning)
    BY <1>1, <1>3 DEF ApplyWarningDelivery, WithAccount, StateType
  <2> QED  BY <1>2, <2>1, AccountType, WithAccountSound
<1>4. CASE ~(Warned(s, a) /\ s.pendingAuthWarnings[a].revision = revision)
  BY <1>4 DEF ApplyWarningDelivery
<1> QED  BY <1>3, <1>4

(* A failed warning keeps soundness. *)
LEMMA WarningFailureSound ==
  ASSUME NEW s, Sound(s), NEW a \in Accounts, NEW revision, NEW at \in Nat
  PROVE  Sound(ApplyWarningFailure(s, a, revision, at))
<1>1. s \in StateType
  BY DEF Sound
<1>2. PICK w : w = s.pendingAuthWarnings[a]
  OBVIOUS
<1>3. w \in WarningType
  BY <1>2, AccountType
<1>4. PICK i \in 1..Len(RetryDelays) : i = NextAttempt(w.attempt)
  <2>1. w.attempt \in Nat
    BY <1>3 DEF WarningType
  <2> QED  BY <2>1, NextAttemptType
<1>5. PICK d \in Nat \ {0} : d = NextRetry(at, i)
  BY NextRetryType
<1>6. i \in Nat /\ i =< Len(RetryDelays) /\ d \in Nat /\ d # 0
  BY <1>4, <1>5, DelaysLen
<1>7. PICK v : v = [w EXCEPT !.attempt = i, !.notBefore = d]
  OBVIOUS
<1>8. /\ v \in WarningType /\ v.attempt = i /\ v.notBefore = d
      /\ v.revision = w.revision /\ v.createdAt = w.createdAt
  BY <1>3, <1>6, <1>7 DEF WarningType
<1>9. CASE Warned(s, a) /\ w.revision = revision
  <2>1. ApplyWarningFailure(s, a, revision, at)
          = WithAccount(s, a, s.health[a], s.authWarnings[a],
                        s.authWarningRevisions[a], v)
    BY <1>1, <1>2, <1>4, <1>5, <1>7, <1>9
       DEF ApplyWarningFailure, WithAccount, StateType
  <2>2. v.createdAt # 0 /\ s.authWarningRevisions[a] = v.revision
    BY <1>2, <1>8, <1>9, AccountType DEF ValidWarning
  <2>3. v.attempt =< Len(RetryDelays) /\ v.notBefore # 0
    BY <1>6, <1>8
  <2> QED  BY <1>8, <2>1, <2>2, <2>3, AccountType, WithAccountSound
<1>10. CASE ~(Warned(s, a) /\ w.revision = revision)
  BY <1>2, <1>10 DEF ApplyWarningFailure
<1> QED  BY <1>9, <1>10

-----------------------------------------------------------------------------
(* Widths, restart and the commit *)

(* No revision counter has passed the end of a uint64. *)
Fits(s) ==
  /\ \A k \in Keys : s.occurrences[k].notifyRevision =< MaxRevision
  /\ \A a \in Accounts : s.authWarningRevisions[a] =< MaxRevision

(* What NextRevision let pass fits its counter. *)
LEMMA ExhaustedOrFits ==
  ASSUME NEW s, Sound(s), ~RevisionExhausted(s)
  PROVE  Fits(s)
<1>1. ASSUME NEW k \in Keys
      PROVE  s.occurrences[k].notifyRevision =< MaxRevision
  <2>1. s.occurrences[k] \in OccurrenceType
    BY LegitType DEF Sound
  <2>2. s.occurrences[k].notifyRevision \in Nat
    BY <2>1 DEF OccurrenceType
  <2> QED  BY <2>2, MaxRevisionAssumption DEF RevisionExhausted
<1>2. ASSUME NEW a \in Accounts
      PROVE  s.authWarningRevisions[a] =< MaxRevision
  <2>1. s.authWarningRevisions[a] \in Nat
    BY AccountType
  <2> QED  BY <2>1, MaxRevisionAssumption DEF RevisionExhausted
<1> QED  BY <1>1, <1>2 DEF Fits

(* Sound and Fits give the widths of the type invariant. *)
LEMMA SoundWidths ==
  ASSUME NEW s, Sound(s), Fits(s)
  PROVE  WidthsOK(s)
<1>1. \A k \in Keys : /\ s.occurrences[k].attempt =< Len(RetryDelays)
                      /\ s.occurrences[k].joinRevision =< MaxRevision
  BY DEF Sound, Legit
<1>2. \A a \in Accounts :
        s.pendingAuthWarnings[a].attempt =< Len(RetryDelays)
  BY DEF Sound
<1> QED  BY <1>1, <1>2 DEF Fits, WidthsOK

(* The tail of the reducer advances no counter. *)
LEMMA SettleFits ==
  ASSUME NEW s, Sound(s), Fits(s), NEW at \in Nat
  PROVE  Fits(Settle(s, at))
<1>1. s \in StateType
  BY DEF Sound
<1>2. PICK t : t = Settle(s, at)
  OBVIOUS
<1>3. /\ t.authWarningRevisions = s.authWarningRevisions
      /\ t.occurrences =
           [k \in Keys |-> ExpireNotifyPending(s.occurrences[k], at)]
  BY <1>1, <1>2 DEF Settle, StateType
<1>4. ASSUME NEW k \in Keys
      PROVE  t.occurrences[k].notifyRevision =< MaxRevision
  <2>1. PICK o : o = s.occurrences[k]
    OBVIOUS
  <2>2. o \in OccurrenceType
    BY <2>1, LegitType DEF Sound
  <2>3. /\ o.notifyRevision =< MaxRevision
        /\ t.occurrences[k] = ExpireNotifyPending(o, at)
    BY <1>3, <2>1 DEF Fits
  <2>4. BeginClose(o, "expired", "").notifyRevision = o.notifyRevision
    BY <2>2 DEF BeginClose, OccurrenceType
  <2>5. NoEntry.notifyRevision = 0
    BY DEF NoEntry
  <2> QED  BY <2>3, <2>4, <2>5, RevisionBound DEF ExpireNotifyPending
<1> QED  BY <1>2, <1>3, <1>4 DEF Fits

(* o with other revisions. *)
Revised(o, i, j) == [o EXCEPT !.notifyRevision = i, !.joinRevision = j]

(* NormalizeLegacy only raises a revision from 0 to 1. *)
LEMMA NormalizeKeeps ==
  ASSUME NEW o, Legit(o), o.notifyRevision =< MaxRevision,
         NEW i \in Nat, i \in {1, o.notifyRevision},
         NEW j \in Nat, j \in {1, o.joinRevision},
         NEW n, n = Revised(o, i, j),
         o.phase # "absent"
  PROVE  Keeps(o, n) /\ n.notifyRevision =< MaxRevision
<1>0. o \in OccurrenceType /\ o.joinRevision =< MaxRevision
      /\ o.attempt =< Len(RetryDelays)
  BY DEF Legit
<1>1. n \in OccurrenceType
  BY <1>0 DEF OccurrenceType, Revised
<1>2. /\ n.phase = o.phase /\ n.closeReason = o.closeReason
      /\ n.resume = o.resume /\ n.notifiedAt = o.notifiedAt
      /\ n.actionExpiresAt = o.actionExpiresAt
      /\ n.attempt = o.attempt /\ n.joinRequestedAt = o.joinRequestedAt
      /\ n.joinedAt = o.joinedAt /\ n.id = o.id /\ n.notBefore = o.notBefore
      /\ n.notifyRevision = i /\ n.joinRevision = j
  BY <1>0 DEF OccurrenceType, Revised
<1>3. ValidOccurrence(o)
  BY PresentValid
<1>4. ValidOccurrence(n)
  <2>1. o.joinRevision # 0 => j # 0
    OBVIOUS
  <2> QED  BY <1>2, <1>3, <2>1 DEF ValidOccurrence, NoAction, RequireAction,
              NoRetry, NoJoin, NoClose
<1>5. i =< MaxRevision /\ j =< MaxRevision
  BY <1>0, RevisionBound
<1> QED  BY <1>0, <1>1, <1>2, <1>4, <1>5 DEF Keeps, Legit

(* State.NormalizeLegacy keeps soundness and widths. *)
LEMMA NormalizeSound ==
  ASSUME NEW s, Sound(s), Fits(s)
  PROVE  Sound(NormalizeLegacy(s)) /\ Fits(NormalizeLegacy(s))
<1> DEFINE NR(o) == IF o.notifyRevision = 0
                       /\ o.phase \notin {"absent", "scheduled", "joined"}
                      THEN 1 ELSE o.notifyRevision
           JR(o) == IF o.joinRevision = 0
                       /\ o.phase \in {"join-pending", "joined"}
                      THEN 1 ELSE o.joinRevision
           New(o) == [o EXCEPT !.notifyRevision = NR(o), !.joinRevision = JR(o)]
<1>1. PICK f : f = [k \in Keys |-> New(s.occurrences[k])]
  OBVIOUS
<1>2. ASSUME NEW k \in Keys
      PROVE  /\ Keeps(s.occurrences[k], f[k])
             /\ f[k].notifyRevision =< MaxRevision
  <2>1. PICK o : o = s.occurrences[k]
    OBVIOUS
  <2>2. Legit(o) /\ o.notifyRevision =< MaxRevision /\ f[k] = New(o)
    BY <1>1, <2>1 DEF Sound, Fits
  <2>3. o \in OccurrenceType
    BY <2>2, LegitType
  <2>4. o.notifyRevision \in Nat /\ o.joinRevision \in Nat
    BY <2>3 DEF OccurrenceType
  <2>5. CASE o.phase = "absent"
    <3>1. NR(o) = o.notifyRevision /\ JR(o) = o.joinRevision
      BY <2>5
    <3> HIDE DEF NR, JR
    <3>2. New(o) = o
      BY <2>3, <3>1 DEF OccurrenceType
    <3> QED  BY <2>1, <2>2, <3>2, KeepsSelf
  <2>6. CASE o.phase # "absent"
    <3>1. /\ NR(o) \in Nat /\ NR(o) \in {1, o.notifyRevision}
          /\ JR(o) \in Nat /\ JR(o) \in {1, o.joinRevision}
      BY <2>4
    <3>2. PICK i, j : i = NR(o) /\ j = JR(o)
      OBVIOUS
    <3>3. f[k] = Revised(o, i, j)
      BY <2>2, <3>2 DEF Revised
    <3> HIDE DEF NR, JR, New
    <3>4. Keeps(o, f[k]) /\ f[k].notifyRevision =< MaxRevision
      BY <2>2, <2>6, <3>1, <3>2, <3>3, NormalizeKeeps
    <3> QED  BY <2>1, <3>4
  <2> QED  BY <2>5, <2>6
<1>3. f = [k \in Keys |-> f[k]]
  BY <1>1
<1>4. NormalizeLegacy(s) = [s EXCEPT !.occurrences = f]
  BY <1>1 DEF NormalizeLegacy
<1> HIDE DEF New, NR, JR
<1>5. s \in StateType
  BY DEF Sound
<1>6. Sound(NormalizeLegacy(s))
  BY <1>2, <1>3, <1>4, EntriesSound
<1>7. /\ NormalizeLegacy(s).occurrences = f
      /\ NormalizeLegacy(s).authWarningRevisions = s.authWarningRevisions
  BY <1>4, <1>5 DEF StateType
<1>8. Fits(NormalizeLegacy(s))
  BY <1>2, <1>7 DEF Fits
<1> QED  BY <1>6, <1>8

(* The empty state (storage.NewState) is sound. *)
LEMMA NewStateSound == Sound(NewState) /\ Fits(NewState)
<1>1. NoEntry \in OccurrenceType
  BY NoEntryLegit, LegitType
<1>2. NoWarning \in WarningType /\ NoWarning.attempt = 0
      /\ NoWarning.revision = 0
  BY DEF NoWarning, WarningType
<1>3. [lastError |-> "", needsAuth |-> FALSE, generation |-> 0] \in HealthType
  BY DEF HealthType
<1>4. NewState \in StateType
  BY <1>1, <1>2, <1>3 DEF NewState, StateType
<1>5. /\ \A k \in Keys : NewState.occurrences[k] = NoEntry
      /\ \A a \in Accounts : /\ NewState.pendingAuthWarnings[a] = NoWarning
                             /\ NewState.authWarningRevisions[a] = 0
  BY DEF NewState
<1>6. NoEntry.id = 0 /\ NoEntry.notifyRevision = 0
  BY DEF NoEntry
<1>7. DistinctIDs(NewState)
  BY <1>5, <1>6 DEF DistinctIDs
<1>8. \A a \in Accounts :
        /\ ~Warned(NewState, a)
        /\ NewState.pendingAuthWarnings[a].attempt =< Len(RetryDelays)
  BY <1>2, <1>5, DelaysLen DEF Warned
<1>9. Sound(NewState)
  BY <1>4, <1>5, <1>7, <1>8, NoEntryLegit DEF Sound
<1>10. Fits(NewState)
  BY <1>5, <1>6, RevisionBound DEF Fits
<1> QED  BY <1>9, <1>10

-----------------------------------------------------------------------------
(* How far one event may move an entry                                     *)
(*                                                                         *)
(* Evolves(o, n, at, ids) relates an entry before and after an event       *)
(* stamped at: it moves along the lifecycle of OccurrencePhases, keeps the *)
(* tombstone of a joined meeting while the meeting lasts, and numbers its  *)
(* announcements and joins with new revisions.  ids holds the ids that a   *)
(* delivery may give it; no other event gives an entry an id.  There is    *)
(* one lemma for each way the handlers rewrite an entry, one that adds the *)
(* tail of the reducer, and one for each event.                            *)

(* The phases in which the user can see a notification that can be clicked. *)
Actionable == {"notified", "actionable-history"}
Shown == Actionable \cup {"join-pending"}

(* The moves that keep the notification of the entry. *)
MovesOn(o, n) ==
  \/ n.phase = o.phase
  \/ o.phase = "absent" /\ n.phase = "scheduled"
  \/ o.phase = "scheduled" /\ n.phase = "notify-pending"
  \/ o.phase = "notified" /\ n.phase = "actionable-history"
  \/ o.phase \in Actionable /\ n.phase = "join-pending"
  \/ o.phase = "join-pending" /\ n.phase \in Actionable
  \/ o.phase \in Shown /\ n.phase = "notify-pending"
  \/ /\ o.phase \in Shown \cup {"notify-pending"} /\ o.id # 0
     /\ n.phase = "close-pending"
  \/ o.phase = "notify-pending" /\ o.id = 0 /\ n.phase = "scheduled"

(* The moves that end without one. *)
MovesOff(o, n) ==
  \/ o.phase = "join-pending" /\ n.phase = "joined"
  \/ o.phase = "close-pending" /\ n.phase \in {"absent", "scheduled"}
  \/ o.phase \in {"scheduled", "joined"} /\ o.id = 0 /\ n.phase = "absent"
  \/ o.phase \in {"notify-pending", "actionable-history"} /\ n.phase = "absent"

Moves(o, n, ids) ==
  \/ n.id = o.id /\ MovesOn(o, n)
  \/ n.id = 0 /\ MovesOff(o, n)
  \/ n.id \in ids \ {0} /\ o.phase = "notify-pending" /\ n.phase = "notified"

(* An entry that lives on never takes a revision back, and takes a new one  *)
(* to announce and to join; while a click waits, its revision stays.        *)
Advances(o, n) ==
  o.phase # "absent" /\ n.phase # "absent" =>
    /\ n.notifyRevision >= o.notifyRevision
    /\ n.joinRevision >= o.joinRevision
    /\ (n.phase = "notify-pending" /\ o.phase # "notify-pending")
         => n.notifyRevision > o.notifyRevision
    /\ (n.phase = "join-pending" /\ o.phase # "join-pending")
         => n.joinRevision > o.joinRevision
    /\ (n.phase = "join-pending" /\ o.phase = "join-pending")
         => n.joinRevision = o.joinRevision

Evolves(o, n, at, ids) ==
  /\ Moves(o, n, ids)
  /\ o.phase = "joined" /\ n.phase # "joined" => MeetingExpired(o, at)
  /\ Advances(o, n)

-----------------------------------------------------------------------------
(* Entries *)

(* The revisions of an entry are numbers. *)
LEMMA RevisionType ==
  ASSUME NEW o, Legit(o)
  PROVE  o.notifyRevision \in Nat /\ o.joinRevision \in Nat
<1>1. o \in OccurrenceType
  BY LegitType
<1> QED  BY <1>1 DEF OccurrenceType

(* The phases that own no notification. *)
LEMMA HiddenHasNone ==
  ASSUME NEW o, Legit(o), o.phase \in {"absent", "scheduled", "joined"}
  PROVE  o.id = 0
<1>1. CASE o.phase = "absent"
  <2>1. ~ValidOccurrence(o)
    BY <1>1 DEF ValidOccurrence, Phases
  <2>2. o = NoEntry
    BY <2>1 DEF Legit
  <2> QED  BY <2>2 DEF NoEntry
<1>2. CASE o.phase # "absent"
  BY <1>2, PresentValid DEF ValidOccurrence, NoAction
<1> QED  BY <1>1, <1>2

(* An entry that keeps its phase, its notification and at least its         *)
(* revisions.                                                               *)
LEMMA StayEvolves ==
  ASSUME NEW o, Legit(o), NEW n, NEW at, NEW ids,
         n.phase = o.phase, n.id = o.id,
         n.notifyRevision \in Nat, n.notifyRevision >= o.notifyRevision,
         n.joinRevision \in Nat, n.joinRevision >= o.joinRevision,
         o.phase = "join-pending" => n.joinRevision = o.joinRevision
  PROVE  Evolves(o, n, at, ids)
<1>1. Moves(o, n, ids)
  BY DEF Moves, MovesOn
<1>2. Advances(o, n)
  BY DEF Advances
<1> QED  BY <1>1, <1>2 DEF Evolves

(* An entry that the event does not touch. *)
LEMMA SameEvolves ==
  ASSUME NEW o, Legit(o), NEW at, NEW ids
  PROVE  Evolves(o, o, at, ids)
  BY StayEvolves, RevisionType

(* An entry that is deleted. *)
LEMMA GoneEvolves ==
  ASSUME NEW o, Legit(o), NEW at, NEW ids,
         o.phase \in {"scheduled", "notify-pending", "actionable-history",
                      "joined", "close-pending"},
         o.phase = "joined" => MeetingExpired(o, at)
  PROVE  Evolves(o, NoEntry, at, ids)
<1>1. NoEntry.phase = "absent" /\ NoEntry.id = 0
  BY DEF NoEntry
<1>2. Moves(o, NoEntry, ids)
  BY <1>1, HiddenHasNone DEF Moves, MovesOff
<1> QED  BY <1>1, <1>2 DEF Evolves, Advances

(* What beginClose leaves alone. *)
LEMMA BeginCloseFields ==
  ASSUME NEW o, Legit(o), NEW reason, NEW resume
  PROVE  LET n == BeginClose(o, reason, resume) IN
         /\ n.phase = "close-pending" /\ n.id = o.id
         /\ n.notifyRevision = o.notifyRevision
         /\ n.joinRevision = o.joinRevision
<1>1. o \in OccurrenceType
  BY LegitType
<1> QED  BY <1>1 DEF BeginClose, OccurrenceType

(* An entry whose notification is withdrawn. *)
LEMMA WithdrawnEvolves ==
  ASSUME NEW o, Legit(o), NEW n, NEW at, NEW ids,
         o.phase \in Shown \cup {"notify-pending"}, o.id # 0,
         n.phase = "close-pending", n.id = o.id,
         n.notifyRevision \in Nat, n.notifyRevision >= o.notifyRevision,
         n.joinRevision = o.joinRevision
  PROVE  Evolves(o, n, at, ids)
<1>1. Moves(o, n, ids)
  BY DEF Moves, MovesOn
<1>2. Advances(o, n)
  BY RevisionType DEF Advances
<1> QED  BY <1>1, <1>2 DEF Evolves, Shown, Actionable

(* prune. *)
LEMMA PruneEvolves ==
  ASSUME NEW o, Legit(o), NEW at, NEW ids
  PROVE  Evolves(o, Prune(o, at), at, ids)
<1>1. CASE o.phase \in {"scheduled", "notify-pending", "joined"}
  <2>1. CASE MeetingExpired(o, at)
    <3>1. Evolves(o, NoEntry, at, ids)
      BY <1>1, <2>1, GoneEvolves
    <3> QED  BY <1>1, <2>1, <3>1 DEF Prune
  <2>2. CASE ~MeetingExpired(o, at)
    BY <1>1, <2>2, SameEvolves DEF Prune
  <2> QED  BY <2>1, <2>2
<1>2. CASE o.phase \in {"notified", "join-pending"}
  <2>1. PICK n : n = BeginClose(o, "expired", "")
    OBVIOUS
  <2>2. /\ n.phase = "close-pending" /\ n.id = o.id
        /\ n.notifyRevision = o.notifyRevision
        /\ n.joinRevision = o.joinRevision
    BY <2>1, BeginCloseFields
  <2>3. /\ n.notifyRevision \in Nat /\ n.notifyRevision >= o.notifyRevision
        /\ o.phase \in Shown \cup {"notify-pending"} /\ o.id # 0
    BY <1>2, <2>2, RevisionType, ShownHasID DEF Shown, Actionable
  <2>4. Evolves(o, n, at, ids)
    BY <2>2, <2>3, WithdrawnEvolves
  <2>5. Evolves(o, BeginClose(o, "expired", ""), at, ids)
    BY <2>1, <2>4
  <2> QED  BY <1>2, <2>5, SameEvolves DEF Prune
<1>3. CASE o.phase = "actionable-history"
  BY <1>3, SameEvolves, GoneEvolves DEF Prune
<1>4. CASE o.phase \in {"absent", "close-pending"}
  BY <1>4, SameEvolves DEF Prune
<1> QED
  <2>1. o.phase \in Phases \cup {"absent"}
    BY PhaseType
  <2> QED  BY <1>1, <1>2, <1>3, <1>4, <2>1 DEF Phases

(* A new meeting under a new revision. *)
LEMMA RenewedFields ==
  ASSUME NEW o, Legit(o), NEW m, NEW n, n = Renewed(o, m)
  PROVE  /\ n.phase = o.phase /\ n.id = o.id /\ n.meeting = m
         /\ n.notifyRevision \in Nat
         /\ n.notifyRevision > o.notifyRevision
         /\ n.joinRevision = o.joinRevision
<1>1. o \in OccurrenceType /\ o.notifyRevision \in Nat
  BY LegitType, RevisionType
<1>2. /\ n.phase = o.phase /\ n.id = o.id /\ n.meeting = m
      /\ n.notifyRevision = o.notifyRevision + 1
      /\ n.joinRevision = o.joinRevision
  BY <1>1 DEF OccurrenceType, Renewed
<1> QED  BY <1>1, <1>2

(* The notify-pending case of reconcileCurrent. *)
LEMMA RenewPendingEvolves ==
  ASSUME NEW o, Legit(o), o.phase = "notify-pending", NEW m \in Meetings,
         NEW at, NEW ids
  PROVE  Evolves(o, RenewPending(o, m, at), at, ids)
<1>1. PICK r : r = Renewed(o, m)
  OBVIOUS
<1>2. /\ r.phase = "notify-pending" /\ r.id = o.id
      /\ r.notifyRevision \in Nat /\ r.notifyRevision > o.notifyRevision
      /\ r.joinRevision = o.joinRevision
  BY <1>1, RenewedFields
<1>3. Legit(r) /\ r \in OccurrenceType
  BY <1>1, RenewedKeeps, LegitType
<1>4. /\ o.notifyRevision \in Nat /\ o.joinRevision \in Nat
      /\ r.notifyRevision >= o.notifyRevision
  BY <1>2, RevisionType
<1>5. CASE Due(m, at)
  <2>1. PICK n : n = [r EXCEPT !.notBefore = at, !.attempt = 0]
    OBVIOUS
  <2>2. /\ n.phase = "notify-pending" /\ n.id = o.id
        /\ n.notifyRevision = r.notifyRevision
        /\ n.joinRevision = o.joinRevision
    BY <1>2, <1>3, <2>1 DEF OccurrenceType
  <2>3. Evolves(o, n, at, ids)
    BY <1>2, <1>4, <2>2, StayEvolves
  <2>4. RenewPending(o, m, at) = n
    BY <1>1, <1>5, <2>1 DEF RenewPending
  <2> QED  BY <2>3, <2>4
<1>6. CASE ~Due(m, at) /\ o.id # 0
  <2>1. PICK n : n = BeginClose(r, "rescheduled", "scheduled")
    OBVIOUS
  <2>2. /\ n.phase = "close-pending" /\ n.id = o.id
        /\ n.notifyRevision = r.notifyRevision
        /\ n.joinRevision = o.joinRevision
    BY <1>2, <1>3, <2>1, BeginCloseFields
  <2>3. Evolves(o, n, at, ids)
    BY <1>2, <1>4, <1>6, <2>2, WithdrawnEvolves
  <2>4. RenewPending(o, m, at) = n
    BY <1>1, <1>2, <1>6, <2>1 DEF RenewPending
  <2> QED  BY <2>3, <2>4
<1>7. CASE ~Due(m, at) /\ o.id = 0
  <2>1. PICK n : n = [r EXCEPT !.phase = "scheduled", !.notBefore = 0,
                               !.attempt = 0]
    OBVIOUS
  <2>2. /\ n.phase = "scheduled" /\ n.id = o.id
        /\ n.notifyRevision = r.notifyRevision
        /\ n.joinRevision = o.joinRevision
    BY <1>2, <1>3, <2>1 DEF OccurrenceType
  <2>3. Moves(o, n, ids)
    BY <1>7, <2>2 DEF Moves, MovesOn
  <2>4. Advances(o, n)
    BY <1>2, <1>4, <2>2 DEF Advances
  <2>5. Evolves(o, n, at, ids)
    BY <2>3, <2>4 DEF Evolves
  <2>6. RenewPending(o, m, at) = n
    BY <1>1, <1>2, <1>7, <2>1 DEF RenewPending
  <2> QED  BY <2>5, <2>6
<1> QED  BY <1>5, <1>6, <1>7

(* reconcileCurrent. *)
LEMMA ReconcileCurrentEvolves ==
  ASSUME NEW o, Legit(o), NEW m \in Meetings, NEW at, NEW ids
  PROVE  Evolves(o, ReconcileCurrent(o, m, at), at, ids)
<1> DEFINE changed == ReplacementRelevantChanged(o.meeting, m)
<1>0. o \in OccurrenceType
  BY LegitType
<1>1. CASE o.phase = "absent"
  <2>1. PICK n : n = [NoEntry EXCEPT !.meeting = m, !.phase = "scheduled"]
    OBVIOUS
  <2>2. n.phase = "scheduled" /\ n.id = 0
    BY <2>1 DEF NoEntry
  <2>3. Moves(o, n, ids)
    BY <1>1, <2>2, HiddenHasNone DEF Moves, MovesOn
  <2>4. Advances(o, n)
    BY <1>1, <2>2 DEF Advances
  <2>5. Evolves(o, n, at, ids)
    BY <1>1, <2>3, <2>4 DEF Evolves
  <2>6. ReconcileCurrent(o, m, at) = n
    BY <1>1, <2>1 DEF ReconcileCurrent
  <2> QED  BY <2>5, <2>6
<1>2. CASE /\ o.phase # "absent"
           /\ o.phase \in {"joined", "scheduled", "close-pending"} \/ ~changed
  <2>1. PICK n : n = [o EXCEPT !.meeting = m]
    OBVIOUS
  <2>2. /\ n.phase = o.phase /\ n.id = o.id
        /\ n.notifyRevision = o.notifyRevision
        /\ n.joinRevision = o.joinRevision
    BY <1>0, <2>1 DEF OccurrenceType
  <2>3. Evolves(o, n, at, ids)
    BY <2>2, StayEvolves, RevisionType
  <2>4. ReconcileCurrent(o, m, at) = n
    BY <1>2, <2>1 DEF ReconcileCurrent
  <2> QED  BY <2>3, <2>4
<1>3. CASE o.phase = "notify-pending" /\ changed
  <2>1. ReconcileCurrent(o, m, at) = RenewPending(o, m, at)
    BY <1>3 DEF ReconcileCurrent
  <2> QED  BY <1>3, <2>1, RenewPendingEvolves
<1>4. CASE o.phase \in Shown /\ changed /\ Due(m, at)
  <2>1. PICK r : r = Renewed(o, m)
    OBVIOUS
  <2>2. /\ r.id = o.id /\ r.meeting = m
        /\ r.notifyRevision \in Nat /\ r.notifyRevision > o.notifyRevision
        /\ r.joinRevision = o.joinRevision
    BY <2>1, RenewedFields
  <2>3. r \in OccurrenceType
    BY <1>4, <2>1, RenewedKeeps, LegitType DEF Shown, Actionable
  <2>4. PICK n : n = PrepareReplacement(o, m, at)
    OBVIOUS
  <2>5. /\ n.phase = "notify-pending" /\ n.id = o.id /\ n.meeting = m
        /\ n.notifyRevision = r.notifyRevision
        /\ n.joinRevision = o.joinRevision
    BY <2>1, <2>2, <2>3, <2>4 DEF OccurrenceType, PrepareReplacement
  <2>6. Moves(o, n, ids)
    BY <1>4, <2>5 DEF Moves, MovesOn
  <2>7. Advances(o, n)
    BY <2>2, <2>5, RevisionType DEF Advances
  <2>9. Evolves(o, n, at, ids)
    BY <1>4, <2>6, <2>7 DEF Evolves, Shown, Actionable
  <2>10. ReconcileCurrent(o, m, at) = n
    BY <1>4, <2>4 DEF ReconcileCurrent, Shown, Actionable
  <2> QED  BY <2>9, <2>10
<1>5. CASE o.phase \in Shown /\ changed /\ ~Due(m, at)
  <2>1. PICK c : c = BeginClose(o, "rescheduled", "scheduled")
    OBVIOUS
  <2>2. /\ c.phase = "close-pending" /\ c.id = o.id
        /\ c.notifyRevision = o.notifyRevision
        /\ c.joinRevision = o.joinRevision
    BY <2>1, BeginCloseFields
  <2>3. o.id # 0
    BY <1>5, ShownHasID DEF Shown, Actionable
  <2>4. c \in OccurrenceType
    BY <2>1, <2>3, BeginCloseKeeps, LegitType DEF Keeps, CloseReasons
  <2>5. PICK n : n = [c EXCEPT !.meeting = m]
    OBVIOUS
  <2>6. /\ n.phase = "close-pending" /\ n.id = o.id
        /\ n.notifyRevision = o.notifyRevision
        /\ n.joinRevision = o.joinRevision
    BY <2>2, <2>4, <2>5 DEF OccurrenceType
  <2>7. Evolves(o, n, at, ids)
    BY <1>5, <2>3, <2>6, RevisionType, WithdrawnEvolves
  <2>8. ReconcileCurrent(o, m, at) = n
    BY <1>5, <2>1, <2>5 DEF ReconcileCurrent, Shown, Actionable
  <2> QED  BY <2>7, <2>8
<1> QED
  <2>1. o.phase \in Phases \cup {"absent"}
    BY PhaseType
  <2> QED  BY <1>1, <1>2, <1>3, <1>4, <1>5, <2>1 DEF Phases, Shown, Actionable

(* A notification that is taken off is closed under its id. *)
LEMMA RemovedFields ==
  ASSUME NEW o, Legit(o), NEW reason,
         o.phase \in Shown \/ (o.phase = "notify-pending" /\ o.id # 0)
  PROVE  LET n == ReconcileRemoved(o, reason) IN
         /\ n.phase = "close-pending" /\ n.id = o.id
         /\ n.notifyRevision \in Nat /\ n.notifyRevision >= o.notifyRevision
         /\ n.joinRevision = o.joinRevision
<1>1. PICK n : n = ReconcileRemoved(o, reason)
  OBVIOUS
<1>2. o \in OccurrenceType /\ o.notifyRevision \in Nat
  BY LegitType, RevisionType
<1>3. CASE o.phase \in Shown
  <2>1. n = BeginClose(o, reason, "")
    BY <1>1, <1>3 DEF ReconcileRemoved, Shown, Actionable
  <2>2. /\ n.phase = "close-pending" /\ n.id = o.id
        /\ n.notifyRevision = o.notifyRevision
        /\ n.joinRevision = o.joinRevision
    BY <2>1, BeginCloseFields
  <2> QED  BY <1>1, <1>2, <2>2
<1>4. CASE o.phase = "notify-pending" /\ o.id # 0
  <2>1. PICK r : /\ r = [o EXCEPT !.notifyRevision = @ + 1] /\ Legit(r)
    BY <1>4, BumpKeeps
  <2>2. /\ r.id = o.id /\ r.notifyRevision = o.notifyRevision + 1
        /\ r.joinRevision = o.joinRevision
    BY <1>2, <2>1 DEF OccurrenceType
  <2>3. n = BeginClose(r, reason, "") /\ Legit(r)
    BY <1>1, <1>4, <2>1 DEF ReconcileRemoved
  <2>4. /\ n.phase = "close-pending" /\ n.id = r.id
        /\ n.notifyRevision = r.notifyRevision
        /\ n.joinRevision = r.joinRevision
    BY ONLY <2>3, BeginCloseFields
  <2> QED  BY <1>1, <1>2, <2>2, <2>4
<1> QED  BY <1>3, <1>4

(* reconcileRemoved. *)
LEMMA ReconcileRemovedEvolves ==
  ASSUME NEW o, Legit(o), NEW reason \in CloseReasons, NEW at, NEW ids
  PROVE  Evolves(o, ReconcileRemoved(o, reason), at, ids)
<1>1. CASE \/ o.phase = "scheduled"
           \/ o.phase = "notify-pending" /\ o.id = 0
  <2>1. ReconcileRemoved(o, reason) = NoEntry
    BY <1>1 DEF ReconcileRemoved
  <2> QED  BY <1>1, <2>1, GoneEvolves
<1>2. CASE o.phase \in Shown \/ (o.phase = "notify-pending" /\ o.id # 0)
  <2>1. o.id # 0
    BY <1>2, ShownHasID DEF Shown, Actionable
  <2> QED  BY <1>2, <2>1, RemovedFields, WithdrawnEvolves
<1>3. CASE o.phase \in {"absent", "joined", "close-pending"}
  BY <1>3, SameEvolves DEF ReconcileRemoved
<1> QED
  <2>1. o.phase \in Phases \cup {"absent"}
    BY PhaseType
  <2> QED  BY <1>1, <1>2, <1>3, <2>1 DEF Phases, Shown, Actionable

(* An entry that a poll lists and then takes off makes one move. *)
LEMMA ThenRemovedEvolves ==
  ASSUME NEW o, Legit(o), NEW c, Legit(c), NEW reason \in CloseReasons,
         NEW at, NEW ids, Evolves(o, c, at, {})
  PROVE  Evolves(o, ReconcileRemoved(c, reason), at, ids)
<1>1. PICK n : n = ReconcileRemoved(c, reason)
  OBVIOUS
<1>2. Moves(o, c, {}) /\ Advances(o, c)
  BY DEF Evolves
<1>3. CASE c.phase = "scheduled" \/ (c.phase = "notify-pending" /\ c.id = 0)
  <2>1. n = NoEntry
    BY <1>1, <1>3 DEF ReconcileRemoved
  <2>2. c.phase \in {"scheduled", "notify-pending"} /\ c.id = 0
    BY <1>3, HiddenHasNone
  <2>3. o.phase \in {"absent", "scheduled", "notify-pending", "close-pending"}
                   \cup Shown
    BY <1>2, <2>2 DEF Moves, MovesOn, MovesOff, Shown, Actionable
  <2>4. o.phase \notin Shown
    <3>1. SUFFICES ASSUME o.phase \in Shown PROVE FALSE
      OBVIOUS
    <3>2. o.id # 0
      BY <3>1, ShownHasID DEF Shown, Actionable
    <3> QED
      BY <1>2, <2>2, <3>1, <3>2
        DEF Moves, MovesOn, MovesOff, Shown, Actionable
  <2>5. CASE o.phase = "absent"
    <3>1. o = NoEntry
      BY <2>5 DEF Legit, ValidOccurrence, Phases
    <3> QED  BY <1>1, <2>1, <3>1, SameEvolves
  <2>6. CASE o.phase # "absent"
    BY <1>1, <2>1, <2>3, <2>4, <2>6, GoneEvolves
  <2> QED  BY <2>5, <2>6
<1>4. CASE c.phase \in Shown \/ (c.phase = "notify-pending" /\ c.id # 0)
  <2>1. /\ n.phase = "close-pending" /\ n.id = c.id
        /\ n.notifyRevision \in Nat /\ n.notifyRevision >= c.notifyRevision
        /\ n.joinRevision = c.joinRevision
    BY <1>1, <1>4, RemovedFields
  <2>2. c.id # 0
    BY <1>4, ShownHasID DEF Shown, Actionable
  <2>3. /\ c.id = o.id
        /\ o.phase \in {"scheduled", "notify-pending"} \cup Shown
    BY <1>2, <1>4, <2>2 DEF Moves, MovesOn, MovesOff, Shown, Actionable
  <2>4. o.phase \in Shown \cup {"notify-pending"} /\ o.id # 0
    BY <2>2, <2>3, HiddenHasNone
  <2>5. Moves(o, n, ids)
    BY <2>1, <2>3, <2>4 DEF Moves, MovesOn
  <2>6. o.phase # "absent" /\ c.phase # "absent"
    BY <1>4, <2>4 DEF Shown, Actionable
  <2>7. Advances(o, n)
    BY <1>2, <2>1, <2>6, RevisionType DEF Advances
  <2> QED  BY <1>1, <2>4, <2>5, <2>7 DEF Evolves, Shown, Actionable
<1>5. CASE c.phase \in {"absent", "joined", "close-pending"}
  <2>1. n = c
    BY <1>1, <1>5 DEF ReconcileRemoved
  <2>2. Moves(o, c, ids)
    BY <1>2 DEF Moves
  <2> QED  BY <1>1, <2>1, <2>2 DEF Evolves
<1> QED
  <2>1. c.phase \in Phases \cup {"absent"}
    BY PhaseType
  <2> QED  BY <1>3, <1>4, <1>5, <2>1 DEF Phases, Shown, Actionable

(* A poll, seen from one entry. *)
LEMMA ReconciledEvolves ==
  ASSUME NEW o, Legit(o), NEW n, NEW at \in Nat, NEW ids, Reconciled(o, n, at)
  PROVE  Evolves(o, n, at, ids)
<1>1. CASE n = o
  BY <1>1, SameEvolves
<1>2. ASSUME NEW reason \in CloseReasons, n = ReconcileRemoved(o, reason)
      PROVE  Evolves(o, n, at, ids)
  BY <1>2, ReconcileRemovedEvolves
<1>3. ASSUME NEW m \in Meetings, NEW c, c = ReconcileCurrent(o, m, at)
      PROVE  /\ Evolves(o, c, at, ids)
             /\ \A reason \in CloseReasons :
                  Evolves(o, ReconcileRemoved(c, reason), at, ids)
  <2>1. Evolves(o, c, at, ids) /\ Evolves(o, c, at, {})
    BY <1>3, ReconcileCurrentEvolves
  <2>2. Legit(c)
    BY <1>3, ReconcileCurrentKeeps DEF Keeps
  <2> QED  BY <2>1, <2>2, ThenRemovedEvolves
<1> QED  BY <1>1, <1>2, <1>3 DEF Reconciled

(* An activity result that announces a scheduled entry. *)
LEMMA AnnounceEvolves ==
  ASSUME NEW o, Legit(o), o.phase = "scheduled", NEW at, NEW ids,
         NEW n, n = [o EXCEPT !.phase = "notify-pending", !.notBefore = at,
                              !.notifyRevision = @ + 1]
  PROVE  Evolves(o, n, at, ids)
<1>1. o \in OccurrenceType
  BY LegitType
<1>2. /\ n.phase = "notify-pending" /\ n.id = o.id
      /\ n.notifyRevision = o.notifyRevision + 1
      /\ n.joinRevision = o.joinRevision
  BY <1>1 DEF OccurrenceType
<1>3. Moves(o, n, ids)
  BY <1>2 DEF Moves, MovesOn
<1>4. Advances(o, n)
  BY <1>2, RevisionType DEF Advances
<1> QED  BY <1>3, <1>4 DEF Evolves

(* An entry that keeps its revisions and is neither announced nor joined. *)
LEMMA QuietEvolves ==
  ASSUME NEW o, Legit(o), NEW n, NEW at, NEW ids, Moves(o, n, ids),
         n.phase \notin {"notify-pending", "join-pending"},
         o.phase # "joined",
         n.notifyRevision = o.notifyRevision, n.joinRevision = o.joinRevision
  PROVE  Evolves(o, n, at, ids)
<1>1. Advances(o, n)
  BY RevisionType DEF Advances
<1> QED  BY <1>1 DEF Evolves

(* A launch that succeeded. *)
LEMMA JoinedEvolves ==
  ASSUME NEW o, Legit(o), o.phase = "join-pending", NEW at, NEW ids,
         NEW n, n = [o EXCEPT !.phase = "joined", !.joinedAt = TRUE, !.id = 0,
                     !.notifiedAt = FALSE, !.actionExpiresAt = 0,
                     !.joinRequestedAt = FALSE, !.resume = ""]
  PROVE  Evolves(o, n, at, ids)
<1>1. o \in OccurrenceType
  BY LegitType
<1>2. /\ n.phase = "joined" /\ n.id = 0
      /\ n.notifyRevision = o.notifyRevision
      /\ n.joinRevision = o.joinRevision
  BY <1>1 DEF OccurrenceType
<1>3. Moves(o, n, ids)
  BY <1>2 DEF Moves, MovesOff
<1> QED  BY <1>2, <1>3, QuietEvolves

(* A launch that failed. *)
LEMMA LaunchFailedEvolves ==
  ASSUME NEW o, Legit(o), o.phase = "join-pending", NEW at, NEW ids,
         NEW n, n = [o EXCEPT !.phase = o.resume, !.joinRequestedAt = FALSE,
                              !.resume = ""]
  PROVE  Evolves(o, n, at, ids)
<1>1. o \in OccurrenceType
  BY LegitType
<1>2. /\ n.phase = o.resume /\ n.id = o.id
      /\ n.notifyRevision = o.notifyRevision
      /\ n.joinRevision = o.joinRevision
  BY <1>1 DEF OccurrenceType
<1>3. n.phase \in Actionable
  BY <1>2, PresentValid DEF ValidOccurrence, Actionable
<1>4. Moves(o, n, ids)
  BY <1>2, <1>3 DEF Moves, MovesOn
<1> QED  BY <1>2, <1>3, <1>4, QuietEvolves DEF Actionable

(* A close that is done. *)
LEMMA ClosedEvolves ==
  ASSUME NEW o, Legit(o), o.phase = "close-pending", NEW at, NEW ids
  PROVE  Evolves(o, Closed(o), at, ids)
<1>1. CASE o.resume = "scheduled"
  <2>1. PICK n : n = Closed(o)
    OBVIOUS
  <2>2. o \in OccurrenceType
    BY LegitType
  <2>3. /\ n.phase = "scheduled" /\ n.id = 0
        /\ n.notifyRevision = o.notifyRevision
        /\ n.joinRevision = o.joinRevision
    BY <1>1, <2>1, <2>2 DEF Closed, OccurrenceType
  <2>4. Moves(o, n, ids)
    BY <2>3 DEF Moves, MovesOff
  <2> QED  BY <2>1, <2>3, <2>4, QuietEvolves
<1>2. CASE o.resume # "scheduled"
  <2>1. o.resume # "notify-pending"
    BY DEF Legit
  <2>2. Closed(o) = NoEntry
    BY <1>2, <2>1 DEF Closed
  <2> QED  BY <2>2, GoneEvolves
<1> QED  BY <1>1, <1>2

(* An announcement that was shown. *)
LEMMA DeliveredEvolves ==
  ASSUME NEW o, Legit(o), o.phase = "notify-pending",
         NEW ids, NEW id \in ids, id \in Nat, id # 0, NEW e, NEW at,
         NEW n, n = Announced(o, id, e)
  PROVE  Evolves(o, n, at, ids)
<1>1. o \in OccurrenceType
  BY LegitType
<1>2. /\ n.phase = "notified" /\ n.id = id
      /\ n.notifyRevision = o.notifyRevision
      /\ n.joinRevision = o.joinRevision
  BY <1>1 DEF OccurrenceType, Announced
<1>3. Moves(o, n, ids)
  BY <1>2 DEF Moves
<1> QED  BY <1>2, <1>3, QuietEvolves

(* A command to be retried. *)
LEMMA RetriedEvolves ==
  ASSUME NEW o, Legit(o), NEW i, NEW t, NEW at, NEW ids,
         NEW n, n = [o EXCEPT !.attempt = i, !.notBefore = t]
  PROVE  Evolves(o, n, at, ids)
<1>1. o \in OccurrenceType
  BY LegitType
<1>2. /\ n.phase = o.phase /\ n.id = o.id
      /\ n.notifyRevision = o.notifyRevision
      /\ n.joinRevision = o.joinRevision
  BY <1>1 DEF OccurrenceType
<1>3. /\ n.notifyRevision \in Nat /\ n.notifyRevision >= o.notifyRevision
      /\ n.joinRevision \in Nat /\ n.joinRevision >= o.joinRevision
  BY <1>2, RevisionType
<1> QED  BY <1>2, <1>3, StayEvolves

(* A click on Join. *)
LEMMA ClickEvolves ==
  ASSUME NEW o, Legit(o), o.phase \in Actionable, NEW at, NEW ids,
         NEW n, n = [o EXCEPT !.phase = "join-pending",
                       !.joinRequestedAt = TRUE, !.joinRevision = @ + 1,
                       !.resume = o.phase]
  PROVE  Evolves(o, n, at, ids)
<1>1. o \in OccurrenceType
  BY LegitType
<1>2. /\ n.phase = "join-pending" /\ n.id = o.id
      /\ n.notifyRevision = o.notifyRevision
      /\ n.joinRevision = o.joinRevision + 1
  BY <1>1 DEF OccurrenceType
<1>3. Moves(o, n, ids)
  BY <1>2 DEF Moves, MovesOn
<1>4. Advances(o, n)
  BY <1>2, RevisionType DEF Advances, Actionable
<1> QED  BY <1>2, <1>3, <1>4 DEF Evolves, Shown, Actionable

(* A notification that the user dismissed. *)
LEMMA DismissEvolves ==
  ASSUME NEW o, Legit(o), o.phase = "notified", NEW at, NEW ids,
         NEW n, n = [o EXCEPT !.phase = "actionable-history"]
  PROVE  Evolves(o, n, at, ids)
<1>1. o \in OccurrenceType
  BY LegitType
<1>2. /\ n.phase = "actionable-history" /\ n.id = o.id
      /\ n.notifyRevision = o.notifyRevision
      /\ n.joinRevision = o.joinRevision
  BY <1>1 DEF OccurrenceType
<1>3. Moves(o, n, ids)
  BY <1>2 DEF Moves, MovesOn
<1> QED  BY <1>2, <1>3, QuietEvolves

(* The tail of the reducer: an announcement that comes too late is dropped, *)
(* or closed when it was to replace one that is shown.                      *)
LEMMA ExpireEvolves ==
  ASSUME NEW o, Legit(o), NEW n, Legit(n), NEW at, NEW ids,
         Evolves(o, n, at, ids)
  PROVE  Evolves(o, ExpireNotifyPending(n, at), at, ids)
<1>0. Moves(o, n, ids) /\ Advances(o, n)
  BY DEF Evolves
<1>1. CASE n.phase # "notify-pending" \/ n.meeting.start > at
  BY <1>1 DEF ExpireNotifyPending
<1>2. CASE ~(n.phase # "notify-pending" \/ n.meeting.start > at) /\ n.id = 0
  <2>1. ExpireNotifyPending(n, at) = NoEntry
    BY <1>2 DEF ExpireNotifyPending
  <2>2. o.phase \in {"scheduled", "notify-pending"} \cup Shown
    BY <1>0, <1>2 DEF Moves, MovesOn, MovesOff, Shown, Actionable
  <2>3. o.phase \notin Shown
    <3>1. SUFFICES ASSUME o.phase \in Shown PROVE FALSE
      OBVIOUS
    <3>2. o.id # 0
      BY <3>1, ShownHasID DEF Shown, Actionable
    <3> QED  BY <1>0, <1>2, <3>1, <3>2 DEF Moves, MovesOn, MovesOff
  <2> QED  BY <2>1, <2>2, <2>3, GoneEvolves
<1>3. CASE ~(n.phase # "notify-pending" \/ n.meeting.start > at) /\ n.id # 0
  <2>1. PICK c : c = BeginClose(n, "expired", "")
    OBVIOUS
  <2>2. /\ c.phase = "close-pending" /\ c.id = n.id
        /\ c.notifyRevision = n.notifyRevision
        /\ c.joinRevision = n.joinRevision
    BY <2>1, BeginCloseFields
  <2>3. n.id = o.id /\ o.phase \in {"scheduled", "notify-pending"} \cup Shown
    BY <1>0, <1>3 DEF Moves, MovesOn, MovesOff, Shown, Actionable
  <2>4. o.phase # "scheduled"
    BY <1>3, <2>3, HiddenHasNone
  <2>5. Moves(o, c, ids)
    BY <1>3, <2>2, <2>3, <2>4 DEF Moves, MovesOn
  <2>6. o.phase # "absent" /\ n.phase # "absent"
    BY <1>3, <2>3 DEF Shown, Actionable
  <2>7. Advances(o, c)
    BY <1>0, <2>2, <2>6 DEF Advances
  <2>8. Evolves(o, c, at, ids)
    BY <2>2, <2>3, <2>5, <2>7 DEF Evolves, Shown, Actionable
  <2>9. ExpireNotifyPending(n, at) = c
    BY <1>3, <2>1 DEF ExpireNotifyPending
  <2> QED  BY <2>8, <2>9
<1> QED  BY <1>1, <1>2, <1>3

-----------------------------------------------------------------------------
(* States *)

(* An event stamped at moves every entry of the state by at most a step. *)
StateEvolves(s, t, at, ids) ==
  \A k \in Keys : Evolves(s.occurrences[k], t.occurrences[k], at, ids)

(* An event that does not touch the entries. *)
LEMMA SameStateEvolves ==
  ASSUME NEW s, Sound(s), NEW t, t.occurrences = s.occurrences, NEW at, NEW ids
  PROVE  StateEvolves(s, t, at, ids)
  BY SameEvolves DEF StateEvolves, Sound

(* A handler that rewrites every entry. *)
LEMMA EntriesEvolve ==
  ASSUME NEW s, Sound(s), NEW f, NEW t, t = [s EXCEPT !.occurrences = f],
         NEW at, NEW ids,
         \A k \in Keys : Evolves(s.occurrences[k], f[k], at, ids)
  PROVE  StateEvolves(s, t, at, ids)
<1>1. s \in StateType
  BY DEF Sound
<1>2. t.occurrences = f
  BY <1>1 DEF StateType
<1> QED  BY <1>2 DEF StateEvolves

(* A handler that updates one entry. *)
LEMMA UpdateEvolves ==
  ASSUME NEW s, Sound(s), NEW k \in Keys, NEW guard, NEW new, NEW at, NEW ids,
         guard => Evolves(s.occurrences[k], new, at, ids)
  PROVE  StateEvolves(s, Update(s, k, guard, new), at, ids)
<1>1. CASE guard
  <2>1. s.occurrences \in [Keys -> OccurrenceType]
    BY DEF Sound, StateType
  <2>2. PICK f : f = [s.occurrences EXCEPT ![k] = new]
    OBVIOUS
  <2>3. \A j \in Keys : f[j] = IF j = k THEN new ELSE s.occurrences[j]
    BY <2>1, <2>2
  <2>4. \A j \in Keys : Evolves(s.occurrences[j], f[j], at, ids)
    BY <1>1, <2>3, SameEvolves DEF Sound
  <2>5. Update(s, k, guard, new) = [s EXCEPT !.occurrences = f]
    BY <1>1, <2>2 DEF Update
  <2> QED  BY <2>4, <2>5, EntriesEvolve
<1>2. CASE ~guard
  BY <1>2, SameStateEvolves DEF Update
<1> QED  BY <1>1, <1>2

(* The tail of reduceWithIndex, after any event. *)
LEMMA SettleEvolves ==
  ASSUME NEW s, Sound(s), NEW t, Sound(t), NEW at, NEW ids,
         StateEvolves(s, t, at, ids)
  PROVE  StateEvolves(s, Settle(t, at), at, ids)
<1>1. PICK f : f = [k \in Keys |-> ExpireNotifyPending(t.occurrences[k], at)]
  OBVIOUS
<1>2. t \in StateType
  BY DEF Sound
<1>3. Settle(t, at).occurrences = f
  BY <1>1, <1>2 DEF Settle, StateType
<1>4. ASSUME NEW k \in Keys PROVE Evolves(s.occurrences[k], f[k], at, ids)
  BY <1>1, ExpireEvolves DEF Sound, StateEvolves
<1> QED  BY <1>3, <1>4 DEF StateEvolves

(* Tick. *)
LEMMA TickEvolves ==
  ASSUME NEW s, Sound(s), NEW at, NEW ids
  PROVE  StateEvolves(s, TickEvent(s, at), at, ids)
<1>1. PICK f : f = [k \in Keys |-> Prune(s.occurrences[k], at)]
  OBVIOUS
<1>2. \A k \in Keys : Evolves(s.occurrences[k], f[k], at, ids)
  BY <1>1, PruneEvolves DEF Sound
<1>3. TickEvent(s, at) = [s EXCEPT !.occurrences = f]
  BY <1>1 DEF TickEvent
<1> QED  BY <1>2, <1>3, EntriesEvolve

(* An activity result. *)
LEMMA ActivityEvolves ==
  ASSUME NEW s, Sound(s), NEW announce \in BOOLEAN, NEW at, NEW ids
  PROVE  StateEvolves(s, ActivityResultEvent(s, announce, at), at, ids)
<1> DEFINE New(o) == [o EXCEPT !.phase = "notify-pending", !.notBefore = at,
                               !.notifyRevision = @ + 1]
           Goes(o) == announce /\ o.phase = "scheduled" /\ Due(o.meeting, at)
<1>1. PICK f : f = [k \in Keys |-> IF Goes(s.occurrences[k])
                                    THEN New(s.occurrences[k])
                                    ELSE s.occurrences[k]]
  OBVIOUS
<1>2. ASSUME NEW k \in Keys PROVE Evolves(s.occurrences[k], f[k], at, ids)
  <2>1. Legit(s.occurrences[k])
    BY DEF Sound
  <2>2. CASE Goes(s.occurrences[k])
    <3>1. f[k] = New(s.occurrences[k])
      BY <1>1, <2>2
    <3> QED  BY <2>1, <2>2, <3>1, AnnounceEvolves
  <2>3. CASE ~Goes(s.occurrences[k])
    <3>1. f[k] = s.occurrences[k]
      BY <1>1, <2>3
    <3> QED  BY <2>1, <3>1, SameEvolves
  <2> QED  BY <2>2, <2>3
<1>3. ActivityResultEvent(s, announce, at) = [s EXCEPT !.occurrences = f]
  BY <1>1 DEF ActivityResultEvent
<1> HIDE DEF New, Goes
<1> QED  BY <1>2, <1>3, EntriesEvolve

(* A poll. *)
LEMMA ReconcileEvolves ==
  ASSUME NEW s, Sound(s), NEW a \in Accounts, NEW poll,
         \A k \in KeysOf(a) : GoodItem(poll[k]), NEW at \in Nat, NEW ids
  PROVE  StateEvolves(s, Reconcile(s, a, poll, at), at, ids)
<1>1. PICK f : f = [k \in Keys |->
         IF k \in KeysOf(a) THEN ReconcileItem(s, a, k, poll[k], at)
                            ELSE s.occurrences[k]]
  OBVIOUS
<1>2. ASSUME NEW k \in KeysOf(a), k \in Keys
      PROVE  Evolves(s.occurrences[k], ReconcileItem(s, a, k, poll[k], at),
                     at, ids)
  <2>1. Legit(s.occurrences[k]) /\ GoodItem(poll[k])
    BY <1>2 DEF Sound
  <2> QED  BY <2>1, ReconcileItemCases, ReconciledEvolves
<1>3. ASSUME NEW k \in Keys PROVE Evolves(s.occurrences[k], f[k], at, ids)
  <2>1. CASE k \in KeysOf(a)
    <3>1. f[k] = ReconcileItem(s, a, k, poll[k], at)
      BY <1>1, <2>1
    <3> QED  BY <1>2, <2>1, <3>1
  <2>2. CASE k \notin KeysOf(a)
    <3>1. f[k] = s.occurrences[k]
      BY <1>1, <2>2
    <3> QED  BY <3>1, SameEvolves DEF Sound
  <2> QED  BY <2>1, <2>2
<1>4. s \in StateType
  BY DEF Sound
<1>5. Reconcile(s, a, poll, at).occurrences = f
  BY <1>1, <1>4 DEF Reconcile, StateType
<1> QED  BY <1>3, <1>5 DEF StateEvolves

(* The events of an account that leave the entries alone. *)
LEMMA AccountEvolves ==
  ASSUME NEW s, Sound(s), NEW a \in Accounts, NEW kind, NEW gen,
         NEW revision, NEW at, NEW ids
  PROVE  /\ StateEvolves(s, ApplyPollFailure(s, a, kind, gen, at), at, ids)
         /\ StateEvolves(s, ApplyWarningDelivery(s, a, revision, at), at, ids)
         /\ StateEvolves(s, ApplyWarningFailure(s, a, revision, at), at, ids)
<1>1. s \in StateType
  BY DEF Sound
<1>2. ApplyPollFailure(s, a, kind, gen, at).occurrences = s.occurrences
  BY <1>1 DEF ApplyPollFailure, StateType
<1>3. ApplyWarningDelivery(s, a, revision, at).occurrences = s.occurrences
  BY <1>1 DEF ApplyWarningDelivery, StateType
<1>4. ApplyWarningFailure(s, a, revision, at).occurrences = s.occurrences
  BY <1>1 DEF ApplyWarningFailure, StateType
<1> QED  BY <1>2, <1>3, <1>4, SameStateEvolves

(* A delivery. *)
LEMMA DeliveryEvolves ==
  ASSUME NEW s, Sound(s), NEW k \in Keys, NEW revision,
         NEW ids, NEW id \in ids, id \in Nat, id # 0, NEW at
  PROVE  StateEvolves(s, ApplyDelivery(s, k, revision, id, at), at, ids)
<1>1. PICK o : o = s.occurrences[k]
  OBVIOUS
<1>2. Legit(o)
  BY <1>1 DEF Sound
<1> DEFINE guard == o.phase = "notify-pending" /\ o.notifyRevision = revision
<1>3. PICK n : n = Announced(o, id, at + ActionLifetime)
  OBVIOUS
<1>4. ApplyDelivery(s, k, revision, id, at) = Update(s, k, guard, n)
  BY <1>1, <1>3 DEF ApplyDelivery, Announced
<1>5. guard => Evolves(o, n, at, ids)
  BY <1>2, <1>3, DeliveredEvolves
<1> HIDE DEF guard
<1>6. StateEvolves(s, Update(s, k, guard, n), at, ids)
  BY <1>1, <1>5, UpdateEvolves
<1> QED  BY <1>4, <1>6

(* A failed command. *)
LEMMA FailureEvolves ==
  ASSUME NEW s, Sound(s), NEW k \in Keys, NEW revision, NEW id, NEW at, NEW ids
  PROVE  StateEvolves(s, ApplyNotificationFailure(s, k, revision, id, at),
                      at, ids)
<1>1. PICK o : o = s.occurrences[k]
  OBVIOUS
<1>2. Legit(o)
  BY <1>1 DEF Sound
<1>3. PICK i : i = NextAttempt(o.attempt)
  OBVIOUS
<1>4. CASE o.phase = "close-pending"
  <2>1. PICK n : n = [o EXCEPT !.attempt = i, !.notBefore = CloseRetry(at, i, k)]
    OBVIOUS
  <2>2. Evolves(o, n, at, ids)
    BY <1>2, <2>1, RetriedEvolves
  <2>3. ApplyNotificationFailure(s, k, revision, id, at)
          = Update(s, k, id # 0 /\ id = o.id, n)
    BY <1>1, <1>3, <1>4, <2>1 DEF ApplyNotificationFailure
  <2>4. StateEvolves(s, Update(s, k, id # 0 /\ id = o.id, n), at, ids)
    BY <1>1, <2>2, UpdateEvolves
  <2> QED  BY <2>3, <2>4
<1>5. CASE o.phase # "close-pending"
  <2> DEFINE guard == o.phase = "notify-pending" /\ o.notifyRevision = revision
  <2>1. PICK n : n = [o EXCEPT !.attempt = i, !.notBefore = NextRetry(at, i)]
    OBVIOUS
  <2>2. Evolves(o, n, at, ids)
    BY <1>2, <2>1, RetriedEvolves
  <2>3. ApplyNotificationFailure(s, k, revision, id, at) = Update(s, k, guard, n)
    BY <1>1, <1>3, <1>5, <2>1 DEF ApplyNotificationFailure
  <2> HIDE DEF guard
  <2>4. StateEvolves(s, Update(s, k, guard, n), at, ids)
    BY <1>1, <2>2, UpdateEvolves
  <2> QED  BY <2>3, <2>4
<1> QED  BY <1>4, <1>5

(* A completed close. *)
LEMMA CompleteCloseEvolves ==
  ASSUME NEW s, Sound(s), NEW k \in Keys, NEW id, NEW at, NEW ids
  PROVE  StateEvolves(s, CompleteClose(s, k, id), at, ids)
<1>1. PICK o : o = s.occurrences[k]
  OBVIOUS
<1>2. Legit(o)
  BY <1>1 DEF Sound
<1>3. o.phase = "close-pending" => Evolves(o, Closed(o), at, ids)
  BY <1>2, ClosedEvolves
<1>4. StateEvolves(s, Update(s, k, o.phase = "close-pending"
                                     /\ id \in {0, o.id}, Closed(o)), at, ids)
  BY <1>1, <1>3, UpdateEvolves
<1> QED  BY <1>1, <1>4 DEF CompleteClose

(* A launch result. *)
LEMMA LaunchEvolves ==
  ASSUME NEW s, Sound(s), NEW k \in Keys, NEW revision, NEW ok \in BOOLEAN,
         NEW at, NEW ids
  PROVE  StateEvolves(s, LaunchResultEvent(s, k, revision, ok), at, ids)
<1>1. PICK o : o = s.occurrences[k]
  OBVIOUS
<1>2. Legit(o)
  BY <1>1 DEF Sound
<1>3. PICK n : n = IF ok
        THEN [o EXCEPT !.phase = "joined", !.joinedAt = TRUE, !.id = 0,
                       !.notifiedAt = FALSE, !.actionExpiresAt = 0,
                       !.joinRequestedAt = FALSE, !.resume = ""]
        ELSE [o EXCEPT !.phase = o.resume, !.joinRequestedAt = FALSE,
                       !.resume = ""]
  OBVIOUS
<1>4. o.phase = "join-pending" => Evolves(o, n, at, ids)
  <2>1. CASE ok
    BY <1>2, <1>3, <2>1, JoinedEvolves
  <2>2. CASE ~ok
    BY <1>2, <1>3, <2>2, LaunchFailedEvolves
  <2> QED  BY <2>1, <2>2
<1>5. LaunchResultEvent(s, k, revision, ok)
        = Update(s, k, o.phase = "join-pending" /\ o.joinRevision = revision, n)
  BY <1>1, <1>3 DEF LaunchResultEvent
<1>6. StateEvolves(s, Update(s, k, o.phase = "join-pending"
                                     /\ o.joinRevision = revision, n), at, ids)
  BY <1>1, <1>4, UpdateEvolves
<1> QED  BY <1>5, <1>6

(* A click on Join. *)
LEMMA JoinSignalEvolves ==
  ASSUME NEW s, Sound(s), NEW id, NEW at, NEW ids, NEW H
  PROVE  StateEvolves(s, JoinSignal(s, id, at, H), at, ids)
<1> DEFINE New(o) == [o EXCEPT !.phase = "join-pending",
                       !.joinRequestedAt = TRUE, !.joinRevision = @ + 1,
                       !.resume = o.phase]
           Goes(k) == HoldsID(s, k, id) /\ JoinAllowed(s.occurrences[k], at, H)
<1>1. PICK f : f = [k \in Keys |-> IF Goes(k) THEN New(s.occurrences[k])
                                             ELSE s.occurrences[k]]
  OBVIOUS
<1>2. ASSUME NEW k \in Keys PROVE Evolves(s.occurrences[k], f[k], at, ids)
  <2>1. Legit(s.occurrences[k])
    BY DEF Sound
  <2>2. CASE Goes(k)
    <3>1. f[k] = New(s.occurrences[k])
      BY <1>1, <2>2
    <3>2. s.occurrences[k].phase \in Actionable
      BY <2>2 DEF JoinAllowed, Actionable
    <3> QED  BY <2>1, <3>1, <3>2, ClickEvolves
  <2>3. CASE ~Goes(k)
    <3>1. f[k] = s.occurrences[k]
      BY <1>1, <2>3
    <3> QED  BY <2>1, <3>1, SameEvolves
  <2> QED  BY <2>2, <2>3
<1>3. JoinSignal(s, id, at, H) = [s EXCEPT !.occurrences = f]
  BY <1>1 DEF JoinSignal
<1> HIDE DEF New, Goes
<1> QED  BY <1>2, <1>3, EntriesEvolve

(* A NotificationClosed signal. *)
LEMMA ClosedSignalEvolves ==
  ASSUME NEW s, Sound(s), NEW id, NEW at, NEW ids
  PROVE  StateEvolves(s, ClosedSignal(s, id), at, ids)
<1> DEFINE New(k) == LET o == s.occurrences[k] IN
             CASE HoldsID(s, k, id) /\ o.phase = "close-pending" -> Closed(o)
               [] HoldsID(s, k, id) /\ o.phase = "notified" ->
                    [o EXCEPT !.phase = "actionable-history"]
               [] OTHER -> o
<1>1. PICK f : f = [k \in Keys |-> New(k)]
  OBVIOUS
<1>2. ASSUME NEW k \in Keys PROVE Evolves(s.occurrences[k], f[k], at, ids)
  <2>0. PICK o : o = s.occurrences[k]
    OBVIOUS
  <2>1. Legit(o) /\ f[k] = New(k)
    BY <1>1, <2>0 DEF Sound
  <2>2. CASE HoldsID(s, k, id) /\ o.phase = "close-pending"
    <3>1. New(k) = Closed(o)
      BY <2>0, <2>2
    <3> QED  BY <2>0, <2>1, <2>2, <3>1, ClosedEvolves
  <2>3. CASE HoldsID(s, k, id) /\ o.phase = "notified"
    <3>1. New(k) = [o EXCEPT !.phase = "actionable-history"]
      BY <2>0, <2>3
    <3> QED  BY <2>0, <2>1, <2>3, <3>1, DismissEvolves
  <2>4. CASE ~(HoldsID(s, k, id) /\ o.phase \in {"close-pending", "notified"})
    <3>1. New(k) = o
      BY <2>0, <2>4
    <3> QED  BY <2>0, <2>1, <3>1, SameEvolves
  <2> QED  BY <2>2, <2>3, <2>4
<1>3. ClosedSignal(s, id) = [s EXCEPT !.occurrences = f]
  BY <1>1 DEF ClosedSignal
<1> HIDE DEF New
<1> QED  BY <1>2, <1>3, EntriesEvolve

(* Loading a state from before revisions existed. *)
LEMMA NormalizeEvolves ==
  ASSUME NEW s, Sound(s), NEW at, NEW ids
  PROVE  StateEvolves(s, NormalizeLegacy(s), at, ids)
<1> DEFINE NR(o) == IF o.notifyRevision = 0
                       /\ o.phase \notin {"absent", "scheduled", "joined"}
                      THEN 1 ELSE o.notifyRevision
           JR(o) == IF o.joinRevision = 0
                       /\ o.phase \in {"join-pending", "joined"}
                      THEN 1 ELSE o.joinRevision
           New(o) == [o EXCEPT !.notifyRevision = NR(o), !.joinRevision = JR(o)]
<1>1. PICK f : f = [k \in Keys |-> New(s.occurrences[k])]
  OBVIOUS
<1>2. ASSUME NEW k \in Keys PROVE Evolves(s.occurrences[k], f[k], at, ids)
  <2>1. PICK o : o = s.occurrences[k]
    OBVIOUS
  <2>2. Legit(o) /\ f[k] = New(o)
    BY <1>1, <2>1 DEF Sound
  <2>3. o \in OccurrenceType /\ o.notifyRevision \in Nat /\ o.joinRevision \in Nat
    BY <2>2, LegitType, RevisionType
  <2>4. PICK i, j : i = NR(o) /\ j = JR(o)
    OBVIOUS
  <2>5. /\ i \in Nat /\ i >= o.notifyRevision
        /\ j \in Nat /\ j >= o.joinRevision
    BY <2>3, <2>4
  <2>6. o.phase = "join-pending" => j = o.joinRevision
    <3>1. o.phase = "join-pending" => o.joinRevision # 0
      BY <2>2, PresentValid DEF ValidOccurrence
    <3> QED  BY <2>4, <3>1
  <2>7. PICK n : n = Revised(o, i, j)
    OBVIOUS
  <2>8. f[k] = n
    BY <2>2, <2>4, <2>7 DEF Revised
  <2> HIDE DEF NR, JR, New
  <2>9. /\ n.phase = o.phase /\ n.id = o.id
        /\ n.notifyRevision = i /\ n.joinRevision = j
    BY <2>3, <2>7 DEF Revised, OccurrenceType
  <2>10. Evolves(o, n, at, ids)
    BY <2>2, <2>5, <2>9, <2>6, StayEvolves
  <2> QED  BY <2>1, <2>8, <2>10
<1>3. NormalizeLegacy(s) = [s EXCEPT !.occurrences = f]
  BY <1>1 DEF NormalizeLegacy
<1> HIDE DEF New, NR, JR
<1> QED  BY <1>2, <1>3, EntriesEvolve
=============================================================================
