----------------------------- MODULE Lifecycle -----------------------------
(***************************************************************************)
(* The durable state of the meeting notifier and the pure functions that   *)
(* transform it: internal/storage/state.go (the aggregate of an occurrence *)
(* and its validation) and the reducer of internal/daemon (reducer.go,     *)
(* reducer_notifications.go, reconcile.go, expiry.go, poll_health.go,      *)
(* retry.go, scheduler.go).  No variables here: Reducer.tla and Daemon.tla *)
(* are the state machines built from these operators.                      *)
(*                                                                         *)
(* Times are natural numbers and 0 is Go's zero time.  A map entry that    *)
(* does not exist is the record NoEntry, so a delete assigns NoEntry.      *)
(***************************************************************************)
EXTENDS Integers, Sequences, FiniteSets

CONSTANTS
  Keys,              \* occurrence keys, numbered in their string order
  Accounts,          \* account labels, numbered in their string order
  AccountOf,         \* the account label hashed into an occurrence key
  Meetings,          \* the normalised meetings a calendar can hold
  LeadTime,          \* Policy.leadTime
  ActionLifetime,    \* actionLifetime, how long Join stays valid
  FallbackLifetime,  \* meetingFallbackLifetime, for a meeting without an end
  WarningInterval,   \* authWarningInterval
  RetryDelays,       \* delay after failed attempt 1, 2, ...; the last repeats
  KeyHash,           \* fnv64a of a key, the source of closeRetry's jitter
  MaxRevision,       \* stands for math.MaxUint64
  Generations        \* authorization bundle generations

ASSUME KeysAssumption == Keys \subseteq Nat /\ Accounts \subseteq Nat
ASSUME AccountOfAssumption == AccountOf \in [Keys -> Accounts]
ASSUME LeadTimeAssumption == LeadTime \in Nat \ {0}
ASSUME ActionLifetimeAssumption == ActionLifetime \in Nat \ {0}
ASSUME FallbackLifetimeAssumption == FallbackLifetime \in Nat \ {0}
ASSUME WarningIntervalAssumption == WarningInterval \in Nat \ {0}
ASSUME RetryDelaysAssumption ==
  /\ RetryDelays \in Seq(Nat \ {0})
  /\ RetryDelays # <<>>
ASSUME KeyHashAssumption == KeyHash \in [Keys -> Nat]
ASSUME MaxRevisionAssumption == MaxRevision \in Nat \ {0}

-----------------------------------------------------------------------------
(* Durable types (storage/state.go) *)

Phases == {"scheduled", "notify-pending", "notified", "actionable-history",
           "join-pending", "joined", "close-pending"}

CloseReasons == {"cancelled", "deleted", "declined", "url-removed",
                 "rescheduled", "non-actionable", "expired"}

(* meeting.Meeting, reduced to what the reducer reads.  content stands for  *)
(* Summary and URL together; end = 0 is an event without an end.  start and *)
(* end are instants, and location names the *time.Location that they carry, *)
(* which nothing converts to UTC: time.Parse has one pointer for UTC, one   *)
(* for the local zone and one for each offset of whole hours.  For any      *)
(* other offset it allocates a new one, as time.LoadLocation does for a     *)
(* named zone; such a pointer is "fabricated".                              *)
MeetingType == [start: Nat \ {0}, end: Nat, content: STRING, location: STRING]

NoMeeting == [start |-> 0, end |-> 0, content |-> "", location |-> "utc"]

ASSUME MeetingsAssumption == Meetings \subseteq MeetingType

(* storage.OccurrenceState.  The reducer only asks of notifiedAt,          *)
(* joinRequestedAt and joinedAt whether they are zero, so they are flags.  *)
OccurrenceType ==
  [meeting: Meetings \cup {NoMeeting}, phase: Phases \cup {"absent"},
   id: Nat, notifiedAt: BOOLEAN, actionExpiresAt: Nat, notBefore: Nat,
   attempt: Nat, joinRequestedAt: BOOLEAN, joinedAt: BOOLEAN,
   closeReason: CloseReasons \cup {""}, resume: Phases \cup {""},
   notifyRevision: Nat, joinRevision: Nat]

NoEntry ==
  [meeting |-> NoMeeting, phase |-> "absent",
   id |-> 0, notifiedAt |-> FALSE, actionExpiresAt |-> 0, notBefore |-> 0,
   attempt |-> 0, joinRequestedAt |-> FALSE, joinedAt |-> FALSE,
   closeReason |-> "", resume |-> "",
   notifyRevision |-> 0, joinRevision |-> 0]

WarningType == [revision: Nat, createdAt: Nat, notBefore: Nat, attempt: Nat]

NoWarning == [revision |-> 0, createdAt |-> 0, notBefore |-> 0, attempt |-> 0]

PollErrorKinds == {"authentication", "rate-limit", "transient", "permanent"}

HealthType == [lastError: PollErrorKinds \cup {""}, needsAuth: BOOLEAN,
               generation: Generations \cup {0}]

StateType ==
  [occurrences: [Keys -> OccurrenceType],
   snapshots: [Accounts -> SUBSET Keys],
   health: [Accounts -> HealthType],
   authWarnings: [Accounts -> Nat],
   authWarningRevisions: [Accounts -> Nat],
   pendingAuthWarnings: [Accounts -> WarningType]]

(* Revisions are uint64 and attempts stop at the last delay. *)
WidthsOK(s) ==
  /\ \A k \in Keys : /\ s.occurrences[k].notifyRevision =< MaxRevision
                     /\ s.occurrences[k].joinRevision =< MaxRevision
                     /\ s.occurrences[k].attempt =< Len(RetryDelays)
  /\ \A a \in Accounts : /\ s.authWarningRevisions[a] =< MaxRevision
                         /\ s.pendingAuthWarnings[a].attempt =< Len(RetryDelays)

NewState ==
  [occurrences |-> [k \in Keys |-> NoEntry],
   snapshots |-> [a \in Accounts |-> {}],
   health |-> [a \in Accounts |->
                 [lastError |-> "", needsAuth |-> FALSE, generation |-> 0]],
   authWarnings |-> [a \in Accounts |-> 0],
   authWarningRevisions |-> [a \in Accounts |-> 0],
   pendingAuthWarnings |-> [a \in Accounts |-> NoWarning]]

-----------------------------------------------------------------------------
(* Validation (storage/state.go) *)

NoAction(o) == o.id = 0 /\ ~o.notifiedAt /\ o.actionExpiresAt = 0
RequireAction(o) == o.id # 0 /\ o.notifiedAt /\ o.actionExpiresAt # 0
NoRetry(o) == o.notBefore = 0 /\ o.attempt = 0
NoJoin(o) == ~o.joinRequestedAt /\ ~o.joinedAt
NoClose(o) == o.closeReason = "" /\ o.resume = ""

(* OccurrenceState.Validate, one conjunct per phase. *)
ValidOccurrence(o) ==
  /\ o.phase \in Phases
  /\ o.phase = "scheduled" =>
       NoAction(o) /\ NoRetry(o) /\ NoJoin(o) /\ NoClose(o)
  /\ o.phase = "notify-pending" =>
       ~o.notifiedAt /\ o.actionExpiresAt = 0 /\ NoJoin(o) /\ NoClose(o)
  /\ o.phase \in {"notified", "actionable-history"} =>
       RequireAction(o) /\ NoRetry(o) /\ NoJoin(o) /\ NoClose(o)
  /\ o.phase = "join-pending" =>
       /\ RequireAction(o) /\ NoRetry(o)
       /\ o.joinRequestedAt /\ ~o.joinedAt /\ o.joinRevision # 0
       /\ o.resume \in {"notified", "actionable-history"}
       /\ o.closeReason = ""
  /\ o.phase = "joined" =>
       /\ o.joinedAt /\ o.joinRevision # 0 /\ ~o.joinRequestedAt
       /\ NoAction(o) /\ NoRetry(o) /\ NoClose(o)
  /\ o.phase = "close-pending" =>
       /\ o.id # 0 /\ o.closeReason \in CloseReasons
       /\ ~o.notifiedAt /\ o.actionExpiresAt = 0 /\ NoJoin(o)
       /\ o.attempt = 0 <=> o.notBefore = 0
       /\ o.resume # "" => /\ o.closeReason = "rescheduled"
                           /\ o.resume \in {"scheduled", "notify-pending"}

Present(s, k) == s.occurrences[k].phase # "absent"

Warned(s, a) == s.pendingAuthWarnings[a].revision # 0

ValidWarning(s, a) ==
  LET w == s.pendingAuthWarnings[a] IN
    /\ w.createdAt # 0 /\ w.notBefore # 0
    /\ s.authWarningRevisions[a] = w.revision

(* No two entries hold the same notification. *)
DistinctIDs(s) ==
  \A j, k \in Keys :
    s.occurrences[j].id # 0 /\ s.occurrences[j].id = s.occurrences[k].id
      => j = k

(* State.Validate *)
Validate(s) ==
  /\ \A a \in Accounts : Warned(s, a) => ValidWarning(s, a)
  /\ \A k \in Keys : Present(s, k) => ValidOccurrence(s.occurrences[k])
  /\ DistinctIDs(s)

(* State.NormalizeLegacy: files written before revisions existed. *)
NormalizeLegacy(s) ==
  [s EXCEPT !.occurrences = [k \in Keys |->
     LET o == s.occurrences[k] IN
     [o EXCEPT
        !.notifyRevision =
          IF @ = 0 /\ o.phase \notin {"absent", "scheduled", "joined"}
            THEN 1 ELSE @,
        !.joinRevision =
          IF @ = 0 /\ o.phase \in {"join-pending", "joined"} THEN 1 ELSE @]]]

-----------------------------------------------------------------------------
(* Time and retry policy *)

(* meeting.Due: inside the lead window and not started. *)
Due(m, at) == m.start > at /\ m.start - at =< LeadTime

MeetingEnd(m) == IF m.end = 0 THEN m.start + FallbackLifetime ELSE m.end

MeetingExpired(o, at) == MeetingEnd(o.meeting) =< at

(* NextRetry's delay, minute << min(attempt-1, 4) capped at 15 minutes, is  *)
(* a table.  Attempts past the end of the table all behave alike, so the    *)
(* counter stops there.                                                     *)
NextAttempt(attempt) ==
  IF attempt < Len(RetryDelays) THEN attempt + 1 ELSE Len(RetryDelays)

NextRetry(at, attempt) == at + RetryDelays[attempt]

(* closeRetry adds a jitter of at most a quarter of the delay. *)
CloseRetry(at, attempt, k) ==
  NextRetry(at, attempt) + (KeyHash[k] % ((RetryDelays[attempt] \div 4) + 1))

-----------------------------------------------------------------------------
(* Expiry (expiry.go) *)

(* Mutant: the close forgets that Join is invalid. *)
BeginCloseKeepsExpiry(o, reason, resume) ==
  [o EXCEPT !.phase = "close-pending", !.closeReason = reason,
            !.resume = resume, !.notifiedAt = FALSE,
            !.notBefore = 0, !.attempt = 0, !.joinRequestedAt = FALSE,
            !.joinedAt = FALSE]

(* beginClose: withdraw a notification; Join is invalid from here on. *)
BeginClose(o, reason, resume) ==
  [o EXCEPT !.phase = "close-pending", !.closeReason = reason,
            !.resume = resume, !.notifiedAt = FALSE, !.actionExpiresAt = 0,
            !.notBefore = 0, !.attempt = 0, !.joinRequestedAt = FALSE,
            !.joinedAt = FALSE]

ActionExpired(o, at) == o.actionExpiresAt =< at

Prune(o, at) ==
  CASE o.phase \in {"scheduled", "notify-pending", "joined"} ->
         IF MeetingExpired(o, at) THEN NoEntry ELSE o
    [] o.phase \in {"notified", "join-pending"} ->
         IF MeetingExpired(o, at) \/ ActionExpired(o, at)
           THEN BeginClose(o, "expired", "") ELSE o
    [] o.phase = "actionable-history" ->
         IF ActionExpired(o, at) THEN NoEntry ELSE o
    [] OTHER -> o

(* expireNotifyPending: nothing is announced once the meeting has started. *)
ExpireNotifyPending(o, at) ==
  IF o.phase # "notify-pending" \/ o.meeting.start > at THEN o
  ELSE IF o.id = 0 THEN NoEntry
  ELSE BeginClose(o, "expired", "")

-----------------------------------------------------------------------------
(* Calendar reconciliation (reconcile.go) *)

(* What a poll says of one key: not listed, a meeting, an observation (an   *)
(* event that is listed but must not be announced), or both, when the event *)
(* changed between two pages.  A key of another account is never in a poll: *)
(* the label is hashed into the key.                                        *)
PollItemType ==
  [seen: {"missing", "current", "observed", "both"},
   meeting: Meetings \cup {NoMeeting}, reason: CloseReasons \cup {""}]

(* An item is what the calendar source can say. *)
GoodItem(item) ==
  /\ item.seen \in {"current", "both"} => item.meeting \in Meetings
  /\ item.seen \in {"observed", "both"} => item.reason \in CloseReasons

(* replacementRelevantChanged compares time.Time values with !=, which also *)
(* compares the Location pointers: the same instant in another zone is a    *)
(* change, and so is any that comes with a fabricated pointer.              *)
ReplacementRelevantChanged(old, new) ==
  old # new \/ new.location = "fabricated"

(* A new meeting under a new revision. *)
Renewed(o, m) == [o EXCEPT !.notifyRevision = @ + 1, !.meeting = m]

(* Mutant: the replacement reuses the revision. *)
PrepareReplacementSameRevision(o, m, at) ==
  [o EXCEPT !.meeting = m, !.phase = "notify-pending", !.notifiedAt = FALSE,
            !.actionExpiresAt = 0, !.notBefore = at, !.attempt = 0,
            !.joinRequestedAt = FALSE, !.joinedAt = FALSE,
            !.closeReason = "", !.resume = ""]

(* prepareReplacement: announce again, in place of the notification shown. *)
PrepareReplacement(o, m, at) ==
  [Renewed(o, m) EXCEPT
     !.phase = "notify-pending", !.notifiedAt = FALSE, !.actionExpiresAt = 0,
     !.notBefore = at, !.attempt = 0, !.joinRequestedAt = FALSE,
     !.joinedAt = FALSE, !.closeReason = "", !.resume = ""]

(* Mutant: a replacement that is not due any more is rescheduled at once.  *)
RenewPendingForgetsShown(o, m, at) ==
  LET r == Renewed(o, m) IN
  IF Due(m, at) THEN [r EXCEPT !.notBefore = at, !.attempt = 0]
  ELSE [r EXCEPT !.phase = "scheduled", !.id = 0, !.notBefore = 0,
                 !.attempt = 0]

(* The notify-pending case of reconcileCurrent. *)
RenewPending(o, m, at) ==
  LET r == Renewed(o, m) IN
  CASE Due(m, at) -> [r EXCEPT !.notBefore = at, !.attempt = 0]
    [] ~Due(m, at) /\ o.id # 0 -> BeginClose(r, "rescheduled", "scheduled")
    [] OTHER -> [r EXCEPT !.phase = "scheduled", !.notBefore = 0,
                          !.attempt = 0]

ReconcileCurrent(o, m, at) ==
  LET silent == \/ o.phase \in {"joined", "scheduled", "close-pending"}
                \/ ~ReplacementRelevantChanged(o.meeting, m)
  IN
  CASE o.phase = "absent" ->
         [NoEntry EXCEPT !.meeting = m, !.phase = "scheduled"]
    [] o.phase # "absent" /\ silent -> [o EXCEPT !.meeting = m]
    [] o.phase = "notify-pending" /\ ~silent -> RenewPending(o, m, at)
    [] OTHER ->
         IF Due(m, at)
           THEN PrepareReplacement(o, m, at)
           ELSE [BeginClose(o, "rescheduled", "scheduled")
                   EXCEPT !.meeting = m]

(* Mutant: the tombstone of a joined meeting is removed as well. *)
ReconcileRemovedForgetsJoined(o, reason) ==
  CASE o.phase \in {"scheduled", "joined"} -> NoEntry
    [] o.phase \in {"notified", "actionable-history", "join-pending"} ->
         BeginClose(o, reason, "")
    [] OTHER -> o

(* Mutant: the entry is deleted without closing its notification. *)
ReconcileRemovedWithoutClose(o, reason) ==
  IF o.phase \in {"joined", "close-pending"} THEN o ELSE NoEntry

(* reconcileRemoved.  Entries that are joined or already closing stay. *)
ReconcileRemoved(o, reason) ==
  CASE o.phase = "scheduled" -> NoEntry
    [] o.phase = "notify-pending" ->
         IF o.id = 0
           THEN NoEntry
           ELSE BeginClose([o EXCEPT !.notifyRevision = @ + 1], reason, "")
    [] o.phase \in {"notified", "actionable-history", "join-pending"} ->
         BeginClose(o, reason, "")
    [] OTHER -> o

(* The observations that come with a reason of their own; that of the       *)
(* others follows from why the event is excluded.                           *)
ReasonGiven == {"cancelled", "declined"}

(* Whether an observation counts: knownMeeting filters the exclusions.      *)
Counts(s, a, k, reason) ==
  \/ reason \in ReasonGiven
  \/ s.occurrences[k].phase # "absent" \/ k \in s.snapshots[a]

(* The part of reconcile about one key: what the poll lists comes first,    *)
(* then what it observed, unless the first ran out of revisions.            *)
ReconcileItem(s, a, k, item, at) ==
  LET o == s.occurrences[k]
      listed == ReconcileCurrent(o, item.meeting, at)
  IN
  CASE item.seen = "current" -> listed
    [] item.seen = "observed" -> ReconcileRemoved(o, item.reason)
    [] item.seen = "both" ->
         IF Counts(s, a, k, item.reason) /\ listed.notifyRevision =< MaxRevision
           THEN ReconcileRemoved(listed, item.reason) ELSE listed
    [] OTHER -> IF k \in s.snapshots[a]
                  THEN ReconcileRemoved(o, "deleted") ELSE o

KeysOf(a) == {k \in Keys : AccountOf[k] = a}

(* reconcile: poll is a function from the keys of account a to poll items. *)
Reconcile(s, a, poll, at) ==
  [s EXCEPT
     !.occurrences = [k \in Keys |->
        IF k \in KeysOf(a) THEN ReconcileItem(s, a, k, poll[k], at)
                           ELSE s.occurrences[k]],
     !.snapshots[a] = {k \in KeysOf(a) : poll[k].seen \in {"current", "both"}},
     !.health[a] = [lastError |-> "", needsAuth |-> FALSE, generation |-> 0]]

(* Mutant: the interval between warnings is not looked at. *)
WarningDueAtOnce(s, a, at) == ~Warned(s, a)

(* applyPollFailure *)
WarningDue(s, a, at) ==
  /\ ~Warned(s, a)
  /\ s.authWarnings[a] = 0 \/ s.authWarnings[a] + WarningInterval =< at

ApplyPollFailure(s, a, kind, gen, at) ==
  LET auth == kind = "authentication"
      failed == [lastError |-> kind, needsAuth |-> auth,
                 generation |-> IF auth THEN gen ELSE 0]
      revision == s.authWarningRevisions[a] + 1
  IN IF auth /\ WarningDue(s, a, at)
       THEN [s EXCEPT
               !.health[a] = failed,
               !.authWarningRevisions[a] = revision,
               !.pendingAuthWarnings[a] =
                  [revision |-> revision, createdAt |-> at,
                   notBefore |-> at, attempt |-> 0]]
       ELSE [s EXCEPT !.health[a] = failed]

-----------------------------------------------------------------------------
(* The other events (reducer.go, reducer_notifications.go) *)

(* Update entry k, if the guard holds for it. *)
Update(s, k, guard, new) ==
  IF guard THEN [s EXCEPT !.occurrences[k] = new] ELSE s

TickEvent(s, at) ==
  [s EXCEPT !.occurrences = [k \in Keys |-> Prune(s.occurrences[k], at)]]

(* announce: the session is eligible, or the check degraded or failed. *)
ActivityResultEvent(s, announce, at) ==
  [s EXCEPT !.occurrences = [k \in Keys |->
     LET o == s.occurrences[k] IN
     IF announce /\ o.phase = "scheduled" /\ Due(o.meeting, at)
       THEN [o EXCEPT !.phase = "notify-pending", !.notBefore = at,
                      !.notifyRevision = @ + 1]
       ELSE o]]

(* Mutant: the result is compared with the notify revision. *)
LaunchResultByNotifyRevision(s, k, revision, ok) ==
  LET o == s.occurrences[k] IN
  Update(s, k, o.phase = "join-pending" /\ o.notifyRevision = revision,
    IF ok
      THEN [o EXCEPT !.phase = "joined", !.joinedAt = TRUE, !.id = 0,
                     !.notifiedAt = FALSE, !.actionExpiresAt = 0,
                     !.joinRequestedAt = FALSE, !.resume = ""]
      ELSE [o EXCEPT !.phase = o.resume, !.joinRequestedAt = FALSE,
                     !.resume = ""])

LaunchResultEvent(s, k, revision, ok) ==
  LET o == s.occurrences[k] IN
  Update(s, k, o.phase = "join-pending" /\ o.joinRevision = revision,
    IF ok
      THEN [o EXCEPT !.phase = "joined", !.joinedAt = TRUE, !.id = 0,
                     !.notifiedAt = FALSE, !.actionExpiresAt = 0,
                     !.joinRequestedAt = FALSE, !.resume = ""]
      ELSE [o EXCEPT !.phase = o.resume, !.joinRequestedAt = FALSE,
                     !.resume = ""])

(* Where a finished close leads: back to the resume phase, or away.  The    *)
(* signal handler resumes any phase that is set and completeClose only      *)
(* these two, which are the only ones Validate lets a close resume.         *)
Closed(o) ==
  IF o.resume \in {"scheduled", "notify-pending"}
    THEN [o EXCEPT !.phase = o.resume, !.id = 0, !.notifiedAt = FALSE,
                   !.actionExpiresAt = 0, !.closeReason = "", !.resume = "",
                   !.notBefore = 0, !.attempt = 0]
    ELSE NoEntry

(* completeClose: CloseNotification(id) returned for key k; a result that   *)
(* names no notification (0) fits any.                                      *)
CompleteClose(s, k, id) ==
  LET o == s.occurrences[k] IN
  Update(s, k, o.phase = "close-pending" /\ id \in {0, o.id}, Closed(o))

(* Mutant: the revision of the delivery is not compared. *)
ApplyDeliveryAnyRevision(s, k, revision, id, at) ==
  LET o == s.occurrences[k] IN
  Update(s, k, o.phase = "notify-pending",
    [o EXCEPT !.phase = "notified", !.id = id, !.notifiedAt = TRUE,
              !.actionExpiresAt = at + ActionLifetime,
              !.notBefore = 0, !.attempt = 0])

(* applyDelivery: Notify returned id for revision of key k. *)
ApplyDelivery(s, k, revision, id, at) ==
  LET o == s.occurrences[k] IN
  Update(s, k, o.phase = "notify-pending" /\ o.notifyRevision = revision,
    [o EXCEPT !.phase = "notified", !.id = id, !.notifiedAt = TRUE,
              !.actionExpiresAt = at + ActionLifetime,
              !.notBefore = 0, !.attempt = 0])

ApplyWarningDelivery(s, a, revision, at) ==
  IF Warned(s, a) /\ s.pendingAuthWarnings[a].revision = revision
    THEN [s EXCEPT !.pendingAuthWarnings[a] = NoWarning,
                   !.authWarnings[a] = at]
    ELSE s

(* applyNotificationFailure: id is 0 for a failed Notify. *)
ApplyNotificationFailure(s, k, revision, id, at) ==
  LET o == s.occurrences[k]
      n == NextAttempt(o.attempt)
  IN IF o.phase = "close-pending"
       THEN Update(s, k, id # 0 /\ id = o.id,
              [o EXCEPT !.attempt = n, !.notBefore = CloseRetry(at, n, k)])
       ELSE Update(s, k,
              o.phase = "notify-pending" /\ o.notifyRevision = revision,
              [o EXCEPT !.attempt = n, !.notBefore = NextRetry(at, n)])

ApplyWarningFailure(s, a, revision, at) ==
  LET w == s.pendingAuthWarnings[a]
      n == NextAttempt(w.attempt)
  IN IF Warned(s, a) /\ w.revision = revision
       THEN [s EXCEPT !.pendingAuthWarnings[a].attempt = n,
                      !.pendingAuthWarnings[a].notBefore = NextRetry(at, n)]
       ELSE s

(* applySignal, ActionInvoked(id, "join").  hosts is the set of contents    *)
(* whose URL the policy accepts.                                            *)
JoinAllowed(o, at, hosts) ==
  /\ o.phase \in {"notified", "actionable-history"}
  /\ at < o.actionExpiresAt
  /\ o.meeting.content \in hosts
  /\ o.joinRevision < MaxRevision

HoldsID(s, k, id) == id # 0 /\ s.occurrences[k].id = id

JoinSignal(s, id, at, hosts) ==
  [s EXCEPT !.occurrences = [k \in Keys |->
     LET o == s.occurrences[k] IN
     IF HoldsID(s, k, id) /\ JoinAllowed(o, at, hosts)
       THEN [o EXCEPT !.phase = "join-pending", !.joinRequestedAt = TRUE,
                      !.joinRevision = @ + 1, !.resume = o.phase]
       ELSE o]]

(* applySignal, NotificationClosed(id) *)
ClosedSignal(s, id) ==
  [s EXCEPT !.occurrences = [k \in Keys |->
     LET o == s.occurrences[k] IN
     CASE HoldsID(s, k, id) /\ o.phase = "close-pending" -> Closed(o)
       [] HoldsID(s, k, id) /\ o.phase = "notified" ->
            [o EXCEPT !.phase = "actionable-history"]
       [] OTHER -> o]]

-----------------------------------------------------------------------------
(* The tail of reduceWithIndex, common to every event *)

(* Mutant: the counter is incremented without a check. *)
RevisionNeverExhausted(s) == FALSE

(* storage.NextRevision fails at math.MaxUint64.  The code refuses where it *)
(* takes the revision and the model at the end of the event: either way the *)
(* event is dropped as a whole.                                             *)
RevisionExhausted(s) ==
  \/ \E k \in Keys : s.occurrences[k].notifyRevision > MaxRevision
  \/ \E a \in Accounts : s.authWarningRevisions[a] > MaxRevision

Settle(s, at) ==
  [s EXCEPT !.occurrences =
     [k \in Keys |-> ExpireNotifyPending(s.occurrences[k], at)]]

(* reduceWithIndex returns an error, and the state unchanged, when this     *)
(* fails for the state the event's handler left.                            *)
Accepted(s, at) == ~RevisionExhausted(s) /\ Validate(Settle(s, at))

-----------------------------------------------------------------------------
(* Effects (scheduler.go) *)

(* orderedOccurrenceKeys: by start, then by key. *)
Before(s, j, k) ==
  LET sj == s.occurrences[j].meeting.start
      sk == s.occurrences[k].meeting.start
  IN sj < sk \/ (sj = sk /\ j =< k)

Oldest(s, K) == CHOOSE k \in K : \A j \in K : Before(s, k, j)

(* The keys oldestNotificationEffect can choose: a Notify or a Close whose  *)
(* retry time has come.                                                     *)
NotifyReady(o, at) ==
  o.phase = "notify-pending" /\ Due(o.meeting, at) /\ o.notBefore =< at

CloseReady(o, at) == o.phase = "close-pending" /\ o.notBefore =< at

NotificationKeys(s, at) ==
  {k \in Keys : \/ NotifyReady(s.occurrences[k], at)
                \/ CloseReady(s.occurrences[k], at)}

LaunchKeys(s) == {k \in Keys : s.occurrences[k].phase = "join-pending"}

(* oldestAuthWarningEffect: by creation time, then by label. *)
WarningAccounts(s, at) ==
  {a \in Accounts : Warned(s, a) /\ s.pendingAuthWarnings[a].notBefore =< at}

OldestWarning(s, at) ==
  LET created(a) == s.pendingAuthWarnings[a].createdAt IN
  CHOOSE a \in WarningAccounts(s, at) :
    \A b \in WarningAccounts(s, at) :
      created(a) < created(b) \/ (created(a) = created(b) /\ a =< b)

HasDue(s, at) ==
  \E k \in Keys : /\ s.occurrences[k].phase = "scheduled"
                  /\ Due(s.occurrences[k].meeting, at)
=============================================================================
