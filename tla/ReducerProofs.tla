--------------------------- MODULE ReducerProofs ---------------------------
(***************************************************************************)
(* Proofs about Reducer.tla, for every value of its constants: the state   *)
(* keeps its type, State.Validate never rejects a state the reducer built, *)
(* what a step may never do to an entry, and the refinement of             *)
(* OccurrencePhases.                                                       *)
(*                                                                         *)
(* IInv, the inductive invariant, is Sound (LifecycleProofs) with the      *)
(* widths of the counters, and CommitInv shows that the reducer's tail     *)
(* accepts a sound state.  The action properties and the refinement follow *)
(* from one fact on steps, NextEvolves: from a state of IInv every step    *)
(* moves every entry by at most one move of Evolves (LifecycleProofs).      *)
(***************************************************************************)
EXTENDS Reducer, LifecycleProofs

-----------------------------------------------------------------------------
(* The inductive invariant and the theorems *)

(* TypeOK is not inductive, and neither is NeverInvalid: see Sound. *)
IInv == TypeOK /\ Sound(state) /\ outcome # "invalid"

(* Events are never stamped with the zero time. *)
LEMMA TimesType ==
  ASSUME NEW at \in Times
  PROVE  at \in Nat /\ at # 0
  BY BoundsAssumption DEF Times

(* The tail of the reducer: a sound state is accepted or refused for its    *)
(* revisions, never for its validity.                                       *)
LEMMA CommitInv ==
  ASSUME IInv, NEW mid, Sound(mid), NEW at \in Times, Commit(mid, at)
  PROVE  IInv'
<1>1. at \in Nat
  BY TimesType
<1>2. Sound(Settle(mid, at))
  BY <1>1, SettleSound
<1>3. Validate(Settle(mid, at))
  BY <1>2, SoundValid
<1>4. outcome' \in {"ok", "exhausted"}
  BY <1>3 DEF Commit
<1>5. hosts' = hosts /\ now' = at
  BY DEF Commit
<1>6. Sound(state') /\ state' \in StateType /\ WidthsOK(state')
  <2>1. CASE RevisionExhausted(mid)
    <3>1. state' = state
      BY <2>1 DEF Commit, Accepted
    <3> QED  BY <3>1 DEF IInv, TypeOK
  <2>2. CASE ~RevisionExhausted(mid)
    <3>1. state' = Settle(mid, at)
      BY <1>3, <2>2 DEF Commit, Accepted
    <3>2. Fits(mid)
      BY <2>2, ExhaustedOrFits
    <3>3. Fits(Settle(mid, at))
      BY <1>1, <3>2, SettleFits
    <3>4. WidthsOK(Settle(mid, at))
      BY <1>2, <3>3, SoundWidths
    <3> QED  BY <1>2, <3>1, <3>4 DEF Sound
  <2> QED  BY <2>1, <2>2
<1>7. hosts' \in HostPolicies
  BY <1>5 DEF IInv, TypeOK
<1>8. TypeOK'
  BY <1>4, <1>5, <1>6, <1>7 DEF TypeOK
<1> QED  BY <1>4, <1>6, <1>8 DEF IInv

(* A restart preserves the inductive invariant. *)
LEMMA RestartInv ==
  ASSUME IInv, Restart
  PROVE  IInv'
<1>1. now' \in Nat /\ now' \in Times
  BY TimesType DEF Restart
<1>2. Sound(state) /\ WidthsOK(state)
  BY DEF IInv, TypeOK
<1>3. Fits(state)
  BY <1>2 DEF WidthsOK, Fits
<1>4. PICK s : s = NormalizeLegacy(state)
  OBVIOUS
<1>5. Sound(s) /\ Fits(s)
  BY <1>2, <1>3, <1>4, NormalizeSound
<1>6. Sound(Settle(s, now')) /\ Fits(Settle(s, now'))
  BY <1>1, <1>5, SettleSound, SettleFits
<1>7. state' = Settle(s, now') /\ hosts' \in HostPolicies /\ outcome' = "ok"
  BY <1>4 DEF Restart
<1>8. Sound(state') /\ WidthsOK(state')
  BY <1>6, <1>7, SoundWidths
<1>9. state' \in StateType
  BY <1>8 DEF Sound
<1>10. TypeOK'
  BY <1>1, <1>7, <1>8, <1>9 DEF TypeOK
<1> QED  BY <1>7, <1>8, <1>10 DEF IInv

(* Every event preserves the inductive invariant. *)
LEMMA NextInv ==
  ASSUME IInv, Next
  PROVE  IInv'
<1>0. Sound(state)
  BY DEF IInv
<1>1. CASE Tick
  BY <1>0, <1>1, TickSound, CommitInv, TimesType DEF Tick
<1>2. CASE Activity
  BY <1>0, <1>2, ActivitySound, CommitInv, TimesType DEF Activity
<1>3. CASE PollResult
  <2>1. PICK at \in Times, a \in Accounts : \E poll \in Polls(a) :
          Commit(Reconcile(state, a, poll, at), at)
    BY <1>3 DEF PollResult
  <2>2. PICK poll \in Polls(a) : Commit(Reconcile(state, a, poll, at), at)
    BY <2>1
  <2>3. \A k \in KeysOf(a) : GoodItem(poll[k])
    BY PollItemsAssumption DEF Polls, GoodItem
  <2>4. Sound(Reconcile(state, a, poll, at))
    BY <1>0, <2>3, ReconcileSound, TimesType
  <2> QED  BY <2>2, <2>4, CommitInv
<1>4. CASE PollFailure
  <2>1. PICK at \in Times, a \in Accounts, kind \in ErrorKinds,
             gen \in Generations :
          Commit(ApplyPollFailure(state, a, kind, gen, at), at)
    BY <1>4 DEF PollFailure
  <2>2. kind \in PollErrorKinds
    BY BoundsAssumption
  <2>3. Sound(ApplyPollFailure(state, a, kind, gen, at))
    BY <1>0, <2>2, PollFailureSound, TimesType
  <2> QED  BY <2>1, <2>3, CommitInv
<1>5. CASE Delivered
  <2>1. PICK at \in Times, k \in Keys, r \in Revisions,
             id \in NotificationIDs :
          /\ UnusedID(k, id)
          /\ Commit(ApplyDelivery(state, k, r, id, at), at)
    BY <1>5 DEF Delivered
  <2>2. id \in Nat /\ id # 0
    BY BoundsAssumption
  <2>3. \A j \in Keys \ {k} : state.occurrences[j].id # id
    BY <2>1 DEF UnusedID
  <2>4. Sound(ApplyDelivery(state, k, r, id, at))
    BY <1>0, <2>2, <2>3, DeliverySound, TimesType
  <2> QED  BY <2>1, <2>4, CommitInv
<1>6. CASE WarningDelivered
  BY <1>0, <1>6, WarningDeliverySound, CommitInv, TimesType
     DEF WarningDelivered
<1>7. CASE Failed
  BY <1>0, <1>7, FailureSound, CommitInv, TimesType DEF Failed
<1>8. CASE WarningFailed
  BY <1>0, <1>8, WarningFailureSound, CommitInv, TimesType DEF WarningFailed
<1>9. CASE CommandCompleted
  BY <1>0, <1>9, CompleteCloseSound, CommitInv, TimesType DEF CommandCompleted
<1>10. CASE ActionInvoked
  BY <1>0, <1>10, JoinSignalSound, CommitInv, TimesType DEF ActionInvoked
<1>11. CASE NotificationClosed
  BY <1>0, <1>11, ClosedSignalSound, CommitInv, TimesType
     DEF NotificationClosed
<1>12. CASE Launch
  BY <1>0, <1>12, LaunchSound, CommitInv, TimesType DEF Launch
<1>13. CASE Restart
  BY <1>13, RestartInv
<1> QED  BY <1>1, <1>2, <1>3, <1>4, <1>5, <1>6, <1>7, <1>8, <1>9, <1>10,
            <1>11, <1>12, <1>13 DEF Next

(* The inductive invariant holds of every behaviour of the reducer.         *)
LEMMA InvariantHolds == Spec => []IInv
<1>1. Init => IInv
  <2> SUFFICES ASSUME Init PROVE IInv
    OBVIOUS
  <2>1. Sound(state) /\ Fits(state)
    BY NewStateSound DEF Init
  <2>2. WidthsOK(state) /\ state \in StateType
    BY <2>1, SoundWidths DEF Sound
  <2> QED  BY <2>1, <2>2 DEF Init, IInv, TypeOK
<1>2. IInv /\ [Next]_vars => IInv'
  <2> SUFFICES ASSUME IInv, [Next]_vars PROVE IInv'
    OBVIOUS
  <2>1. CASE Next
    BY <2>1, NextInv
  <2>2. CASE UNCHANGED vars
    <3>1. /\ state' = state /\ hosts' = hosts
          /\ now' = now /\ outcome' = outcome
      BY <2>2 DEF vars
    <3> QED  BY <3>1 DEF IInv, TypeOK
  <2> QED  BY <2>1, <2>2
<1> QED  BY <1>1, <1>2, PTL DEF Spec

(* For any keys, accounts, calendars, retry tables and revision widths, the *)
(* reducer's state keeps its type: in particular no revision passes the end *)
(* of its counter and no attempt counter the end of the retry table         *)
(* (storage.NextRevision, retry.go).                                        *)
THEOREM TypeCorrect == Spec => []TypeOK
<1>1. IInv => TypeOK
  BY DEF IInv
<1> QED  BY <1>1, InvariantHolds, PTL

(* For any keys, accounts, calendars and orders of events, State.Validate   *)
(* accepts the state that the reducer builds, so the daemon never exits on  *)
(* a state of its own making, and State.NotificationIndex never meets two   *)
(* owners of one notification.                                              *)
THEOREM AlwaysValid == Spec => []NeverInvalid
<1>1. IInv => NeverInvalid
  BY SoundValid DEF IInv, NeverInvalid
<1> QED  BY <1>1, InvariantHolds, PTL

-----------------------------------------------------------------------------
(* Steps: what one event may do to an entry *)

(* A committed event moves every entry by at most one step of Evolves. *)
LEMMA CommitEvolves ==
  ASSUME IInv, NEW mid, Sound(mid), NEW at \in Times, Commit(mid, at),
         StateEvolves(state, mid, at, Nat)
  PROVE  StateEvolves(state, state', now', Nat)
<1>1. Sound(state) /\ now' = at
  BY DEF IInv, Commit
<1>2. state' \in {Settle(mid, at), state}
  BY DEF Commit
<1>3. StateEvolves(state, Settle(mid, at), at, Nat)
  BY <1>1, SettleEvolves
<1>4. StateEvolves(state, state, at, Nat)
  BY <1>1, SameStateEvolves
<1> QED  BY <1>1, <1>2, <1>3, <1>4

(* So does a restart. *)
LEMMA RestartEvolves ==
  ASSUME IInv, Restart
  PROVE  StateEvolves(state, state', now', Nat)
<1>1. Sound(state) /\ Fits(state)
  BY DEF IInv, TypeOK, WidthsOK, Fits
<1>2. PICK s : s = NormalizeLegacy(state)
  OBVIOUS
<1>3. Sound(s) /\ StateEvolves(state, s, now', Nat)
  BY <1>1, <1>2, NormalizeSound, NormalizeEvolves
<1>4. StateEvolves(state, Settle(s, now'), now', Nat)
  BY <1>1, <1>3, SettleEvolves
<1> QED  BY <1>2, <1>4 DEF Restart

(* Every step of the reducer moves every entry by at most one step.        *)
LEMMA NextEvolves ==
  ASSUME IInv, Next
  PROVE  StateEvolves(state, state', now', Nat)
<1>0. Sound(state)
  BY DEF IInv
<1>1. CASE Tick
  BY <1>0, <1>1, TickSound, TickEvolves, CommitEvolves, TimesType DEF Tick
<1>2. CASE Activity
  BY <1>0, <1>2, ActivitySound, ActivityEvolves, CommitEvolves, TimesType
     DEF Activity
<1>3. CASE PollResult
  <2>1. PICK at \in Times, a \in Accounts : \E poll \in Polls(a) :
          Commit(Reconcile(state, a, poll, at), at)
    BY <1>3 DEF PollResult
  <2>2. PICK poll \in Polls(a) : Commit(Reconcile(state, a, poll, at), at)
    BY <2>1
  <2>3. \A k \in KeysOf(a) : GoodItem(poll[k])
    BY PollItemsAssumption DEF Polls, GoodItem
  <2>4. /\ Sound(Reconcile(state, a, poll, at))
        /\ StateEvolves(state, Reconcile(state, a, poll, at), at, Nat)
    BY <1>0, <2>3, ReconcileSound, ReconcileEvolves, TimesType
  <2> QED  BY <2>2, <2>4, CommitEvolves
<1>4. CASE PollFailure
  <2>1. PICK at \in Times, a \in Accounts, kind \in ErrorKinds,
             gen \in Generations :
          Commit(ApplyPollFailure(state, a, kind, gen, at), at)
    BY <1>4 DEF PollFailure
  <2>2. kind \in PollErrorKinds
    BY BoundsAssumption
  <2>3. /\ Sound(ApplyPollFailure(state, a, kind, gen, at))
        /\ StateEvolves(state, ApplyPollFailure(state, a, kind, gen, at), at,
                        Nat)
    BY <1>0, <2>2, PollFailureSound, AccountEvolves, TimesType
  <2> QED  BY <2>1, <2>3, CommitEvolves
<1>5. CASE Delivered
  <2>1. PICK at \in Times, k \in Keys, r \in Revisions,
             id \in NotificationIDs :
          /\ UnusedID(k, id)
          /\ Commit(ApplyDelivery(state, k, r, id, at), at)
    BY <1>5 DEF Delivered
  <2>2. id \in Nat /\ id # 0
    BY BoundsAssumption
  <2>3. \A j \in Keys \ {k} : state.occurrences[j].id # id
    BY <2>1 DEF UnusedID
  <2>4. /\ Sound(ApplyDelivery(state, k, r, id, at))
        /\ StateEvolves(state, ApplyDelivery(state, k, r, id, at), at, Nat)
    BY <1>0, <2>2, <2>3, DeliverySound, DeliveryEvolves, TimesType
  <2> QED  BY <2>1, <2>4, CommitEvolves
<1>6. CASE WarningDelivered
  BY <1>0, <1>6, WarningDeliverySound, AccountEvolves, CommitEvolves,
     TimesType DEF WarningDelivered
<1>7. CASE Failed
  BY <1>0, <1>7, FailureSound, FailureEvolves, CommitEvolves, TimesType
     DEF Failed
<1>8. CASE WarningFailed
  BY <1>0, <1>8, WarningFailureSound, AccountEvolves, CommitEvolves,
     TimesType DEF WarningFailed
<1>9. CASE CommandCompleted
  BY <1>0, <1>9, CompleteCloseSound, CompleteCloseEvolves, CommitEvolves,
     TimesType DEF CommandCompleted
<1>10. CASE ActionInvoked
  BY <1>0, <1>10, JoinSignalSound, JoinSignalEvolves, CommitEvolves, TimesType
     DEF ActionInvoked
<1>11. CASE NotificationClosed
  BY <1>0, <1>11, ClosedSignalSound, ClosedSignalEvolves, CommitEvolves,
     TimesType DEF NotificationClosed
<1>12. CASE Launch
  BY <1>0, <1>12, LaunchSound, LaunchEvolves, CommitEvolves, TimesType
     DEF Launch
<1>13. CASE Restart
  BY <1>13, RestartEvolves
<1> QED  BY <1>1, <1>2, <1>3, <1>4, <1>5, <1>6, <1>7, <1>8, <1>9, <1>10,
            <1>11, <1>12, <1>13 DEF Next

(* A step seen from one entry. *)
LEMMA OccurrenceEvolves ==
  ASSUME IInv, Next, NEW k \in Keys
  PROVE  Evolves(Occurrence(k), Occurrence(k)', now', Nat)
  BY NextEvolves DEF StateEvolves, Occurrence

(* For any orders of events, restarts included: a meeting that was joined   *)
(* stays a tombstone until it has ended (expiry.go, PhaseJoined), so it is  *)
(* never announced a second time.                                           *)
THEOREM JoinedStays == Spec => JoinedUntilEnd
<1>1. IInv /\ [Next]_vars
        => [\A k \in Keys :
              Leaves(k, "joined") => MeetingExpired(Occurrence(k), now')]_vars
  BY OccurrenceEvolves DEF Evolves, Leaves
<1> QED  BY <1>1, InvariantHolds, PTL DEF Spec, JoinedUntilEnd

(* For any orders of events, restarts included: the revisions of an entry   *)
(* never go back, and each announcement and each click takes a new one, so  *)
(* that the result of an older command never passes for that of a newer.    *)
THEOREM RevisionsGrow == Spec => RevisionsAdvance
<1>1. IInv /\ [Next]_vars
        => [\A k \in Keys :
              LET o == Occurrence(k)  n == Occurrence(k)' IN
              o.phase # "absent" /\ n.phase # "absent" =>
                /\ n.notifyRevision >= o.notifyRevision
                /\ n.joinRevision >= o.joinRevision
                /\ (n.phase = "notify-pending" /\ o.phase # "notify-pending")
                     => n.notifyRevision > o.notifyRevision
                /\ (n.phase = "join-pending" /\ o.phase # "join-pending")
                     => n.joinRevision > o.joinRevision]_vars
  BY OccurrenceEvolves DEF Evolves, Advances
<1> QED  BY <1>1, InvariantHolds, PTL DEF Spec, RevisionsAdvance

-----------------------------------------------------------------------------
(* The refinement of OccurrencePhases *)

(* What Contract's variables stand for in this step. *)
LEMMA PhaseMap ==
  \A k \in Keys :
    /\ [j \in Keys |-> state.occurrences[j].phase][k] = Occurrence(k).phase
    /\ [j \in Keys |-> state.occurrences[j].id][k] = Occurrence(k).id
    /\ [j \in Keys |-> state'.occurrences[j].phase][k] = Occurrence(k)'.phase
    /\ [j \in Keys |-> state'.occurrences[j].id][k] = Occurrence(k)'.id
  BY DEF Occurrence

(* A move of Evolves is a step of the contract. *)
LEMMA ContractStep ==
  ASSUME IInv, Next, NEW k \in Keys
  PROVE  Contract!Step(k)
<1>1. PICK o, n : o = Occurrence(k) /\ n = Occurrence(k)'
  OBVIOUS
<1>2. Moves(o, n, Nat)
  BY <1>1, OccurrenceEvolves DEF Evolves
<1>3. /\ Contract!KeepID(k) <=> n.id = o.id
      /\ Contract!DropID(k) <=> n.id = 0
  BY <1>1, PhaseMap DEF Contract!KeepID, Contract!DropID
<1>4. CASE n.id = o.id /\ MovesOn(o, n)
  <2>1. CASE n.phase = o.phase
    BY <1>1, <1>3, <1>4, <2>1, PhaseMap DEF Contract!Step, Contract!Stay
  <2>2. CASE o.phase = "absent" /\ n.phase = "scheduled"
    BY <1>1, <1>3, <1>4, <2>2, PhaseMap
       DEF Contract!Step, Contract!Discover, Contract!Move
  <2>3. CASE o.phase = "scheduled" /\ n.phase = "notify-pending"
    BY <1>1, <1>3, <1>4, <2>3, PhaseMap
       DEF Contract!Step, Contract!Announce, Contract!Move
  <2>4. CASE o.phase = "notified" /\ n.phase = "actionable-history"
    BY <1>1, <1>3, <1>4, <2>4, PhaseMap
       DEF Contract!Step, Contract!Dismiss, Contract!Move
  <2>5. CASE o.phase \in Actionable /\ n.phase = "join-pending"
    BY <1>1, <1>3, <1>4, <2>5, PhaseMap
       DEF Contract!Step, Contract!Click, Contract!Move, Actionable
  <2>6. CASE o.phase = "join-pending" /\ n.phase \in Actionable
    BY <1>1, <1>3, <1>4, <2>6, PhaseMap
       DEF Contract!Step, Contract!LaunchFailed, Actionable
  <2>7. CASE o.phase \in Shown /\ n.phase = "notify-pending"
    BY <1>1, <1>3, <1>4, <2>7, PhaseMap
       DEF Contract!Step, Contract!Replace, Contract!Move, Shown, Actionable
  <2>8. CASE /\ o.phase \in Shown \cup {"notify-pending"} /\ o.id # 0
             /\ n.phase = "close-pending"
    BY <1>1, <1>3, <1>4, <2>8, PhaseMap
       DEF Contract!Step, Contract!Withdraw, Contract!Move, Shown, Actionable
  <2>9. CASE o.phase = "notify-pending" /\ o.id = 0 /\ n.phase = "scheduled"
    BY <1>1, <1>3, <1>4, <2>9, PhaseMap
       DEF Contract!Step, Contract!Postpone, Contract!Move
  <2> QED  BY <1>4, <2>1, <2>2, <2>3, <2>4, <2>5, <2>6, <2>7, <2>8, <2>9
              DEF MovesOn
<1>5. CASE n.id = 0 /\ MovesOff(o, n)
  <2>1. CASE o.phase = "join-pending" /\ n.phase = "joined"
    BY <1>1, <1>3, <1>5, <2>1, PhaseMap
       DEF Contract!Step, Contract!Launched, Contract!Move
  <2>2. CASE o.phase = "close-pending" /\ n.phase = "absent"
    BY <1>1, <1>3, <1>5, <2>2, PhaseMap
       DEF Contract!Step, Contract!Withdrawn, Contract!Move
  <2>3. CASE o.phase = "close-pending" /\ n.phase = "scheduled"
    BY <1>1, <1>3, <1>5, <2>3, PhaseMap
       DEF Contract!Step, Contract!Resumed, Contract!Move
  <2>4. CASE /\ o.phase \in {"scheduled", "joined", "notify-pending"}
             /\ o.id = 0 /\ n.phase = "absent"
    BY <1>1, <1>3, <1>5, <2>4, PhaseMap
       DEF Contract!Step, Contract!Forget, Contract!Move
  <2>5. CASE o.phase = "actionable-history" /\ n.phase = "absent"
    BY <1>1, <1>3, <1>5, <2>5, PhaseMap
       DEF Contract!Step, Contract!Forget, Contract!Move
  <2>6. CASE o.phase = "notify-pending" /\ o.id # 0 /\ n.phase = "absent"
    BY <1>1, <1>3, <1>5, <2>6, PhaseMap
       DEF Contract!Step, Contract!Abandon, Contract!Move
  <2> QED  BY <1>5, <2>1, <2>2, <2>3, <2>4, <2>5, <2>6 DEF MovesOff
<1>6. CASE /\ n.id \in Nat \ {0}
           /\ o.phase = "notify-pending" /\ n.phase = "notified"
  BY <1>1, <1>6, PhaseMap DEF Contract!Step, Contract!Deliver, Contract!Move
<1> QED  BY <1>2, <1>4, <1>5, <1>6 DEF Moves

(* For any keys, accounts, calendars and orders of events, restarts         *)
(* included: the reducer implements the lifecycle of OccurrencePhases.  In  *)
(* particular a notification that the user can see is only given up once it *)
(* is closed or the meeting joined, up to the exception named there.        *)
THEOREM ImplementsLifecycle == Spec => FollowsLifecycle
<1>1. Init => Contract!Init
  <2> SUFFICES ASSUME Init PROVE Contract!Init
    OBVIOUS
  <2>1. state.occurrences = [k \in Keys |-> NoEntry]
    BY DEF Init, NewState
  <2>2. NoEntry.phase = "absent" /\ NoEntry.id = 0
    BY DEF NoEntry
  <2>3. /\ [k \in Keys |-> state.occurrences[k].phase]
             = [k \in Keys |-> "absent"]
        /\ [k \in Keys |-> state.occurrences[k].id] = [k \in Keys |-> 0]
    BY <2>1, <2>2
  <2> QED  BY <2>3 DEF Contract!Init
<1>2. IInv /\ [Next]_vars => [Contract!Next]_Contract!vars
  <2>1. CASE Next
    BY <2>1, ContractStep DEF Contract!Next
  <2>2. CASE UNCHANGED vars
    BY <2>2 DEF vars, Contract!vars
  <2> QED  BY <2>1, <2>2
<1> QED  BY <1>1, <1>2, InvariantHolds, PTL DEF Spec, FollowsLifecycle,
            Contract!Spec
=============================================================================
