---------------------------- MODULE DaemonProofs ----------------------------
(***************************************************************************)
(* Proofs about Daemon.tla, for every value of its constants: the types of *)
(* the service, the one-place channels, the validation before each commit, *)
(* that no click opens a meeting twice, that the scheduler forgets         *)
(* nothing, that warnings keep their distance, that what is on screen is   *)
(* what Join would open, and that nothing stays on screen that the service *)
(* has lost.                                                               *)
(*                                                                         *)
(* The invariant IInv has four parts beside the types.  RuntimeOK: a busy  *)
(* flag of the runtime stands for one command in a slot or one result on   *)
(* its way, never both, and without the flag there is neither.  Sound: the *)
(* state is valid; no event of the reducer makes it invalid as long as the *)
(* ids it brings are fresh.  Claims: they are, for every id that the state *)
(* or a report under way holds was handed out by the server, and belongs   *)
(* to no other entry than the one its command is about.  Accounted: the    *)
(* opens so far, and the debt of opens to come (a launch in its slot, a    *)
(* join that waits for one), are paid for by clicks, or by a stop of the   *)
(* service that made the loop forget that a launch was under way.          *)
(*                                                                         *)
(* An event of the loop is split in two: the handler, which leaves a state *)
(* and a runtime for which Handled holds, and Loop.process, which settles, *)
(* saves and schedules and turns Handled into the invariant again.         *)
(*                                                                         *)
(* WInv, which the second part adds: what is ready has a busy worker in    *)
(* its way, or a tick under way that will look again (Awake); a busy       *)
(* worker has a command or a result that brings the next event (Covered);  *)
(* and results carry a time that is not ahead of the clock (Stamps), so    *)
(* that an event handled for a time gone by schedules all that was ready   *)
(* then, and wakes nothing else.  WarningsSafe: a warning that waits to be *)
(* shown was created an interval after the last one shown, and no time in  *)
(* the state lies ahead of the clock.                                      *)
(*                                                                         *)
(* The last part is about the screen.  It needs calls that keep up with    *)
(* the clock (Prompt) and meetings that end after they start               *)
(* (EndsAfterStart), and its second theorem a server that brings no id     *)
(* back (~ReusesID) too.                                                   *)
(*                                                                         *)
(* SInv: an entry whose action is open is shown as it is (OnScreen).  What *)
(* endangers that is a Notify for an entry that has moved on since.  The   *)
(* entry a command was made for still waits as it was (Fresh), or a poll   *)
(* took it to a later revision or away (Past), which the delivery is told  *)
(* by.  A poll could bring the old revision back; but an account that was  *)
(* polled since the last tick is not polled again before the next (Known), *)
(* and by then the command has been answered.                              *)
(*                                                                         *)
(* OInv: while there was no fault, what is on screen has an entry or a     *)
(* delivery on its way (Held).  An entry that lets go of its notification  *)
(* does so when that has left the screen: a signal or a report says so     *)
(* (Gone, Answered), or the entry was acted on (Good); one that waits for  *)
(* a Notify to replace its notification has it made before the next tick,  *)
(* which could expire it (Good again).  A delivery for an entry that has   *)
(* moved on changes nothing, as the state is settled (Serving), and is     *)
(* withdrawn.                                                              *)
(*                                                                         *)
(* An event is taken entry by entry: the lemmas named ...At say what it    *)
(* makes of one entry, and what follows forgets the reducer.               *)
(***************************************************************************)
EXTENDS Daemon, LifecycleProofs, WellFoundedInduction

-----------------------------------------------------------------------------
(* The choices of the scheduler *)

(* A set of numbers that is not empty has a smallest one. *)
LEMMA Smallest ==
  ASSUME NEW T, T \subseteq Nat, T # {}
  PROVE  \E x \in T : \A y \in T : x =< y
<1>1. PICK R : R = {ss \in Nat \X Nat : ss[1] < ss[2]}
  OBVIOUS
<1>2. OpToRel(<, Nat) = R
  BY <1>1 DEF OpToRel
<1>3. IsWellFoundedOn(R, Nat)
  BY <1>2, NatLessThanWellFounded
<1>4. PICK x \in T : \A y \in T : ~(<<y, x>> \in R)
  BY <1>3, WFMin
<1>5. ASSUME NEW y \in T PROVE x =< y
  <2>1. x \in Nat /\ y \in Nat
    OBVIOUS
  <2>2. y < x => <<y, x>> \in R
    BY <1>1, <2>1
  <2> QED  BY <1>4, <2>1, <2>2
<1> QED  BY <1>5

(* Ordered by a number and then by its own, so has a set of numbers. *)
LEMMA SmallestPair ==
  ASSUME NEW K, K \subseteq Nat, K # {}, NEW f, \A k \in K : f[k] \in Nat
  PROVE  \E k \in K : \A j \in K : f[k] < f[j] \/ (f[k] = f[j] /\ k =< j)
<1>1. PICK T : T = {f[k] : k \in K}
  OBVIOUS
<1>2. PICK x \in T : \A y \in T : x =< y
  BY <1>1, Smallest
<1>3. PICK M : M = {k \in K : f[k] = x}
  OBVIOUS
<1>4. PICK k \in M : \A j \in M : k =< j
  <2>1. M # {} /\ M \subseteq Nat
    BY <1>1, <1>3
  <2> QED  BY <2>1, Smallest
<1>5. ASSUME NEW j \in K
      PROVE  f[k] < f[j] \/ (f[k] = f[j] /\ k =< j)
  <2>1. f[j] \in T /\ f[k] = x /\ f[j] \in Nat /\ x \in Nat
    BY <1>1, <1>3
  <2>2. x =< f[j]
    BY <1>2, <2>1
  <2>3. f[j] = x => k =< j
    BY <1>3, <1>4
  <2> QED  BY <2>1, <2>2, <2>3
<1> QED  BY <1>3, <1>5

(* The oldest of some entries is one of them. *)
LEMMA OldestIn ==
  ASSUME NEW s, Sound(s), NEW K, K \subseteq Keys, K # {}
  PROVE  Oldest(s, K) \in K
<1>1. PICK f : f = [k \in K |-> s.occurrences[k].meeting.start]
  OBVIOUS
<1>2. \A k \in K : f[k] \in Nat
  <2> SUFFICES ASSUME NEW k \in K PROVE f[k] \in Nat
    OBVIOUS
  <2>1. s.occurrences[k] \in OccurrenceType
    <3>1. Legit(s.occurrences[k])
      BY DEF Sound
    <3> QED  BY <3>1, LegitType
  <2>2. s.occurrences[k].meeting \in Meetings \cup {NoMeeting}
    BY <2>1 DEF OccurrenceType
  <2>3. \A m \in MeetingType : m.start \in Nat
    BY DEF MeetingType
  <2>4. NoMeeting.start \in Nat
    BY DEF NoMeeting
  <2>5. s.occurrences[k].meeting.start \in Nat
    BY <2>2, <2>3, <2>4, MeetingsAssumption
  <2> QED  BY <1>1, <2>5
<1>3. K \subseteq Nat
  BY KeysAssumption
<1>4. \E k \in K : \A j \in K : f[k] < f[j] \/ (f[k] = f[j] /\ k =< j)
  BY <1>2, <1>3, SmallestPair
<1>5. \E k \in K : \A j \in K : Before(s, k, j)
  BY <1>1, <1>4 DEF Before
<1> QED  BY <1>5 DEF Oldest

(* So is the oldest warning. *)
LEMMA OldestWarningIn ==
  ASSUME NEW s, Sound(s), NEW at, WarningAccounts(s, at) # {}
  PROVE  OldestWarning(s, at) \in WarningAccounts(s, at)
<1>1. PICK K : K = WarningAccounts(s, at)
  OBVIOUS
<1>2. PICK f : f = [a \in K |-> s.pendingAuthWarnings[a].createdAt]
  OBVIOUS
<1>3. K \subseteq Accounts
  BY <1>1 DEF WarningAccounts
<1>4. \A a \in K : f[a] \in Nat
  BY <1>2, <1>3, AccountType DEF WarningType
<1>5. K \subseteq Nat
  BY <1>3, KeysAssumption
<1>6. \E a \in K : \A b \in K : f[a] < f[b] \/ (f[a] = f[b] /\ a =< b)
  BY <1>1, <1>4, <1>5, SmallestPair
<1> QED  BY <1>1, <1>2, <1>6 DEF OldestWarning

-----------------------------------------------------------------------------
(* The runtime *)

LaunchType ==
  [key: Keys \cup {0}, revision: Nat, meeting: Meetings \cup {NoMeeting}]

Listed == UNION {[KeysOf(a) -> PollItems] : a \in Accounts}
Listings == Listed \cup {<<>>}

PollResultType ==
  [at: Nat, kind: PollErrorKinds \cup {""}, items: Listings]

RuntimeType ==
  [tick: BOOLEAN, activityBusy: BOOLEAN, notifierBusy: BOOLEAN,
   launcherBusy: BOOLEAN, pollBusy: SUBSET Accounts, activityStale: BOOLEAN,
   retries: [Accounts -> [attempt: Nat, next: Nat]], activitySlot: BOOLEAN,
   activityResult: [at: Nat, announce: BOOLEAN], notifySlot: CommandType,
   notifyResult: NotifyResultType, launchSlot: LaunchType,
   launchResult: [launch: LaunchType, ok: BOOLEAN, at: Nat],
   pollSlot: SUBSET Accounts, pollResult: [Accounts -> PollResultType],
   full: BOOLEAN]

(* A worker that is not busy has nothing in its slot and no result on its   *)
(* way, and a busy one has one of the two at most.                          *)
ActivityOK(r) ==
  /\ r.activityBusy = FALSE =>
       r.activitySlot = FALSE /\ r.activityResult.at = 0
  /\ r.activitySlot = FALSE \/ r.activityResult.at = 0

(* The command a report is about is one that was given. *)
CommandOK(c) ==
  /\ c.kind \in {"notify", "close"} => c.key \in Keys
  /\ c.kind = "warning" => c.account \in Accounts /\ c.id = 0

ReportOK(e) ==
  /\ CommandOK(e.command)
  /\ e.event # "none" => e.command.kind # "none"
  /\ e.event = "completed" => e.command.kind = "close"
  /\ e.event = "delivered" => e.command.kind \in {"notify", "warning"}

NotifierOK(r) ==
  /\ r.notifierBusy = FALSE =>
       r.notifySlot = NoCommand /\ r.notifyResult = NoResult
  /\ r.notifySlot = NoCommand \/ r.notifyResult = NoResult
  /\ CommandOK(r.notifySlot)
  /\ ReportOK(r.notifyResult)

LauncherOK(r) ==
  /\ r.launcherBusy = FALSE =>
       r.launchSlot = NoLaunch /\ r.launchResult = NoLaunchResult
  /\ r.launchSlot = NoLaunch \/ r.launchResult = NoLaunchResult
  /\ r.launchSlot # NoLaunch => r.launchSlot.key \in Keys
  /\ r.launchResult.at # 0 => r.launchResult.launch.key \in Keys

PollOK(a, e) ==
  e.at # 0 =>
    \/ e.kind = "" /\ e.items \in [KeysOf(a) -> PollItems]
    \/ e.kind \in PollErrorKinds

PollsOK(r) ==
  /\ r.pollSlot \subseteq r.pollBusy
  /\ \A a \in Accounts : r.pollResult[a].at # 0 =>
       a \in r.pollBusy /\ a \notin r.pollSlot
  /\ \A a \in Accounts : PollOK(a, r.pollResult[a])

RuntimeOK(r) ==
  /\ r \in RuntimeType /\ r.full = FALSE
  /\ ActivityOK(r) /\ NotifierOK(r) /\ LauncherOK(r) /\ PollsOK(r)

SameActivity(r, n) ==
  /\ n.activityBusy = r.activityBusy /\ n.activitySlot = r.activitySlot
  /\ n.activityResult = r.activityResult

SameNotifier(r, n) ==
  /\ n.notifierBusy = r.notifierBusy /\ n.notifySlot = r.notifySlot
  /\ n.notifyResult = r.notifyResult

SameLauncher(r, n) ==
  /\ n.launcherBusy = r.launcherBusy /\ n.launchSlot = r.launchSlot
  /\ n.launchResult = r.launchResult

SamePolls(r, n) ==
  /\ n.pollBusy = r.pollBusy /\ n.pollSlot = r.pollSlot
  /\ n.pollResult = r.pollResult

LEMMA SameOK ==
  ASSUME NEW r, NEW n
  PROVE  /\ SameActivity(r, n) /\ ActivityOK(r) => ActivityOK(n)
         /\ SameNotifier(r, n) /\ NotifierOK(r) => NotifierOK(n)
         /\ SameLauncher(r, n) /\ LauncherOK(r) => LauncherOK(n)
         /\ SamePolls(r, n) /\ PollsOK(r) => PollsOK(n)
<1>1. SameActivity(r, n) /\ ActivityOK(r) => ActivityOK(n)
  BY DEF SameActivity, ActivityOK
<1>2. SameNotifier(r, n) /\ NotifierOK(r) => NotifierOK(n)
  BY DEF SameNotifier, NotifierOK
<1>3. SameLauncher(r, n) /\ LauncherOK(r) => LauncherOK(n)
  BY DEF SameLauncher, LauncherOK
<1>4. SamePolls(r, n) /\ PollsOK(r) => PollsOK(n)
  BY DEF SamePolls, PollsOK
<1> QED  BY <1>1, <1>2, <1>3, <1>4

LEMMA BootOK == RuntimeOK(Boot)
<1>1. NoCommand \in CommandType
  BY DEF NoCommand, CommandType
<1>2. NoResult \in NotifyResultType
  BY <1>1 DEF NoResult, NotifyResultType
<1>3. NoLaunch \in LaunchType
  BY DEF NoLaunch, LaunchType
<1>4. NoLaunchResult \in [launch: LaunchType, ok: BOOLEAN, at: Nat]
  BY <1>3 DEF NoLaunchResult
<1>5. NoPoll \in PollResultType
  <2>1. <<>> \in Listings
    BY DEF Listings
  <2> QED  BY <2>1 DEF NoPoll, PollResultType
<1>6. Boot \in RuntimeType
  BY <1>1, <1>2, <1>3, <1>4, <1>5 DEF Boot, RuntimeType
<1>7. /\ Boot.full = FALSE /\ Boot.activitySlot = FALSE
      /\ Boot.activityResult.at = 0
      /\ Boot.notifySlot = NoCommand /\ Boot.notifyResult = NoResult
      /\ Boot.launchSlot = NoLaunch /\ Boot.launchResult = NoLaunchResult
      /\ Boot.pollSlot = {} /\ \A a \in Accounts : Boot.pollResult[a] = NoPoll
  BY DEF Boot
<1>8. /\ NoPoll.at = 0 /\ NoLaunchResult.at = 0 /\ NoResult.event = "none"
      /\ NoResult.command = NoCommand /\ NoCommand.kind = "none"
  BY DEF NoPoll, NoLaunchResult, NoResult, NoCommand
<1>9. ActivityOK(Boot)
  BY <1>7 DEF ActivityOK
<1>10. NotifierOK(Boot)
  BY <1>7, <1>8 DEF NotifierOK, ReportOK, CommandOK
<1>11. LauncherOK(Boot)
  BY <1>7, <1>8 DEF LauncherOK
<1>12. PollsOK(Boot)
  BY <1>7, <1>8 DEF PollsOK, PollOK
<1> QED  BY <1>6, <1>7, <1>9, <1>10, <1>11, <1>12 DEF RuntimeOK

(* A check of the session is asked for. *)
LEMMA DispatchActivityOK ==
  ASSUME NEW r, RuntimeOK(r)
  PROVE  LET n == DispatchActivity(r) IN
         RuntimeOK(n) /\ SameNotifier(r, n) /\ SameLauncher(r, n)
<1>1. PICK n : n = DispatchActivity(r)
  OBVIOUS
<1>2. r \in RuntimeType
  BY DEF RuntimeOK
<1>3. CASE r.activityBusy = TRUE
  <2>1. n = r
    BY <1>1, <1>3 DEF DispatchActivity
  <2> QED  BY <1>1, <2>1 DEF SameNotifier, SameLauncher
<1>4. CASE r.activityBusy = FALSE
  <2>1. r.activitySlot = FALSE /\ r.activityResult.at = 0 /\ r.full = FALSE
    BY <1>4 DEF RuntimeOK, ActivityOK
  <2>2. n = [r EXCEPT !.activityBusy = TRUE, !.activityStale = FALSE,
                      !.activitySlot = TRUE, !.full = FALSE]
    BY <1>1, <1>2, <1>4, <2>1 DEF DispatchActivity, RuntimeType
  <2>3. n \in RuntimeType /\ n.full = FALSE
    BY <1>2, <2>2 DEF RuntimeType
  <2>4. SameNotifier(r, n) /\ SameLauncher(r, n) /\ SamePolls(r, n)
    BY <1>2, <2>2 DEF SameNotifier, SameLauncher, SamePolls, RuntimeType
  <2>5. n.activityBusy = TRUE /\ n.activityResult = r.activityResult
    BY <1>2, <2>2 DEF RuntimeType
  <2>6. ActivityOK(n)
    BY <2>1, <2>5 DEF ActivityOK
  <2> QED  BY <1>1, <2>3, <2>4, <2>6, SameOK DEF RuntimeOK
<1>5. r.activityBusy \in BOOLEAN
  BY <1>2 DEF RuntimeType
<1> QED  BY <1>3, <1>4, <1>5
(* A command is given to the notification client. *)
LEMMA DispatchNotifierOK ==
  ASSUME NEW r, RuntimeOK(r), NEW c \in CommandType, CommandOK(c),
         NEW n, n = DispatchNotifier(r, c)
  PROVE  /\ RuntimeOK(n) /\ SameActivity(r, n) /\ SameLauncher(r, n)
         /\ \/ SameNotifier(r, n)
            \/ n.notifySlot = c /\ n.notifyResult = NoResult
<1>1. r \in RuntimeType
  BY DEF RuntimeOK
<1>2. CASE r.notifierBusy = TRUE
  <2>1. n = r
    BY <1>2 DEF DispatchNotifier
  <2> QED  BY <2>1 DEF SameNotifier, SameLauncher, SameActivity
<1>3. CASE r.notifierBusy = FALSE
  <2>1. r.notifySlot = NoCommand /\ r.notifyResult = NoResult /\ r.full = FALSE
    BY <1>3 DEF RuntimeOK, NotifierOK
  <2>2. n = [r EXCEPT !.notifierBusy = TRUE, !.notifySlot = c, !.full = FALSE]
    BY <1>1, <1>3, <2>1 DEF DispatchNotifier, RuntimeType
  <2>3. n \in RuntimeType /\ n.full = FALSE
    BY <1>1, <2>2 DEF RuntimeType
  <2>4. SameActivity(r, n) /\ SameLauncher(r, n) /\ SamePolls(r, n)
    BY <1>1, <2>2 DEF SameActivity, SameLauncher, SamePolls, RuntimeType
  <2>5. n.notifierBusy = TRUE /\ n.notifySlot = c /\ n.notifyResult = NoResult
    BY <1>1, <2>1, <2>2 DEF RuntimeType
  <2>6. ReportOK(n.notifyResult)
    BY <2>1, <2>5 DEF RuntimeOK, NotifierOK
  <2>7. NotifierOK(n)
    BY <2>5, <2>6 DEF NotifierOK
  <2> QED  BY <2>3, <2>4, <2>5, <2>7, SameOK DEF RuntimeOK
<1>4. r.notifierBusy \in BOOLEAN
  BY <1>1 DEF RuntimeType
<1> QED  BY <1>2, <1>3, <1>4

(* A launch is given to the launcher. *)
LEMMA DispatchLaunchOK ==
  ASSUME NEW r, RuntimeOK(r), NEW l \in LaunchType, l.key \in Keys,
         NEW n, n = DispatchLaunch(r, l)
  PROVE  /\ RuntimeOK(n) /\ SameActivity(r, n) /\ SameNotifier(r, n)
         /\ \/ SameLauncher(r, n)
            \/ /\ r.launchSlot = NoLaunch /\ r.launchResult = NoLaunchResult
               /\ n.launchSlot = l /\ n.launchResult = NoLaunchResult
<1>1. r \in RuntimeType
  BY DEF RuntimeOK
<1>2. CASE r.launcherBusy = TRUE
  <2>1. n = r
    BY <1>2 DEF DispatchLaunch
  <2> QED  BY <2>1 DEF SameNotifier, SameLauncher, SameActivity
<1>3. CASE r.launcherBusy = FALSE
  <2>1. r.launchSlot = NoLaunch /\ r.launchResult = NoLaunchResult
        /\ r.full = FALSE
    BY <1>3 DEF RuntimeOK, LauncherOK
  <2>2. n = [r EXCEPT !.launcherBusy = TRUE, !.launchSlot = l, !.full = FALSE]
    BY <1>1, <1>3, <2>1 DEF DispatchLaunch, RuntimeType
  <2>3. n \in RuntimeType /\ n.full = FALSE
    BY <1>1, <2>2 DEF RuntimeType
  <2>4. SameActivity(r, n) /\ SameNotifier(r, n) /\ SamePolls(r, n)
    BY <1>1, <2>2 DEF SameActivity, SameNotifier, SamePolls, RuntimeType
  <2>5. n.launcherBusy = TRUE /\ n.launchSlot = l
        /\ n.launchResult = NoLaunchResult
    BY <1>1, <2>1, <2>2 DEF RuntimeType
  <2>6. LauncherOK(n)
    BY <2>5 DEF LauncherOK, NoLaunchResult
  <2> QED  BY <2>1, <2>3, <2>4, <2>5, <2>6, SameOK DEF RuntimeOK
<1>4. r.launcherBusy \in BOOLEAN
  BY <1>1 DEF RuntimeType
<1> QED  BY <1>2, <1>3, <1>4

(* The accounts that are ready are polled. *)
LEMMA SchedulePollsOK ==
  ASSUME NEW r, RuntimeOK(r), NEW at, NEW n, n = SchedulePolls(r, at)
  PROVE  RuntimeOK(n) /\ SameNotifier(r, n) /\ SameLauncher(r, n)
<1>1. r \in RuntimeType /\ r.full = FALSE
  BY DEF RuntimeOK
<1>2. PICK ready : ready = {a \in Accounts \ r.pollBusy : r.retries[a].next =< at}
  OBVIOUS
<1>3. ready \subseteq Accounts /\ ready \cap r.pollBusy = {}
  BY <1>2
<1>4. r.pollSlot \subseteq r.pollBusy
  BY DEF RuntimeOK, PollsOK
<1>5. ready \cap r.pollSlot = {}
  BY <1>3, <1>4
<1>6. n = [r EXCEPT !.pollBusy = @ \cup ready, !.pollSlot = @ \cup ready,
                    !.full = FALSE]
  <2>1. n = [r EXCEPT !.pollBusy = @ \cup ready, !.pollSlot = @ \cup ready,
                      !.full = @ \/ ready \cap r.pollSlot # {}]
    BY <1>2 DEF SchedulePolls
  <2>2. (r.full \/ ready \cap r.pollSlot # {}) = FALSE
    BY <1>1, <1>5
  <2> QED  BY <1>1, <2>1, <2>2 DEF RuntimeType
<1>7. /\ n.pollBusy = r.pollBusy \cup ready /\ n.pollSlot = r.pollSlot \cup ready
      /\ n.pollResult = r.pollResult
  BY <1>1, <1>6 DEF RuntimeType
<1>8. r.pollBusy \subseteq Accounts /\ r.pollSlot \subseteq Accounts
  BY <1>1 DEF RuntimeType
<1>9. n \in RuntimeType /\ n.full = FALSE
  BY <1>1, <1>3, <1>6, <1>8 DEF RuntimeType
<1>10. SameActivity(r, n) /\ SameLauncher(r, n) /\ SameNotifier(r, n)
  BY <1>1, <1>6 DEF SameActivity, SameLauncher, SameNotifier, RuntimeType
<1>11. PollsOK(n)
  BY <1>3, <1>4, <1>7 DEF RuntimeOK, PollsOK
<1> QED  BY <1>9, <1>10, <1>11, SameOK DEF RuntimeOK
-----------------------------------------------------------------------------
(* The effects of an event *)

(* No key but k holds notification id. *)
OnlyHolder(s, k, id) == \A j \in Keys \ {k} : s.occurrences[j].id # id

(* Every id the state or the client holds was handed out, and the one a     *)
(* Notify replaces or has brought belongs to no other entry.                *)
IDsBelow(s, next) ==
  0 < next /\ \A k \in Keys : s.occurrences[k].id < next

SlotClaim(s, c, next) ==
  c.kind = "notify" =>
    c.id < next /\ (c.id # 0 => OnlyHolder(s, c.key, c.id))

ReportClaim(s, e, next) ==
  e.event = "delivered" =>
    /\ e.id # 0 /\ e.id < next
    /\ e.command.kind = "notify" => OnlyHolder(s, e.command.key, e.id)

Claims(s, r, next) ==
  /\ IDsBelow(s, next)
  /\ SlotClaim(s, r.notifySlot, next)
  /\ ReportClaim(s, r.notifyResult, next)

(* The opens that are still to come: the one in the launcher's slot, and    *)
(* the one of a join that no launch, under way or reported, was made for.   *)
Opening(r, k) ==
  IF r.launchSlot # NoLaunch /\ r.launchSlot.key = k THEN 1 ELSE 0

LaunchOf(s, l, k) == l.key = k /\ l.revision = s.occurrences[k].joinRevision

Taken(s, r, k) ==
  LaunchOf(s, r.launchSlot, k) \/ LaunchOf(s, r.launchResult.launch, k)

Waiting(s, r, k) ==
  IF s.occurrences[k].phase = "join-pending" /\ ~Taken(s, r, k) THEN 1 ELSE 0

Debt(s, r, k) == Opening(r, k) + Waiting(s, r, k)

(* The fields of an entry that the scheduler copies. *)
LEMMA EntryFields ==
  ASSUME NEW s, Sound(s), NEW k \in Keys
  PROVE  LET o == s.occurrences[k] IN
         /\ o.id \in Nat /\ o.notifyRevision \in Nat /\ o.joinRevision \in Nat
         /\ o.meeting \in Meetings \cup {NoMeeting}
         /\ o.phase = "join-pending" => o.joinRevision # 0
<1>1. PICK o : o = s.occurrences[k]
  OBVIOUS
<1>2. Legit(o)
  BY <1>1 DEF Sound
<1>3. o \in OccurrenceType
  BY <1>2, LegitType
<1>4. /\ o.id \in Nat /\ o.notifyRevision \in Nat /\ o.joinRevision \in Nat
      /\ o.meeting \in Meetings \cup {NoMeeting}
  BY <1>3 DEF OccurrenceType
<1>5. o.phase = "join-pending" => o.joinRevision # 0
  BY <1>2, PresentValid DEF ValidOccurrence
<1> QED  BY <1>1, <1>4, <1>5

(* A warning command. *)
LEMMA WarningCommandOK ==
  ASSUME NEW s, Sound(s), NEW a \in Accounts, NEW c, c = WarningCommand(s, a)
  PROVE  c \in CommandType /\ CommandOK(c) /\ c.kind = "warning"
<1>1. s.pendingAuthWarnings[a].revision \in Nat
  BY AccountType DEF WarningType
<1>2. c = [kind |-> "warning", key |-> 0, account |-> a,
           revision |-> s.pendingAuthWarnings[a].revision, id |-> 0,
           meeting |-> NoMeeting]
  BY DEF WarningCommand, NoCommand
<1>3. c \in CommandType
  BY <1>1, <1>2 DEF CommandType
<1> QED  BY <1>2, <1>3 DEF CommandOK

(* A command about an entry. *)
LEMMA NotificationCommandOK ==
  ASSUME NEW s, Sound(s), NEW k \in Keys, NEW c, c = NotificationCommand(s, k)
  PROVE  /\ c \in CommandType /\ CommandOK(c) /\ c.kind \in {"notify", "close"}
         /\ c.key = k /\ c.id = s.occurrences[k].id
<1>1. PICK o : o = s.occurrences[k]
  OBVIOUS
<1>2. /\ o.id \in Nat /\ o.notifyRevision \in Nat
      /\ o.meeting \in Meetings \cup {NoMeeting}
  BY <1>1, EntryFields
<1>3. CASE o.phase = "notify-pending"
  <2>1. c = [NoCommand EXCEPT !.kind = "notify", !.key = k, !.id = o.id,
               !.revision = o.notifyRevision, !.meeting = o.meeting]
    BY <1>1, <1>3 DEF NotificationCommand
  <2>2. c = [kind |-> "notify", key |-> k, account |-> 0,
             revision |-> o.notifyRevision, id |-> o.id, meeting |-> o.meeting]
    BY <2>1 DEF NoCommand
  <2>3. c \in CommandType
    BY <1>2, <2>2 DEF CommandType
  <2> QED  BY <1>1, <2>2, <2>3 DEF CommandOK
<1>4. CASE o.phase # "notify-pending"
  <2>1. c = [NoCommand EXCEPT !.kind = "close", !.key = k, !.id = o.id]
    BY <1>1, <1>4 DEF NotificationCommand
  <2>2. c = [kind |-> "close", key |-> k, account |-> 0, revision |-> 0,
             id |-> o.id, meeting |-> NoMeeting]
    BY <2>1 DEF NoCommand
  <2>3. c \in CommandType
    BY <1>2, <2>2 DEF CommandType
  <2> QED  BY <1>1, <2>2, <2>3 DEF CommandOK
<1> QED  BY <1>3, <1>4

(* The next command of an event. *)
LEMMA NextNotificationOK ==
  ASSUME NEW s, Sound(s), NEW at, NEW created, created \subseteq Accounts,
         NEW c, c = NextNotification(s, at, created)
  PROVE  /\ c \in CommandType /\ CommandOK(c)
         /\ c.kind = "notify" =>
              c.key \in Keys /\ c.id = s.occurrences[c.key].id
         /\ \/ c.kind # "none"
            \/ NotificationKeys(s, at) = {} /\ WarningAccounts(s, at) = {}
<1>1. CASE created # {}
  <2>1. PICK a : a = CHOOSE b \in created : TRUE
    OBVIOUS
  <2>2. a \in Accounts
    BY <1>1, <2>1
  <2>3. c = WarningCommand(s, a)
    BY <1>1, <2>1, Zenon DEF NextNotification
  <2> QED  BY <2>2, <2>3, WarningCommandOK
<1>2. CASE created = {} /\ NotificationKeys(s, at) # {}
  <2>1. PICK k : k = Oldest(s, NotificationKeys(s, at))
    OBVIOUS
  <2>2. k \in Keys
    <3>1. NotificationKeys(s, at) \subseteq Keys
      BY DEF NotificationKeys
    <3> QED  BY <1>2, <2>1, <3>1, OldestIn
  <2>3. c = NotificationCommand(s, k)
    BY <1>2, <2>1, Zenon DEF NextNotification
  <2> QED  BY <2>2, <2>3, NotificationCommandOK
<1>3. CASE created = {} /\ NotificationKeys(s, at) = {}
           /\ WarningAccounts(s, at) # {}
  <2>1. PICK a : a = OldestWarning(s, at)
    OBVIOUS
  <2>2. a \in Accounts
    BY <1>3, <2>1, OldestWarningIn DEF WarningAccounts
  <2>3. c = WarningCommand(s, a)
    BY <1>3, <2>1, Zenon DEF NextNotification
  <2> QED  BY <2>2, <2>3, WarningCommandOK
<1>4. CASE created = {} /\ NotificationKeys(s, at) = {}
           /\ WarningAccounts(s, at) = {}
  <2>1. c = NoCommand
    BY <1>4, Zenon DEF NextNotification
  <2> QED  BY <1>4, <2>1 DEF NoCommand, CommandType, CommandOK
<1> QED  BY <1>1, <1>2, <1>3, <1>4

(* The next launch, when there is one. *)
LEMMA NextLaunchOK ==
  ASSUME NEW s, Sound(s), LaunchKeys(s) # {}, NEW l, l = NextLaunch(s)
  PROVE  /\ l \in LaunchType /\ l.key \in Keys
         /\ s.occurrences[l.key].phase = "join-pending"
         /\ LaunchOf(s, l, l.key)
<1>1. PICK k : k = Oldest(s, LaunchKeys(s))
  OBVIOUS
<1>2. k \in LaunchKeys(s)
  <2>1. LaunchKeys(s) \subseteq Keys
    BY DEF LaunchKeys
  <2> QED  BY <1>1, <2>1, OldestIn
<1>3. k \in Keys /\ s.occurrences[k].phase = "join-pending"
  BY <1>2 DEF LaunchKeys
<1>4. l = [key |-> k, revision |-> s.occurrences[k].joinRevision,
           meeting |-> s.occurrences[k].meeting]
  BY <1>1 DEF NextLaunch
<1>5. l.key = k /\ l.revision = s.occurrences[k].joinRevision
  BY <1>4
<1>6. l \in LaunchType
  BY <1>3, <1>4, EntryFields DEF LaunchType
<1> QED  BY <1>3, <1>5, <1>6 DEF LaunchOf
(* The debt depends on the launcher's part of the runtime only. *)
LEMMA SameDebt ==
  ASSUME NEW s, NEW r, NEW n, SameLauncher(r, n), NEW k
  PROVE  Debt(s, n, k) = Debt(s, r, k)
  BY DEF SameLauncher, Debt, Opening, Waiting, Taken

LEMMA DebtType ==
  ASSUME NEW s, NEW r, NEW k
  PROVE  /\ Opening(r, k) \in 0..1 /\ Waiting(s, r, k) \in 0..1
         /\ Debt(s, r, k) \in Nat
<1>1. Opening(r, k) \in 0..1
  BY DEF Opening
<1>2. Waiting(s, r, k) \in 0..1
  BY DEF Waiting
<1> QED  BY <1>1, <1>2 DEF Debt

(* A launch that is given to an idle launcher was waited for. *)
LEMMA LaunchDebt ==
  ASSUME NEW s, Sound(s), NEW r, NEW l, NEW n,
         r.launchSlot = NoLaunch, r.launchResult = NoLaunchResult,
         n.launchSlot = l,
         l.key \in Keys, s.occurrences[l.key].phase = "join-pending",
         LaunchOf(s, l, l.key), NEW k \in Keys
  PROVE  Debt(s, n, k) =< Debt(s, r, k)
<1>1. Opening(r, k) = 0
  BY DEF Opening
<1>2. s.occurrences[k].phase = "join-pending" => ~Taken(s, r, k)
  BY EntryFields DEF Taken, LaunchOf, NoLaunchResult, NoLaunch
<1>3. CASE k = l.key
  <2>1. Waiting(s, r, k) = 1
    BY <1>2, <1>3 DEF Waiting
  <2>2. Waiting(s, n, k) = 0
    BY <1>3 DEF Waiting, Taken
  <2> QED  BY <1>1, <2>1, <2>2, DebtType DEF Debt
<1>4. CASE k # l.key
  <2>1. Opening(n, k) = 0
    BY <1>4 DEF Opening
  <2>2. Waiting(s, n, k) =< Waiting(s, r, k)
    BY <1>2 DEF Waiting
  <2> QED  BY <1>1, <2>1, <2>2, DebtType DEF Debt
<1> QED  BY <1>3, <1>4

(* After the effects of an event the runtime is sound, what the client      *)
(* holds is its own, and no open was added to those to come.                *)
LEMMA ScheduleDurableOK ==
  ASSUME NEW s, Sound(s), NEW r, RuntimeOK(r), NEW next, Claims(s, r, next),
         NEW at, NEW created, created \subseteq Accounts,
         NEW n, n = ScheduleDurable(r, s, at, created)
  PROVE  /\ RuntimeOK(n) /\ Claims(s, n, next)
         /\ \A k \in Keys : Debt(s, n, k) =< Debt(s, r, k)
<1>1. PICK r1 : r1 = IF HasDue(s, at) /\ r.activityStale
                       THEN DispatchActivity(r) ELSE r
  OBVIOUS
<1>2. PICK c : c = NextNotification(s, at, created)
  OBVIOUS
<1>3. PICK r2 : r2 = IF c # NoCommand THEN DispatchNotifier(r1, c) ELSE r1
  OBVIOUS
<1>4. n = IF LaunchKeys(s) # {} THEN DispatchLaunch(r2, NextLaunch(s)) ELSE r2
  BY <1>1, <1>2, <1>3 DEF ScheduleDurable
<1>5. RuntimeOK(r1) /\ SameNotifier(r, r1) /\ SameLauncher(r, r1)
  BY <1>1, DispatchActivityOK DEF SameNotifier, SameLauncher
<1>6. /\ c \in CommandType /\ CommandOK(c)
      /\ c.kind = "notify" =>
           c.key \in Keys /\ c.id = s.occurrences[c.key].id
  BY <1>2, NextNotificationOK
<1>7. /\ RuntimeOK(r2) /\ SameLauncher(r1, r2)
      /\ \/ SameNotifier(r1, r2)
         \/ r2.notifySlot = c /\ r2.notifyResult = NoResult
  <2>1. CASE c # NoCommand
    BY <1>3, <1>5, <1>6, <2>1, DispatchNotifierOK
  <2>2. CASE c = NoCommand
    BY <1>3, <1>5, <2>2 DEF SameNotifier, SameLauncher
  <2> QED  BY <2>1, <2>2
<1>8. IDsBelow(s, next)
  BY DEF Claims
<1>9. SlotClaim(s, r2.notifySlot, next) /\ ReportClaim(s, r2.notifyResult, next)
  <2>1. CASE SameNotifier(r1, r2)
    BY <1>5, <2>1 DEF SameNotifier, Claims
  <2>2. CASE r2.notifySlot = c /\ r2.notifyResult = NoResult
    <3>1. ReportClaim(s, r2.notifyResult, next)
      BY <2>2 DEF ReportClaim, NoResult
    <3>2. SlotClaim(s, c, next)
      <4> SUFFICES ASSUME c.kind = "notify"
                   PROVE  c.id < next /\ (c.id # 0 => OnlyHolder(s, c.key, c.id))
        BY DEF SlotClaim
      <4>1. c.key \in Keys /\ c.id = s.occurrences[c.key].id
        BY <1>6
      <4>2. DistinctIDs(s)
        BY DEF Sound
      <4> QED  BY <1>8, <4>1, <4>2 DEF IDsBelow, OnlyHolder, DistinctIDs
    <3> QED  BY <2>2, <3>1, <3>2
  <2> QED  BY <1>7, <2>1, <2>2
<1>10. ASSUME NEW k \in Keys PROVE Debt(s, r2, k) = Debt(s, r, k)
  <2>1. Debt(s, r2, k) = Debt(s, r1, k)
    BY <1>7, SameDebt
  <2>2. Debt(s, r1, k) = Debt(s, r, k)
    BY <1>5, SameDebt
  <2> QED  BY <2>1, <2>2
<1>11. CASE LaunchKeys(s) = {}
  <2>1. n = r2
    BY <1>4, <1>11
  <2>2. Claims(s, n, next)
    BY <1>8, <1>9, <2>1 DEF Claims
  <2>3. ASSUME NEW k \in Keys PROVE Debt(s, n, k) =< Debt(s, r, k)
    BY <1>10, <2>1, DebtType
  <2> QED  BY <1>7, <2>1, <2>2, <2>3
<1>12. CASE LaunchKeys(s) # {}
  <2>1. PICK l : l = NextLaunch(s)
    OBVIOUS
  <2>2. /\ l \in LaunchType /\ l.key \in Keys
        /\ s.occurrences[l.key].phase = "join-pending"
        /\ LaunchOf(s, l, l.key)
    BY <1>12, <2>1, NextLaunchOK
  <2>3. n = DispatchLaunch(r2, l)
    BY <1>4, <1>12, <2>1
  <2>4. /\ RuntimeOK(n) /\ SameNotifier(r2, n)
        /\ \/ SameLauncher(r2, n)
           \/ /\ r2.launchSlot = NoLaunch /\ r2.launchResult = NoLaunchResult
              /\ n.launchSlot = l /\ n.launchResult = NoLaunchResult
    BY <1>7, <2>2, <2>3, DispatchLaunchOK
  <2>5. Claims(s, n, next)
    BY <1>8, <1>9, <2>4 DEF Claims, SameNotifier
  <2>6. ASSUME NEW k \in Keys PROVE Debt(s, n, k) =< Debt(s, r2, k)
    <3>1. CASE SameLauncher(r2, n)
      BY <3>1, SameDebt, DebtType
    <3>2. CASE /\ r2.launchSlot = NoLaunch /\ r2.launchResult = NoLaunchResult
               /\ n.launchSlot = l
      BY <2>2, <3>2, LaunchDebt
    <3> QED  BY <2>4, <3>1, <3>2
  <2> QED  BY <1>10, <2>4, <2>5, <2>6
<1> QED  BY <1>11, <1>12
-----------------------------------------------------------------------------
(* The inductive invariant *)

Accounted ==
  \A k \in Keys : opens[k] + Debt(state, rt, k) =< clicks[k] + stops

IInv ==
  /\ TypeOK /\ Sound(state)
  /\ RuntimeOK(rt)
  /\ Claims(state, rt, server.next)
  /\ up = FALSE => rt.launchSlot = NoLaunch /\ rt.launchResult = NoLaunchResult
  /\ exit \notin {"rejected", "slot-full"}
  /\ Accounted

(* What holds of the state mid that a handler leaves and of the runtime r   *)
(* with which it goes on.                                                   *)
Handled(mid, at, r) ==
  /\ Sound(mid) /\ at \in Nat
  /\ RuntimeOK(r) /\ Claims(mid, r, server.next)
  /\ r.launchSlot = rt.launchSlot
  /\ \A k \in Keys :
       /\ state.occurrences[k].phase = "join-pending"
       /\ mid.occurrences[k].phase = "join-pending"
       => /\ mid.occurrences[k].joinRevision = state.occurrences[k].joinRevision
          /\ Taken(state, rt, k) => Taken(state, r, k)

(* The invariant after a step that leaves most of the service alone. *)
LEMMA InvParts ==
  ASSUME IInv, clock' \in 1..MaxTime, up' \in BOOLEAN,
         Sound(state'), WidthsOK(state'),
         exit' \in {"", "crash", "save", "exhausted", "stale-delivery"},
         RuntimeOK(rt'), Claims(state', rt', server'.next),
         up' = FALSE => rt'.launchSlot = NoLaunch
                        /\ rt'.launchResult = NoLaunchResult,
         server' \in [shown: [IDs -> {"no", "yes", "history"}],
                      meeting: [IDs -> Meetings \cup {NoMeeting}],
                      key: [IDs -> Keys \cup {0}], next: Nat],
         opens' \in [Keys -> Nat], clicks' \in [Keys -> Nat],
         faults' \in 0..MaxFaults, stops' \in Nat,
         Accounted'
  PROVE  IInv'
<1>1. state' \in StateType
  BY DEF Sound
<1>2. rt'.notifySlot \in CommandType /\ rt'.notifyResult \in NotifyResultType
  BY DEF RuntimeOK, RuntimeType
<1>3. TypeOK'
  BY <1>1, <1>2 DEF TypeOK, IDs
<1> QED  BY <1>3 DEF IInv

(* The service stops. *)
LEMMA StopOK ==
  ASSUME IInv, NEW reason \in {"crash", "save", "exhausted", "stale-delivery"},
         Stop(reason), Sound(state'), WidthsOK(state'),
         IDsBelow(state', server.next),
         server' \in [shown: [IDs -> {"no", "yes", "history"}],
                      meeting: [IDs -> Meetings \cup {NoMeeting}],
                      key: [IDs -> Keys \cup {0}], next: Nat],
         server'.next = server.next,
         clock' = clock, opens' = opens, clicks' = clicks,
         faults' \in 0..MaxFaults
  PROVE  IInv'
<1>1. up' = FALSE /\ exit' = reason /\ rt' = Boot /\ stops' = stops + 1
  BY DEF Stop
<1>2. clock \in 1..MaxTime /\ stops \in Nat
      /\ opens \in [Keys -> Nat] /\ clicks \in [Keys -> Nat]
  BY DEF IInv, TypeOK
<1>3. /\ Boot.launchSlot = NoLaunch /\ Boot.launchResult = NoLaunchResult
      /\ Boot.notifySlot = NoCommand /\ Boot.notifyResult = NoResult
  BY DEF Boot
<1>4. Claims(state', Boot, server.next)
  BY <1>3 DEF Claims, SlotClaim, ReportClaim, NoCommand, NoResult
<1>5. ASSUME NEW k \in Keys
      PROVE  opens'[k] + Debt(state', rt', k) =< clicks'[k] + stops'
  <2>1. Opening(Boot, k) = 0
    BY <1>3 DEF Opening
  <2>2. PICK w \in 0..1 : w = Waiting(state', Boot, k)
    BY DebtType
  <2>3. Debt(state', rt', k) = w
    BY <1>1, <2>1, <2>2 DEF Debt
  <2>4. PICK d \in Nat : d = Debt(state, rt, k)
    BY DebtType
  <2>5. opens[k] + d =< clicks[k] + stops
    BY <2>4 DEF IInv, Accounted
  <2>6. opens[k] \in Nat /\ clicks[k] \in Nat
    BY <1>2
  <2> QED  BY <1>1, <1>2, <2>2, <2>3, <2>5, <2>6
<1>6. Accounted'
  BY <1>5 DEF Accounted
<1>7. RuntimeOK(rt') /\ Claims(state', rt', server'.next)
      /\ rt'.launchSlot = NoLaunch /\ rt'.launchResult = NoLaunchResult
  BY <1>1, <1>3, <1>4, BootOK
<1>8. clock' \in 1..MaxTime /\ up' \in BOOLEAN
  BY <1>1, <1>2
<1>9. stops' \in Nat
  BY <1>1, <1>2
<1>10. exit' \in {"", "crash", "save", "exhausted", "stale-delivery"}
  BY <1>1
<1>11. opens' \in [Keys -> Nat] /\ clicks' \in [Keys -> Nat]
  BY <1>2
<1> QED  BY <1>6, <1>7, <1>8, <1>9, <1>10, <1>11, InvParts
-----------------------------------------------------------------------------
(* Loop.process *)

(* The tail of the reducer takes no id, and leaves a waiting join alone. *)
LEMMA SettleEntries ==
  ASSUME NEW t, Sound(t), NEW at \in Nat, NEW k \in Keys
  PROVE  LET n == Settle(t, at).occurrences[k] IN
         /\ n.id \in {0, t.occurrences[k].id}
         /\ n.phase = "join-pending" => n = t.occurrences[k]
<1>1. PICK o : o = t.occurrences[k]
  OBVIOUS
<1>2. Legit(o)
  BY <1>1 DEF Sound
<1>3. t \in StateType
  BY DEF Sound
<1>4. Settle(t, at).occurrences[k] = ExpireNotifyPending(o, at)
  BY <1>1, <1>3 DEF Settle, StateType
<1>5. ExpireNotifyPending(o, at).id \in {0, o.id}
  BY <1>2, ExpireKeeps DEF Keeps
<1>6. BeginClose(o, "expired", "").phase = "close-pending"
      /\ NoEntry.phase = "absent"
  <2>1. o \in OccurrenceType
    BY <1>2, LegitType
  <2> QED  BY <2>1 DEF BeginClose, NoEntry, OccurrenceType
<1>7. ExpireNotifyPending(o, at).phase = "join-pending"
        => ExpireNotifyPending(o, at) = o
  BY <1>6 DEF ExpireNotifyPending
<1> QED  BY <1>1, <1>4, <1>5, <1>7

(* Claims outlive an event that gives no entry an id. *)
LEMMA ClaimsKept ==
  ASSUME NEW s, NEW t, NEW r, NEW next, Claims(s, r, next),
         \A k \in Keys : t.occurrences[k].id \in {0, s.occurrences[k].id}
  PROVE  Claims(t, r, next)
<1>1. IDsBelow(t, next)
  BY DEF Claims, IDsBelow
<1>2. ASSUME NEW k, NEW id, id # 0, OnlyHolder(s, k, id)
      PROVE  OnlyHolder(t, k, id)
  BY <1>2 DEF OnlyHolder
<1>3. SlotClaim(t, r.notifySlot, next)
  BY <1>2 DEF Claims, SlotClaim
<1>4. ReportClaim(t, r.notifyResult, next)
  BY <1>2 DEF Claims, ReportClaim
<1> QED  BY <1>1, <1>3, <1>4 DEF Claims

(* After a commit. *)
LEMMA AfterCommitOK ==
  ASSUME NEW next, Sound(next), NEW r, RuntimeOK(r), NEW i, Claims(next, r, i),
         NEW at, NEW kind, NEW q, q = AfterCommit(r, next, at, kind)
  PROVE  /\ RuntimeOK(q) /\ Claims(next, q, i)
         /\ \A k \in Keys : Debt(next, q, k) =< Debt(next, r, k)
<1>1. PICK r1 : r1 = CASE kind = "tick" -> SchedulePolls(r, at)
                      [] kind \notin {"tick", "activity"} /\ next # state ->
                           [r EXCEPT !.activityStale = TRUE]
                      [] OTHER -> r
  OBVIOUS
<1>2. q = ScheduleDurable(r1, next, at, Created(next))
  BY <1>1, Zenon DEF AfterCommit
<1>3. \/ r1 = SchedulePolls(r, at)
      \/ r1 = [r EXCEPT !.activityStale = TRUE]
      \/ r1 = r
  BY <1>1, Zenon
<1>4. r \in RuntimeType
  BY DEF RuntimeOK
<1>5. RuntimeOK(r1) /\ SameNotifier(r, r1) /\ SameLauncher(r, r1)
  <2>1. CASE r1 = SchedulePolls(r, at)
    BY <2>1, SchedulePollsOK
  <2>2. CASE r1 = [r EXCEPT !.activityStale = TRUE]
    <3>1. r1 \in RuntimeType /\ r1.full = r.full
      BY <1>4, <2>2 DEF RuntimeType
    <3>2. SameActivity(r, r1) /\ SameNotifier(r, r1) /\ SameLauncher(r, r1)
          /\ SamePolls(r, r1)
      BY <1>4, <2>2 DEF SameActivity, SameNotifier, SameLauncher, SamePolls,
                        RuntimeType
    <3> QED  BY <3>1, <3>2, SameOK DEF RuntimeOK
  <2>3. CASE r1 = r
    BY <2>3 DEF SameNotifier, SameLauncher
  <2> QED  BY <1>3, <2>1, <2>2, <2>3
<1>6. Claims(next, r1, i)
  BY <1>5 DEF Claims, SameNotifier
<1>7. Created(next) \subseteq Accounts
  BY DEF Created
<1>8. /\ RuntimeOK(q) /\ Claims(next, q, i)
      /\ \A k \in Keys : Debt(next, q, k) =< Debt(next, r1, k)
  BY <1>2, <1>5, <1>6, <1>7, ScheduleDurableOK
<1> QED  BY <1>5, <1>8, SameDebt

(* What the loop saves. *)
LEMMA SavedOK ==
  ASSUME IInv, NEW mid, NEW at, NEW r, Handled(mid, at, r),
         NEW next, next = Settle(mid, at)
  PROVE  /\ Sound(next) /\ Validate(next)
         /\ ~RevisionExhausted(mid) => WidthsOK(next)
         /\ Claims(next, r, server.next)
<1>1. Sound(mid) /\ at \in Nat /\ Claims(mid, r, server.next)
  BY DEF Handled
<1>2. Sound(next) /\ Validate(next)
  BY <1>1, SettleSound, SoundValid
<1>3. ASSUME ~RevisionExhausted(mid) PROVE WidthsOK(next)
  <2>1. Fits(mid)
    BY <1>1, <1>3, ExhaustedOrFits
  <2>2. Fits(next)
    BY <1>1, <2>1, SettleFits
  <2> QED  BY <1>2, <2>2, SoundWidths
<1>4. \A k \in Keys : next.occurrences[k].id \in {0, mid.occurrences[k].id}
  BY <1>1, SettleEntries
<1>5. Claims(next, r, server.next)
  BY <1>1, <1>4, ClaimsKept
<1> QED  BY <1>2, <1>3, <1>5

(* Whatever is opened later was clicked. *)
LEMMA ClicksPay ==
  ASSUME IInv, NEW mid, NEW at, NEW r, Handled(mid, at, r),
         NEW next, next = Settle(mid, at), NEW k \in Keys
  PROVE  Debt(next, r, k)
           =< Debt(state, rt, k) + IF NewClick(next, k) THEN 1 ELSE 0
<1>1. Sound(mid) /\ at \in Nat /\ r.launchSlot = rt.launchSlot
  BY DEF Handled
<1>2. Opening(r, k) = Opening(rt, k)
  BY <1>1 DEF Opening
<1>3. next.occurrences[k].phase = "join-pending"
        => next.occurrences[k] = mid.occurrences[k]
  BY <1>1, SettleEntries
<1>4. CASE next.occurrences[k].phase # "join-pending"
  <2>1. Waiting(next, r, k) = 0 /\ ~NewClick(next, k)
    BY <1>4 DEF Waiting, NewClick
  <2> QED  BY <1>2, <2>1, DebtType DEF Debt
<1>5. CASE next.occurrences[k].phase = "join-pending"
           /\ state.occurrences[k].phase # "join-pending"
  <2>1. NewClick(next, k)
    BY <1>5 DEF NewClick
  <2> QED  BY <1>2, <2>1, DebtType DEF Debt
<1>6. CASE next.occurrences[k].phase = "join-pending"
           /\ state.occurrences[k].phase = "join-pending"
  <2>1. /\ next.occurrences[k].joinRevision = state.occurrences[k].joinRevision
        /\ Taken(state, rt, k) => Taken(state, r, k)
    BY <1>3, <1>6 DEF Handled
  <2>2. Taken(state, r, k) => Taken(next, r, k)
    BY <2>1 DEF Taken, LaunchOf
  <2>3. Waiting(next, r, k) =< Waiting(state, rt, k)
    BY <1>6, <2>1, <2>2 DEF Waiting
  <2> QED  BY <1>2, <2>3, DebtType DEF Debt
<1> QED  BY <1>4, <1>5, <1>6
(* The server's part of the type invariant. *)
ServerType ==
  [shown: [IDs -> {"no", "yes", "history"}],
   meeting: [IDs -> Meetings \cup {NoMeeting}],
   key: [IDs -> Keys \cup {0}], next: Nat]

LEMMA CommittedOK ==
  ASSUME IInv, up, NEW mid, NEW at, NEW r, Handled(mid, at, r),
         NEW next, next = Settle(mid, at), ~RevisionExhausted(mid),
         NEW kind, NEW rest, Committed(next, at, kind, r, rest),
         clock' = clock, opens' = opens, server' = server
  PROVE  IInv'
<1>1. /\ Sound(next) /\ WidthsOK(next)
      /\ RuntimeOK(r) /\ Claims(next, r, server.next)
  BY SavedOK DEF Handled
<1>2. PICK q : q = AfterCommit(r, next, at, kind)
  OBVIOUS
<1>3. /\ RuntimeOK(q) /\ Claims(next, q, server.next)
      /\ \A k \in Keys : Debt(next, q, k) =< Debt(next, r, k)
  BY <1>1, <1>2, AfterCommitOK
<1>4. q.full = FALSE
  BY <1>3 DEF RuntimeOK
<1>5. /\ state' = next /\ rt' = q
      /\ up' = up /\ exit' = exit /\ stops' = stops /\ faults' = faults
      /\ clicks' = [k \in Keys |-> clicks[k]
                                     + IF NewClick(next, k) THEN 1 ELSE 0]
  BY <1>2, <1>4 DEF Committed
<1>6. /\ clock \in 1..MaxTime /\ up = TRUE /\ server \in ServerType
      /\ opens \in [Keys -> Nat] /\ clicks \in [Keys -> Nat]
      /\ faults \in 0..MaxFaults /\ stops \in Nat
      /\ exit \in {"", "crash", "save", "exhausted", "stale-delivery"}
  BY DEF IInv, TypeOK, ServerType
<1>7. clicks' \in [Keys -> Nat]
  <2>1. ASSUME NEW k \in Keys
        PROVE  clicks[k] + (IF NewClick(next, k) THEN 1 ELSE 0) \in Nat
    <3>1. clicks[k] \in Nat
      BY <1>6
    <3> QED  BY <3>1
  <2> QED  BY <1>5, <2>1
<1>8. ASSUME NEW k \in Keys
      PROVE  opens'[k] + Debt(state', rt', k) =< clicks'[k] + stops'
  <2>1. PICK c : c = IF NewClick(next, k) THEN 1 ELSE 0
    OBVIOUS
  <2>2. c \in Nat /\ clicks'[k] = clicks[k] + c
    BY <1>5, <2>1
  <2>3. PICK d0, d1, d2 : /\ d0 = Debt(state, rt, k) /\ d1 = Debt(next, r, k)
                          /\ d2 = Debt(next, q, k)
    OBVIOUS
  <2>4. d0 \in Nat /\ d1 \in Nat /\ d2 \in Nat
    BY <2>3, DebtType
  <2>5. d1 =< d0 + c
    BY <2>1, <2>3, ClicksPay
  <2>6. d2 =< d1
    BY <1>3, <2>3
  <2>7. opens[k] + d0 =< clicks[k] + stops
    BY <2>3 DEF IInv, Accounted
  <2>8. opens[k] \in Nat /\ clicks[k] \in Nat /\ stops \in Nat
    BY <1>6
  <2>9. opens[k] + d2 =< clicks[k] + c + stops
    BY <2>2, <2>4, <2>5, <2>6, <2>7, <2>8
  <2>10. opens'[k] = opens[k] /\ Debt(state', rt', k) = d2 /\ stops' = stops
    BY <1>5, <2>3
  <2> QED  BY <2>2, <2>9, <2>10
<1>9. Accounted'
  BY <1>8 DEF Accounted
<1>10. /\ Sound(state') /\ WidthsOK(state') /\ RuntimeOK(rt')
       /\ Claims(state', rt', server'.next)
  BY <1>1, <1>3, <1>5
<1>11. /\ clock' \in 1..MaxTime /\ up' = TRUE
       /\ opens' \in [Keys -> Nat] /\ faults' \in 0..MaxFaults /\ stops' \in Nat
       /\ server' \in ServerType
       /\ exit' \in {"", "crash", "save", "exhausted", "stale-delivery"}
  BY <1>5, <1>6
<1> QED  BY <1>7, <1>9, <1>10, <1>11, InvParts DEF ServerType

(* A fault is counted. *)
LEMMA FaultType ==
  ASSUME IInv
  PROVE  /\ Fault => faults' \in 0..MaxFaults
         /\ faults' = faults => faults' \in 0..MaxFaults
<1>1. faults \in 0..MaxFaults /\ MaxFaults \in Nat
  BY BoundsAssumption DEF IInv, TypeOK
<1> QED  BY <1>1 DEF Fault

(* The save fails: the state is the old one or the new one. *)
LEMMA SaveFailedOK ==
  ASSUME IInv, NEW mid, NEW at, NEW r, Handled(mid, at, r),
         NEW next, next = Settle(mid, at), ~RevisionExhausted(mid),
         NEW kind, SaveFailed(next, kind),
         clock' = clock, opens' = opens,
         server' \in ServerType, server'.next = server.next
  PROVE  IInv'
<1>1. Sound(next) /\ WidthsOK(next) /\ Claims(next, r, server.next)
  BY SavedOK
<1>2. Sound(state) /\ WidthsOK(state) /\ IDsBelow(state, server.next)
  BY DEF IInv, TypeOK, Claims
<1>3. /\ Stop("save") /\ clicks' = clicks /\ state' \in {state, next}
      /\ faults' \in 0..MaxFaults
  BY FaultType DEF SaveFailed
<1>4. Sound(state') /\ WidthsOK(state') /\ IDsBelow(state', server.next)
  BY <1>1, <1>2, <1>3 DEF Claims
<1> QED  BY <1>3, <1>4, StopOK DEF ServerType

(* The reducer refuses the event: for its revisions. *)
LEMMA RejectedOK ==
  ASSUME IInv, NEW mid, NEW at, NEW r, Handled(mid, at, r),
         ~Accepted(mid, at), Rejected(mid),
         clock' = clock, opens' = opens, server' = server
  PROVE  IInv'
<1>1. Validate(Settle(mid, at))
  BY SavedOK
<1>2. RevisionExhausted(mid)
  BY <1>1 DEF Accepted
<1>3. Stop("exhausted") /\ state' = state /\ clicks' = clicks
      /\ faults' = faults
  BY <1>2 DEF Rejected
<1>4. Sound(state) /\ WidthsOK(state) /\ IDsBelow(state, server.next)
      /\ server \in ServerType
  BY DEF IInv, TypeOK, Claims, ServerType
<1>5. faults' \in 0..MaxFaults
  BY <1>3, FaultType
<1>6. Sound(state') /\ WidthsOK(state') /\ IDsBelow(state', server.next)
  BY <1>3, <1>4
<1> QED  BY <1>3, <1>4, <1>5, <1>6, StopOK DEF ServerType

(* Every event but a delivery. *)
LEMMA ProcessOK ==
  ASSUME IInv, NEW mid, NEW at, NEW r, Handled(mid, at, r),
         NEW kind, NEW rest, Process(mid, at, kind, r, rest)
  PROVE  IInv'
<1>1. PICK next : next = Settle(mid, at)
  OBVIOUS
<1>2. up /\ clock' = clock /\ server' = server /\ opens' = opens
  BY DEF Process
<1>3. \/ Accepted(mid, at) /\ Committed(next, at, kind, r, rest)
      \/ Accepted(mid, at) /\ SaveFailed(next, kind)
      \/ ~Accepted(mid, at) /\ Rejected(mid)
  BY <1>1 DEF Process
<1>4. Accepted(mid, at) => ~RevisionExhausted(mid)
  BY DEF Accepted
<1>5. server' \in ServerType /\ server'.next = server.next
  BY <1>2 DEF IInv, TypeOK, ServerType
<1>6. CASE Accepted(mid, at) /\ Committed(next, at, kind, r, rest)
  BY <1>1, <1>2, <1>4, <1>6, CommittedOK
<1>7. CASE Accepted(mid, at) /\ SaveFailed(next, kind)
  BY <1>1, <1>2, <1>4, <1>5, <1>7, SaveFailedOK
<1>8. CASE ~Accepted(mid, at) /\ Rejected(mid)
  BY <1>2, <1>8, RejectedOK
<1> QED  BY <1>3, <1>6, <1>7, <1>8

(* A notification is withdrawn. *)
LEMMA WithdrawType ==
  ASSUME IInv, NEW id
  PROVE  Withdraw(id) \in ServerType /\ Withdraw(id).next = server.next
<1>1. server \in ServerType
  BY DEF IInv, TypeOK, ServerType
<1>2. server.shown \in [IDs -> {"no", "yes", "history"}]
  BY <1>1 DEF ServerType
<1>3. [server.shown EXCEPT ![id] = "no"] \in [IDs -> {"no", "yes", "history"}]
  BY <1>2
<1> QED  BY <1>1, <1>3 DEF Withdraw, ServerType

(* A delivery. *)
LEMMA ProcessDeliveryOK ==
  ASSUME IInv, NEW mid, NEW at, NEW r, Handled(mid, at, r),
         NEW id, ProcessDelivery(mid, at, id, r)
  PROVE  IInv'
<1>1. PICK next : next = Settle(mid, at)
  OBVIOUS
<1>2. up /\ clock' = clock /\ opens' = opens
  BY DEF ProcessDelivery
<1>3. \/ /\ Accepted(mid, at) /\ server' = server
         /\ Committed(next, at, "notification", r, signals)
      \/ /\ Accepted(mid, at) /\ SaveFailed(next, "notification")
         /\ Compensated(id)
      \/ /\ Stop("stale-delivery") /\ state' = state /\ clicks' = clicks
         /\ \/ server' = Withdraw(id) /\ faults' = faults
            \/ Fault /\ server' = server
      \/ ~Accepted(mid, at) /\ Rejected(mid) /\ server' = server
  BY <1>1 DEF ProcessDelivery
<1>4. Accepted(mid, at) => ~RevisionExhausted(mid)
  BY DEF Accepted
<1>5. server' = server \/ server' = Withdraw(id)
      => server' \in ServerType /\ server'.next = server.next
  <2>1. server \in ServerType
    BY DEF IInv, TypeOK, ServerType
  <2> QED  BY <2>1, WithdrawType
<1>6. CASE /\ Accepted(mid, at) /\ server' = server
           /\ Committed(next, at, "notification", r, signals)
  BY <1>1, <1>2, <1>4, <1>6, CommittedOK
<1>7. CASE /\ Accepted(mid, at) /\ SaveFailed(next, "notification")
           /\ Compensated(id)
  <2>1. server' = server \/ server' = Withdraw(id)
    BY <1>7 DEF Compensated
  <2> QED  BY <1>1, <1>2, <1>4, <1>5, <1>7, <2>1, SaveFailedOK
<1>8. CASE /\ Stop("stale-delivery") /\ state' = state /\ clicks' = clicks
           /\ \/ server' = Withdraw(id) /\ faults' = faults
              \/ Fault /\ server' = server
  <2>1. /\ server' = server \/ server' = Withdraw(id)
        /\ faults' \in 0..MaxFaults
    BY <1>8, FaultType
  <2>2. Sound(state') /\ WidthsOK(state') /\ IDsBelow(state', server.next)
    BY <1>8 DEF IInv, TypeOK, Claims
  <2> QED  BY <1>2, <1>5, <1>8, <2>1, <2>2, StopOK DEF ServerType
<1>9. CASE ~Accepted(mid, at) /\ Rejected(mid) /\ server' = server
  BY <1>2, <1>9, RejectedOK
<1> QED  BY <1>3, <1>6, <1>7, <1>8, <1>9
-----------------------------------------------------------------------------
(* The events *)

(* A waiting join keeps its revision, and a launch made for it stays one.   *)
LEMMA JoinsKept ==
  ASSUME NEW mid, NEW at, NEW ids, StateEvolves(state, mid, at, ids),
         NEW r, SameLauncher(rt, r), NEW k \in Keys,
         state.occurrences[k].phase = "join-pending",
         mid.occurrences[k].phase = "join-pending"
  PROVE  /\ mid.occurrences[k].joinRevision = state.occurrences[k].joinRevision
         /\ Taken(state, rt, k) => Taken(state, r, k)
<1>1. mid.occurrences[k].joinRevision = state.occurrences[k].joinRevision
  BY DEF StateEvolves, Evolves, Advances
<1> QED  BY <1>1 DEF Taken, SameLauncher

(* An event that gives no entry an id. *)
LEMMA QuietHandled ==
  ASSUME IInv, NEW mid, Sound(mid), NEW at \in Nat,
         StateEvolves(state, mid, at, {}),
         NEW r, RuntimeOK(r), SameLauncher(rt, r),
         \/ SameNotifier(rt, r)
         \/ r.notifySlot = NoCommand /\ r.notifyResult = NoResult
  PROVE  Handled(mid, at, r)
<1>1. Claims(state, rt, server.next)
  BY DEF IInv
<1>2. Claims(state, r, server.next)
  <2>1. CASE SameNotifier(rt, r)
    BY <1>1, <2>1 DEF Claims, SameNotifier
  <2>2. CASE r.notifySlot = NoCommand /\ r.notifyResult = NoResult
    BY <1>1, <2>2 DEF Claims, SlotClaim, ReportClaim, NoCommand, NoResult
  <2> QED  BY <2>1, <2>2
<1>3. ASSUME NEW k \in Keys
      PROVE  mid.occurrences[k].id \in {0, state.occurrences[k].id}
  BY DEF StateEvolves, Evolves, Moves
<1>4. Claims(mid, r, server.next)
  BY <1>2, <1>3, ClaimsKept
<1>5. r.launchSlot = rt.launchSlot
  BY DEF SameLauncher
<1> QED  BY <1>4, <1>5, JoinsKept DEF Handled

LEMMA Times ==
  ASSUME IInv
  PROVE  /\ clock \in Nat /\ rt.activityResult.at \in Nat
         /\ rt.launchResult.at \in Nat
         /\ \A a \in Accounts : rt.pollResult[a].at \in Nat
<1>1. rt \in RuntimeType
  BY DEF IInv, RuntimeOK
<1>2. clock \in Nat
  <2>1. clock \in 1..MaxTime /\ MaxTime \in Nat
    BY BoundsAssumption DEF IInv, TypeOK
  <2> QED  BY <2>1
<1>3. ASSUME NEW a \in Accounts PROVE rt.pollResult[a].at \in Nat
  <2>1. rt.pollResult[a] \in PollResultType
    BY <1>1 DEF RuntimeType
  <2> QED  BY <2>1 DEF PollResultType
<1>4. rt.activityResult.at \in Nat
  BY <1>1 DEF RuntimeType
<1>5. rt.launchResult.at \in Nat
  BY <1>1 DEF RuntimeType
<1> QED  BY <1>2, <1>3, <1>4, <1>5

(* The tick. *)
LEMMA TickHandled ==
  ASSUME IInv, HandleTick, NEW mid, mid = TickEvent(state, clock),
         NEW r, r = [rt EXCEPT !.tick = FALSE, !.activityStale = TRUE]
  PROVE  Handled(mid, clock, r) /\ Process(mid, clock, "tick", r, signals)
<1>1. mid = TickEvent(state, clock)
  OBVIOUS
<1>2. r = [rt EXCEPT !.tick = FALSE, !.activityStale = TRUE]
  OBVIOUS
<1>3. Sound(state) /\ RuntimeOK(rt) /\ rt \in RuntimeType /\ clock \in Nat
  BY Times DEF IInv, RuntimeOK
<1>4. Sound(mid) /\ StateEvolves(state, mid, clock, {})
  BY <1>1, <1>3, TickSound, TickEvolves
<1>5. r \in RuntimeType /\ r.full = rt.full
  BY <1>2, <1>3 DEF RuntimeType
<1>6. SameActivity(rt, r) /\ SameNotifier(rt, r) /\ SameLauncher(rt, r)
      /\ SamePolls(rt, r)
  BY <1>2, <1>3 DEF SameActivity, SameNotifier, SameLauncher, SamePolls,
                    RuntimeType
<1>7. RuntimeOK(r)
  BY <1>3, <1>5, <1>6, SameOK DEF RuntimeOK
<1>8. Handled(mid, clock, r)
  BY <1>3, <1>4, <1>6, <1>7, QuietHandled
<1>9. Process(mid, clock, "tick", r, signals)
  BY <1>1, <1>2 DEF HandleTick
<1> QED  BY <1>8, <1>9

LEMMA TickOK ==
  ASSUME IInv, HandleTick
  PROVE  IInv'
<1>1. PICK mid : mid = TickEvent(state, clock)
  OBVIOUS
<1>2. PICK r : r = [rt EXCEPT !.tick = FALSE, !.activityStale = TRUE]
  OBVIOUS
<1> QED  BY <1>1, <1>2, TickHandled, ProcessOK

(* A report of the activity worker. *)
LEMMA ActivityHandled ==
  ASSUME IInv, HandleActivity, NEW e, e = rt.activityResult,
         NEW mid, mid = ActivityResultEvent(state, e.announce, e.at),
         NEW r, r = [rt EXCEPT !.activityBusy = FALSE,
                               !.activityResult = Boot.activityResult]
  PROVE  Handled(mid, e.at, r) /\ Process(mid, e.at, "activity", r, signals)
<1>1. e = rt.activityResult
  OBVIOUS
<1>2. mid = ActivityResultEvent(state, e.announce, e.at)
  OBVIOUS
<1>3. r = [rt EXCEPT !.activityBusy = FALSE,
                     !.activityResult = Boot.activityResult]
  OBVIOUS
<1>4. Sound(state) /\ RuntimeOK(rt) /\ rt \in RuntimeType /\ e.at \in Nat
  BY <1>1, Times DEF IInv, RuntimeOK
<1>5. e.announce \in BOOLEAN
  BY <1>1, <1>4 DEF RuntimeType
<1>6. Sound(mid) /\ StateEvolves(state, mid, e.at, {})
  BY <1>2, <1>4, <1>5, ActivitySound, ActivityEvolves
<1>7. PICK b \in [at: Nat, announce: BOOLEAN] :
        b = Boot.activityResult /\ b.at = 0
  <2>1. Boot.activityResult = [at |-> 0, announce |-> FALSE]
    BY DEF Boot
  <2>2. PICK b : b = [at |-> 0, announce |-> FALSE]
    OBVIOUS
  <2>3. b \in [at: Nat, announce: BOOLEAN] /\ b.at = 0
    BY <2>2
  <2> QED  BY <2>1, <2>2, <2>3
<1>8. r \in RuntimeType /\ r.full = rt.full
  <2>1. r = [rt EXCEPT !.activityBusy = FALSE, !.activityResult = b]
    BY <1>3, <1>7
  <2> QED  BY <1>4, <2>1 DEF RuntimeType
<1>9. SameNotifier(rt, r) /\ SameLauncher(rt, r) /\ SamePolls(rt, r)
  BY <1>3, <1>4 DEF SameNotifier, SameLauncher, SamePolls, RuntimeType
<1>10. ActivityOK(r)
  <2>1. e.at # 0
    BY <1>1 DEF HandleActivity
  <2>2. rt.activitySlot = FALSE
    BY <1>1, <1>4, <2>1 DEF RuntimeOK, ActivityOK
  <2>3. r.activitySlot = FALSE /\ r.activityResult.at = 0
    BY <1>3, <1>4, <1>7, <2>2 DEF RuntimeType
  <2> QED  BY <2>3 DEF ActivityOK
<1>11. RuntimeOK(r)
  BY <1>4, <1>8, <1>9, <1>10, SameOK DEF RuntimeOK
<1>12. Handled(mid, e.at, r)
  BY <1>4, <1>6, <1>9, <1>11, QuietHandled
<1>13. Process(mid, e.at, "activity", r, signals)
  BY <1>1, <1>2, <1>3 DEF HandleActivity
<1> QED  BY <1>12, <1>13

LEMMA ActivityResultOK ==
  ASSUME IInv, HandleActivity
  PROVE  IInv'
<1>1. PICK e : e = rt.activityResult
  OBVIOUS
<1>2. PICK mid : mid = ActivityResultEvent(state, e.announce, e.at)
  OBVIOUS
<1>3. PICK r : r = [rt EXCEPT !.activityBusy = FALSE,
                              !.activityResult = Boot.activityResult]
  OBVIOUS
<1> QED  BY <1>1, <1>2, <1>3, ActivityHandled, ProcessOK

(* A report of the launcher: the entry it was made for does not wait any    *)
(* more.                                                                    *)
LEMMA LaunchHandled ==
  ASSUME IInv, HandleLaunch, NEW e, e = rt.launchResult,
         NEW key, NEW revision,
         key = e.launch.key, revision = e.launch.revision,
         NEW mid, mid = LaunchResultEvent(state, key, revision, e.ok),
         NEW r, r = [rt EXCEPT !.launcherBusy = FALSE,
                               !.launchResult = NoLaunchResult]
  PROVE  /\ Handled(mid, e.at, r) /\ Process(mid, e.at, "launch", r, signals)
         /\ key \in Keys /\ e.ok \in BOOLEAN
<1>1. e = rt.launchResult
  OBVIOUS
<1>2. key = e.launch.key /\ revision = e.launch.revision
  OBVIOUS
<1>3. mid = LaunchResultEvent(state, key, revision, e.ok)
  OBVIOUS
<1>4. r = [rt EXCEPT !.launcherBusy = FALSE, !.launchResult = NoLaunchResult]
  OBVIOUS
<1>5. Sound(state) /\ RuntimeOK(rt) /\ rt \in RuntimeType /\ e.at \in Nat
  BY <1>1, Times DEF IInv, RuntimeOK
<1>6. e.at # 0 /\ e.ok \in BOOLEAN
  BY <1>1, <1>5 DEF HandleLaunch, RuntimeType
<1>7. key \in Keys
  BY <1>1, <1>2, <1>5, <1>6 DEF RuntimeOK, LauncherOK
<1>8. Sound(mid) /\ StateEvolves(state, mid, e.at, {})
  BY <1>3, <1>5, <1>6, <1>7, LaunchSound, LaunchEvolves
<1>9. NoLaunchResult \in [launch: LaunchType, ok: BOOLEAN, at: Nat]
      /\ NoLaunchResult.at = 0
  BY DEF NoLaunchResult, NoLaunch, LaunchType
<1>10. r \in RuntimeType /\ r.full = rt.full
  BY <1>4, <1>5, <1>9 DEF RuntimeType
<1>11. SameActivity(rt, r) /\ SameNotifier(rt, r) /\ SamePolls(rt, r)
  BY <1>4, <1>5 DEF SameActivity, SameNotifier, SamePolls, RuntimeType
<1>12. rt.launchSlot = NoLaunch
  BY <1>1, <1>5, <1>6, <1>9 DEF RuntimeOK, LauncherOK
<1>13. r.launchSlot = NoLaunch /\ r.launchResult = NoLaunchResult
  BY <1>4, <1>5, <1>12 DEF RuntimeType
<1>14. RuntimeOK(r)
  BY <1>5, <1>9, <1>10, <1>11, <1>13, SameOK DEF RuntimeOK, LauncherOK
<1>15. ASSUME NEW k \in Keys,
              state.occurrences[k].phase = "join-pending",
              mid.occurrences[k].phase = "join-pending"
       PROVE  /\ mid.occurrences[k].joinRevision
                   = state.occurrences[k].joinRevision
              /\ ~LaunchOf(state, e.launch, k)
  <2>1. Advances(state.occurrences[k], mid.occurrences[k])
    BY <1>8 DEF StateEvolves, Evolves
  <2>2. mid.occurrences[k].joinRevision = state.occurrences[k].joinRevision
    BY <1>15, <2>1 DEF Advances
  <2>3. ASSUME LaunchOf(state, e.launch, k) PROVE FALSE
    <3>1. PICK o : o = state.occurrences[k]
      OBVIOUS
    <3>2. k = key /\ o.joinRevision = revision /\ o.phase = "join-pending"
      BY <1>2, <1>15, <2>3, <3>1 DEF LaunchOf
    <3>3. PICK n : n = IF e.ok
            THEN [o EXCEPT !.phase = "joined", !.joinedAt = TRUE, !.id = 0,
                           !.notifiedAt = FALSE, !.actionExpiresAt = 0,
                           !.joinRequestedAt = FALSE, !.resume = ""]
            ELSE [o EXCEPT !.phase = o.resume, !.joinRequestedAt = FALSE,
                           !.resume = ""]
      OBVIOUS
    <3>4. mid = [state EXCEPT !.occurrences[k] = n]
      BY <1>3, <3>1, <3>2, <3>3 DEF LaunchResultEvent, Update
    <3>5. Legit(o)
      BY <1>5, <3>1 DEF Sound
    <3>6. o \in OccurrenceType /\ state \in StateType
      BY <1>5, <3>5, LegitType DEF Sound
    <3>7. o.resume # "join-pending"
      BY <3>2, <3>5, PresentValid DEF ValidOccurrence
    <3>8. n.phase # "join-pending"
      BY <3>3, <3>6, <3>7 DEF OccurrenceType
    <3>9. mid.occurrences[k] = n
      BY <3>4, <3>6 DEF StateType
    <3> QED  BY <1>15, <3>8, <3>9
  <2> QED  BY <2>2, <2>3
<1>16. ASSUME NEW k \in Keys,
              state.occurrences[k].phase = "join-pending",
              mid.occurrences[k].phase = "join-pending",
              Taken(state, rt, k)
       PROVE  FALSE
  <2>1. LaunchOf(state, NoLaunch, k)
    BY <1>1, <1>12, <1>15, <1>16 DEF Taken
  <2>2. k = 0 /\ state.occurrences[k].joinRevision = 0
    BY <2>1 DEF LaunchOf, NoLaunch
  <2> QED  BY <1>5, <1>16, <2>2, EntryFields
<1>17. Claims(mid, r, server.next)
  <2>1. ASSUME NEW k \in Keys
        PROVE  mid.occurrences[k].id \in {0, state.occurrences[k].id}
    BY <1>8 DEF StateEvolves, Evolves, Moves
  <2>2. Claims(state, r, server.next)
    BY <1>11 DEF IInv, Claims, SameNotifier
  <2> QED  BY <2>1, <2>2, ClaimsKept
<1>18. Handled(mid, e.at, r)
  BY <1>5, <1>8, <1>12, <1>13, <1>14, <1>15, <1>16, <1>17 DEF Handled
<1>19. Process(mid, e.at, "launch", r, signals)
  BY <1>1, <1>2, <1>3, <1>4 DEF HandleLaunch
<1> QED  BY <1>6, <1>7, <1>18, <1>19

LEMMA LaunchResultOK ==
  ASSUME IInv, HandleLaunch
  PROVE  IInv'
<1>1. PICK e : e = rt.launchResult
  OBVIOUS
<1>2. PICK key, revision : key = e.launch.key /\ revision = e.launch.revision
  OBVIOUS
<1>3. PICK mid : mid = LaunchResultEvent(state, key, revision, e.ok)
  OBVIOUS
<1>4. PICK r : r = [rt EXCEPT !.launcherBusy = FALSE,
                              !.launchResult = NoLaunchResult]
  OBVIOUS
<1> QED  BY <1>1, <1>2, <1>3, <1>4, LaunchHandled, ProcessOK

(* A result of the poll worker frees it. *)
PollFree(a, x, stale) ==
  [rt EXCEPT !.pollBusy = @ \ {a}, !.pollResult[a] = NoPoll,
             !.retries[a] = x, !.activityStale = stale]

LEMMA PollFreed ==
  ASSUME IInv, NEW a \in Accounts, NEW x \in [attempt: Nat, next: Nat],
         NEW stale \in BOOLEAN,
         NEW r, r = [rt EXCEPT !.pollBusy = @ \ {a}, !.pollResult[a] = NoPoll,
                               !.retries[a] = x, !.activityStale = stale],
         rt.pollResult[a].at # 0
  PROVE  RuntimeOK(r) /\ SameNotifier(rt, r) /\ SameLauncher(rt, r)
<1>1. RuntimeOK(rt) /\ rt \in RuntimeType
  BY DEF IInv, RuntimeOK
<1>2. NoPoll \in PollResultType /\ NoPoll.at = 0
  <2>1. Boot \in RuntimeType /\ Boot.pollResult[a] = NoPoll
    BY BootOK DEF RuntimeOK, Boot
  <2>2. NoPoll \in PollResultType
    BY <2>1 DEF RuntimeType
  <2> QED  BY <2>2 DEF NoPoll
<1>3. PICK p : p = [rt.pollResult EXCEPT ![a] = NoPoll]
  OBVIOUS
<1>4. PICK q : q = [rt.retries EXCEPT ![a] = x]
  OBVIOUS
<1>5. p \in [Accounts -> PollResultType]
      /\ q \in [Accounts -> [attempt: Nat, next: Nat]]
  <2>1. rt.pollResult \in [Accounts -> PollResultType]
    BY <1>1 DEF RuntimeType
  <2>2. rt.retries \in [Accounts -> [attempt: Nat, next: Nat]]
    BY <1>1 DEF RuntimeType
  <2> HIDE DEF PollResultType
  <2>3. p \in [Accounts -> PollResultType]
    BY <1>2, <1>3, <2>1
  <2> QED  BY <1>4, <2>2, <2>3
<1>6. r = [rt EXCEPT !.pollBusy = rt.pollBusy \ {a}, !.pollResult = p,
                     !.retries = q, !.activityStale = stale]
  BY <1>1, <1>3, <1>4 DEF RuntimeType
<1>7. rt.pollBusy \ {a} \in SUBSET Accounts
  BY <1>1 DEF RuntimeType
<1>8. r \in RuntimeType /\ r.full = rt.full
  BY <1>1, <1>5, <1>6, <1>7 DEF RuntimeType
<1>9. SameActivity(rt, r) /\ SameNotifier(rt, r) /\ SameLauncher(rt, r)
  BY <1>1, <1>6 DEF SameActivity, SameNotifier, SameLauncher, RuntimeType
<1>10. /\ r.pollBusy = rt.pollBusy \ {a} /\ r.pollSlot = rt.pollSlot
       /\ r.pollResult = p
  BY <1>1, <1>6 DEF RuntimeType
<1>11. ASSUME NEW b \in Accounts
       PROVE  p[b] = IF b = a THEN NoPoll ELSE rt.pollResult[b]
  BY <1>1, <1>3 DEF RuntimeType
<1>12. PollsOK(rt)
  BY <1>1 DEF RuntimeOK
<1>13. PollsOK(r)
  <2>1. r.pollSlot \subseteq r.pollBusy
    BY <1>10, <1>12 DEF PollsOK
  <2>2. ASSUME NEW b \in Accounts
        PROVE  /\ r.pollResult[b].at # 0 => b \in r.pollBusy /\ b \notin r.pollSlot
               /\ PollOK(b, r.pollResult[b])
    BY <1>2, <1>10, <1>11, <1>12 DEF PollsOK, PollOK
  <2> QED  BY <2>1, <2>2 DEF PollsOK
<1> QED  BY <1>1, <1>8, <1>9, <1>13, SameOK DEF RuntimeOK

(* A poll that succeeded or failed. *)
LEMMA PollHandled ==
  ASSUME IInv, NEW a \in Accounts, HandlePoll(a), NEW e, e = rt.pollResult[a]
  PROVE  \E mid, kind, x, stale, r :
           /\ Handled(mid, e.at, r) /\ Process(mid, e.at, kind, r, signals)
           /\ r = PollFree(a, x, stale) /\ kind # "tick"
           /\ \/ /\ mid = Reconcile(state, a, e.items, e.at)
                 /\ \A k \in KeysOf(a) : GoodItem(e.items[k])
              \/ \E gen : mid = ApplyPollFailure(state, a, e.kind, gen, e.at)
<1>1. e = rt.pollResult[a]
  OBVIOUS
<1>2. PICK n : n = NextAttempt(rt.retries[a].attempt)
  OBVIOUS
<1>3. PICK r0 : r0 = [rt EXCEPT !.pollBusy = @ \ {a}, !.pollResult[a] = NoPoll]
  OBVIOUS
<1>4. e.at # 0
  BY <1>1 DEF HandlePoll
<1>5. Sound(state) /\ RuntimeOK(rt) /\ rt \in RuntimeType /\ e.at \in Nat
  BY <1>1, Times DEF IInv, RuntimeOK
<1>6. PollOK(a, e)
  BY <1>1, <1>5 DEF RuntimeOK, PollsOK
<1>7. CASE /\ e.kind = ""
           /\ Process(Reconcile(state, a, e.items, e.at), e.at, "poll",
                [r0 EXCEPT !.retries[a] = [attempt |-> 0, next |-> 0],
                           !.activityStale = TRUE], signals)
  <2>1. PICK mid : mid = Reconcile(state, a, e.items, e.at)
    OBVIOUS
  <2>2. PICK x : x = [attempt |-> 0, next |-> 0]
    OBVIOUS
  <2>3. PICK r : r = [r0 EXCEPT !.retries[a] = x, !.activityStale = TRUE]
    OBVIOUS
  <2>4. \A k \in KeysOf(a) : GoodItem(e.items[k])
    <3>1. e.items \in [KeysOf(a) -> PollItems]
      BY <1>4, <1>6, <1>7 DEF PollOK, PollErrorKinds
    <3>2. \A item \in PollItems : GoodItem(item)
      BY PollItemsAssumption DEF GoodItem
    <3> QED  BY <3>1, <3>2
  <2>5. Sound(mid) /\ StateEvolves(state, mid, e.at, {})
    BY <1>5, <2>1, <2>4, ReconcileSound, ReconcileEvolves
  <2>6. r = [rt EXCEPT !.pollBusy = @ \ {a}, !.pollResult[a] = NoPoll,
                       !.retries[a] = x, !.activityStale = TRUE]
    BY <1>3, <1>5, <2>3 DEF RuntimeType
  <2>7. x \in [attempt: Nat, next: Nat]
    BY <2>2
  <2>8. RuntimeOK(r) /\ SameNotifier(rt, r) /\ SameLauncher(rt, r)
    BY <1>1, <1>4, <2>6, <2>7, PollFreed
  <2>9. Handled(mid, e.at, r)
    BY <1>5, <2>5, <2>8, QuietHandled
  <2>10. Process(mid, e.at, "poll", r, signals)
    BY <1>7, <2>1, <2>2, <2>3
  <2> QED  BY <2>1, <2>4, <2>6, <2>9, <2>10 DEF PollFree
<1>8. CASE /\ e.kind # ""
           /\ \E gen \in Generations, jitter \in 0..(RetryDelays[n] \div 4) :
                Process(ApplyPollFailure(state, a, e.kind, gen, e.at), e.at,
                  "poll-failure",
                  [r0 EXCEPT !.retries[a] =
                     [attempt |-> n, next |-> NextRetry(e.at, n) + jitter]],
                  signals)
  <2>1. PICK gen \in Generations, jitter \in 0..(RetryDelays[n] \div 4) :
          Process(ApplyPollFailure(state, a, e.kind, gen, e.at), e.at,
            "poll-failure",
            [r0 EXCEPT !.retries[a] =
               [attempt |-> n, next |-> NextRetry(e.at, n) + jitter]],
            signals)
    BY <1>8
  <2>2. PICK mid : mid = ApplyPollFailure(state, a, e.kind, gen, e.at)
    OBVIOUS
  <2>3. PICK x : x = [attempt |-> n, next |-> NextRetry(e.at, n) + jitter]
    OBVIOUS
  <2>4. PICK r : r = [r0 EXCEPT !.retries[a] = x]
    OBVIOUS
  <2>5. e.kind \in PollErrorKinds
    BY <1>4, <1>6, <1>8 DEF PollOK
  <2>6. Sound(mid) /\ StateEvolves(state, mid, e.at, {})
    BY <1>4, <1>5, <2>2, <2>5, PollFailureSound, AccountEvolves
  <2>7. r = [rt EXCEPT !.pollBusy = @ \ {a}, !.pollResult[a] = NoPoll,
                       !.retries[a] = x, !.activityStale = rt.activityStale]
    BY <1>3, <1>5, <2>4 DEF RuntimeType
  <2>8. x \in [attempt: Nat, next: Nat]
    <3>1. rt.retries[a].attempt \in Nat
      BY <1>5 DEF RuntimeType
    <3>2. n \in 1..Len(RetryDelays)
      BY <1>2, <3>1, NextAttemptType
    <3>3. RetryDelays[n] \in Nat
      BY <3>2, DelayType
    <3>4. jitter \in Nat
      BY <3>3
    <3>5. NextRetry(e.at, n) \in Nat
      BY <1>5, <3>2, NextRetryType
    <3>6. n \in Nat
      BY <3>2, DelaysLen
    <3>7. NextRetry(e.at, n) + jitter \in Nat
      BY <3>4, <3>5
    <3> QED  BY <2>3, <3>6, <3>7
  <2>9. rt.activityStale \in BOOLEAN
    BY <1>5 DEF RuntimeType
  <2>10. RuntimeOK(r) /\ SameNotifier(rt, r) /\ SameLauncher(rt, r)
    BY <1>1, <1>4, <2>7, <2>8, <2>9, PollFreed
  <2>11. Handled(mid, e.at, r)
    BY <1>5, <2>6, <2>10, QuietHandled
  <2>12. Process(mid, e.at, "poll-failure", r, signals)
    BY <2>1, <2>2, <2>3, <2>4
  <2>13. r = PollFree(a, x, rt.activityStale)
    BY <2>7 DEF PollFree
  <2>14. \E g : mid = ApplyPollFailure(state, a, e.kind, g, e.at)
    BY <2>2
  <2>15. "poll-failure" # "tick"
    OBVIOUS
  <2> QED  BY <2>11, <2>12, <2>13, <2>14, <2>15
<1> QED  BY <1>1, <1>2, <1>3, <1>7, <1>8 DEF HandlePoll

LEMMA PollOKs ==
  ASSUME IInv, NEW a \in Accounts, HandlePoll(a)
  PROVE  IInv'
<1>1. PICK e : e = rt.pollResult[a]
  OBVIOUS
<1>2. PICK mid, kind, r :
        Handled(mid, e.at, r) /\ Process(mid, e.at, kind, r, signals)
  BY <1>1, PollHandled
<1> QED  BY <1>2, ProcessOK

(* A report of the notification client frees it. *)
LEMMA NotifierFreed ==
  ASSUME IInv, rt.notifyResult.event # "none"
  PROVE  /\ RuntimeOK(NotifierFree) /\ SameLauncher(rt, NotifierFree)
         /\ NotifierFree.notifySlot = NoCommand
         /\ NotifierFree.notifyResult = NoResult
<1>1. RuntimeOK(rt) /\ rt \in RuntimeType
  BY DEF IInv, RuntimeOK
<1>2. PICK r : r = NotifierFree
  OBVIOUS
<1>3. NoResult \in NotifyResultType /\ NoResult.event = "none"
  <2>1. Boot \in RuntimeType /\ Boot.notifyResult = NoResult
    BY BootOK DEF RuntimeOK, Boot
  <2> QED  BY <2>1 DEF RuntimeType, NoResult
<1>4. r = [rt EXCEPT !.notifierBusy = FALSE, !.notifyResult = NoResult]
  BY <1>2 DEF NotifierFree
<1>5. r \in RuntimeType /\ r.full = rt.full
  BY <1>1, <1>3, <1>4 DEF RuntimeType
<1>6. SameActivity(rt, r) /\ SameLauncher(rt, r) /\ SamePolls(rt, r)
  BY <1>1, <1>4 DEF SameActivity, SameLauncher, SamePolls, RuntimeType
<1>7. rt.notifySlot = NoCommand
  BY <1>1, <1>3 DEF RuntimeOK, NotifierOK
<1>8. r.notifySlot = NoCommand /\ r.notifyResult = NoResult
  BY <1>1, <1>4, <1>7 DEF RuntimeType
<1>9. NotifierOK(r)
  BY <1>8 DEF NotifierOK, ReportOK, CommandOK, NoResult, NoCommand
<1> QED  BY <1>1, <1>2, <1>5, <1>6, <1>8, <1>9, SameOK DEF RuntimeOK

(* A report may give entries the ids it brings. *)
LEMMA ReportHandled ==
  ASSUME IInv, rt.notifyResult.event # "none", NEW mid, Sound(mid), NEW ids,
         \A id \in ids : id < server.next,
         StateEvolves(state, mid, clock, ids)
  PROVE  Handled(mid, clock, NotifierFree)
<1>1. PICK r : r = NotifierFree
  OBVIOUS
<1>2. /\ RuntimeOK(r) /\ SameLauncher(rt, r)
      /\ r.notifySlot = NoCommand /\ r.notifyResult = NoResult
  BY <1>1, NotifierFreed
<1>3. IDsBelow(state, server.next)
  BY DEF IInv, Claims
<1>4. ASSUME NEW k \in Keys
      PROVE  mid.occurrences[k].id \in {0, state.occurrences[k].id} \cup ids
  BY DEF StateEvolves, Evolves, Moves
<1>5. IDsBelow(mid, server.next)
  BY <1>3, <1>4 DEF IDsBelow
<1>6. Claims(mid, r, server.next)
  BY <1>2, <1>5 DEF Claims, SlotClaim, ReportClaim, NoCommand, NoResult
<1>7. r.launchSlot = rt.launchSlot
  BY <1>2 DEF SameLauncher
<1> QED  BY <1>1, <1>2, <1>6, <1>7, Times, JoinsKept DEF Handled

(* What a report is about. *)
LEMMA ReportedOK ==
  ASSUME IInv, NEW e, e = rt.notifyResult, e.event # "none"
  PROVE  /\ e.id \in Nat
         /\ e.command.kind \in {"notify", "close", "warning"}
         /\ e.command.kind # "warning" => e.command.key \in Keys
         /\ e.command.kind = "warning" => e.command.account \in Accounts
         /\ e.event = "completed" => e.command.kind = "close"
         /\ e.event = "delivered" =>
              e.command.kind \in {"notify", "warning"} /\ e.id # 0
              /\ e.id < server.next
         /\ e.event = "delivered" /\ e.command.kind = "notify" =>
              OnlyHolder(state, e.command.key, e.id)
<1>1. e \in NotifyResultType /\ ReportOK(e)
  BY DEF IInv, RuntimeOK, RuntimeType, NotifierOK
<1>2. e.id \in Nat /\ e.command \in CommandType
  BY <1>1 DEF NotifyResultType
<1>3. e.command.kind \in {"none", "notify", "close", "warning"}
  BY <1>2 DEF CommandType
<1>4. ReportClaim(state, e, server.next)
  BY DEF IInv, Claims
<1>5. /\ e.command.kind \in {"notify", "close", "warning"}
      /\ e.command.kind # "warning" => e.command.key \in Keys
      /\ e.command.kind = "warning" => e.command.account \in Accounts
      /\ e.event = "completed" => e.command.kind = "close"
      /\ e.event = "delivered" => e.command.kind \in {"notify", "warning"}
  BY <1>1, <1>3 DEF ReportOK, CommandOK
<1> QED  BY <1>2, <1>4, <1>5 DEF ReportClaim

(* A notification was shown. *)
LEMMA DeliveredHandled ==
  ASSUME IInv, HandleDelivered
  PROVE  LET e == rt.notifyResult  c == e.command IN
         \E mid :
           /\ Handled(mid, clock, NotifierFree)
           /\ ProcessDelivery(mid, clock, e.id, NotifierFree)
           /\ \/ /\ c.kind = "warning" /\ c.account \in Accounts
                 /\ mid = ApplyWarningDelivery(state, c.account, c.revision,
                                               clock)
              \/ /\ c.kind = "notify" /\ c.key \in Keys
                 /\ mid = ApplyDelivery(state, c.key, c.revision, e.id, clock)
<1>1. PICK e : e = rt.notifyResult
  OBVIOUS
<1>2. PICK c : c = e.command
  OBVIOUS
<1>3. PICK mid : mid = IF c.kind = "warning"
        THEN ApplyWarningDelivery(state, c.account, c.revision, clock)
        ELSE ApplyDelivery(state, c.key, c.revision, e.id, clock)
  OBVIOUS
<1>4. e.event = "delivered"
  BY <1>1 DEF HandleDelivered
<1>5. Sound(state) /\ clock \in Nat
  BY Times DEF IInv
<1>6. /\ e.id \in Nat /\ e.id # 0 /\ e.id < server.next
      /\ c.kind = "warning" => c.account \in Accounts
      /\ c.kind # "warning" => c.key \in Keys /\ OnlyHolder(state, c.key, e.id)
  BY <1>1, <1>2, <1>4, ReportedOK
<1>7. Sound(mid) /\ StateEvolves(state, mid, clock, {e.id})
  <2>1. CASE c.kind = "warning"
    <3>1. mid = ApplyWarningDelivery(state, c.account, c.revision, clock)
      BY <1>3, <2>1
    <3> QED  BY <1>5, <1>6, <2>1, <3>1, WarningDeliverySound, AccountEvolves
  <2>2. CASE c.kind # "warning"
    <3>1. mid = ApplyDelivery(state, c.key, c.revision, e.id, clock)
      BY <1>3, <2>2
    <3>2. \A j \in Keys \ {c.key} : state.occurrences[j].id # e.id
      BY <1>6, <2>2 DEF OnlyHolder
    <3>3. Sound(mid)
      BY <1>5, <1>6, <2>2, <3>1, <3>2, DeliverySound
    <3> QED  BY <1>5, <1>6, <2>2, <3>1, <3>3, DeliveryEvolves
  <2> QED  BY <2>1, <2>2
<1>8. Handled(mid, clock, NotifierFree)
  BY <1>1, <1>4, <1>6, <1>7, ReportHandled
<1>9. ProcessDelivery(mid, clock, e.id, NotifierFree)
  BY <1>1, <1>2, <1>3 DEF HandleDelivered
<1>10. \/ /\ c.kind = "warning" /\ c.account \in Accounts
          /\ mid = ApplyWarningDelivery(state, c.account, c.revision, clock)
       \/ /\ c.kind = "notify" /\ c.key \in Keys
          /\ mid = ApplyDelivery(state, c.key, c.revision, e.id, clock)
  <2>1. c.kind \in {"notify", "warning"}
    BY <1>1, <1>2, <1>4, ReportedOK
  <2> QED  BY <1>3, <1>6, <2>1
<1> QED  BY <1>1, <1>2, <1>8, <1>9, <1>10

LEMMA DeliveredOK ==
  ASSUME IInv, HandleDelivered
  PROVE  IInv'
  BY DeliveredHandled, ProcessDeliveryOK

(* A call of the client failed. *)
LEMMA FailedHandled ==
  ASSUME IInv, HandleFailed
  PROVE  LET c == rt.notifyResult.command IN
         \E mid :
           /\ Handled(mid, clock, NotifierFree)
           /\ Process(mid, clock, "notification", NotifierFree, signals)
           /\ \/ /\ c.kind = "warning" /\ c.account \in Accounts
                 /\ mid = ApplyWarningFailure(state, c.account, c.revision,
                                              clock)
              \/ /\ c.kind \in {"notify", "close"} /\ c.key \in Keys
                 /\ mid = ApplyNotificationFailure(state, c.key, c.revision,
                            IF c.kind = "close" THEN c.id ELSE 0, clock)
<1>1. PICK e : e = rt.notifyResult
  OBVIOUS
<1>2. PICK c : c = e.command
  OBVIOUS
<1>3. PICK id : id = IF c.kind = "close" THEN c.id ELSE 0
  OBVIOUS
<1>4. PICK mid : mid = IF c.kind = "warning"
        THEN ApplyWarningFailure(state, c.account, c.revision, clock)
        ELSE ApplyNotificationFailure(state, c.key, c.revision, id, clock)
  OBVIOUS
<1>5. e.event = "failed"
  BY <1>1 DEF HandleFailed
<1>6. Sound(state) /\ clock \in Nat
  BY Times DEF IInv
<1>7. /\ c.kind = "warning" => c.account \in Accounts
      /\ c.kind # "warning" => c.key \in Keys
  BY <1>1, <1>2, <1>5, ReportedOK
<1>8. Sound(mid) /\ StateEvolves(state, mid, clock, {})
  <2>1. CASE c.kind = "warning"
    <3>1. mid = ApplyWarningFailure(state, c.account, c.revision, clock)
      BY <1>4, <2>1
    <3> QED  BY <1>6, <1>7, <2>1, <3>1, WarningFailureSound, AccountEvolves
  <2>2. CASE c.kind # "warning"
    <3>1. mid = ApplyNotificationFailure(state, c.key, c.revision, id, clock)
      BY <1>4, <2>2
    <3> QED  BY <1>6, <1>7, <2>2, <3>1, FailureSound, FailureEvolves
  <2> QED  BY <2>1, <2>2
<1>9. Handled(mid, clock, NotifierFree)
  BY <1>1, <1>5, <1>8, ReportHandled
<1>10. Process(mid, clock, "notification", NotifierFree, signals)
  BY <1>1, <1>2, <1>3, <1>4 DEF HandleFailed
<1>11. \/ /\ c.kind = "warning" /\ c.account \in Accounts
          /\ mid = ApplyWarningFailure(state, c.account, c.revision, clock)
       \/ /\ c.kind \in {"notify", "close"} /\ c.key \in Keys
          /\ mid = ApplyNotificationFailure(state, c.key, c.revision, id, clock)
  <2>1. c.kind \in {"notify", "close", "warning"}
    BY <1>1, <1>2, <1>5, ReportedOK
  <2> QED  BY <1>4, <1>7, <2>1
<1> QED  BY <1>1, <1>2, <1>3, <1>9, <1>10, <1>11

LEMMA FailedOK ==
  ASSUME IInv, HandleFailed
  PROVE  IInv'
  BY FailedHandled, ProcessOK

(* A close was done. *)
LEMMA CompletedHandled ==
  ASSUME IInv, HandleCompleted
  PROVE  LET c == rt.notifyResult.command IN
         /\ c.kind = "close" /\ c.key \in Keys
         /\ \E mid :
              /\ Handled(mid, clock, NotifierFree)
              /\ Process(mid, clock, "notification", NotifierFree, signals)
              /\ mid = CompleteClose(state, c.key, c.id)
<1>1. PICK e : e = rt.notifyResult
  OBVIOUS
<1>2. PICK mid : mid = CompleteClose(state, e.command.key, e.command.id)
  OBVIOUS
<1>3. e.event = "completed"
  BY <1>1 DEF HandleCompleted
<1>4. e.command.kind = "close" /\ e.command.key \in Keys
  BY <1>1, <1>3, ReportedOK
<1>5. Sound(mid) /\ StateEvolves(state, mid, clock, {})
  BY <1>2, <1>4, CompleteCloseSound, CompleteCloseEvolves DEF IInv
<1>6. Handled(mid, clock, NotifierFree)
  BY <1>1, <1>3, <1>5, ReportHandled
<1>7. Process(mid, clock, "notification", NotifierFree, signals)
  BY <1>1, <1>2 DEF HandleCompleted
<1> QED  BY <1>1, <1>2, <1>4, <1>6, <1>7

LEMMA CompletedOK ==
  ASSUME IInv, HandleCompleted
  PROVE  IInv'
  BY CompletedHandled, ProcessOK

(* A signal of the server. *)
LEMMA SignalHandled ==
  ASSUME IInv, HandleSignal
  PROVE  LET e == Head(signals) IN
         \E mid :
           /\ Handled(mid, clock, rt)
           /\ Process(mid, clock, "notification", rt, Tail(signals))
           /\ mid = IF e.name = "join" THEN JoinSignal(state, e.id, clock, Hosts)
                                       ELSE ClosedSignal(state, e.id)
<1>1. PICK e : e = Head(signals)
  OBVIOUS
<1>2. PICK mid : mid = IF e.name = "join"
                         THEN JoinSignal(state, e.id, clock, Hosts)
                         ELSE ClosedSignal(state, e.id)
  OBVIOUS
<1>3. Sound(state) /\ RuntimeOK(rt) /\ clock \in Nat
  BY Times DEF IInv
<1>4. Sound(mid) /\ StateEvolves(state, mid, clock, {})
  BY <1>2, <1>3, JoinSignalSound, ClosedSignalSound, JoinSignalEvolves,
     ClosedSignalEvolves
<1>5. SameNotifier(rt, rt) /\ SameLauncher(rt, rt)
  BY DEF SameNotifier, SameLauncher
<1>6. Handled(mid, clock, rt)
  BY <1>3, <1>4, <1>5, QuietHandled
<1>7. Process(mid, clock, "notification", rt, Tail(signals))
  BY <1>1, <1>2 DEF HandleSignal
<1> QED  BY <1>1, <1>2, <1>6, <1>7

LEMMA SignalOK ==
  ASSUME IInv, HandleSignal
  PROVE  IInv'
  BY SignalHandled, ProcessOK
-----------------------------------------------------------------------------
(* The workers, the user and the clock *)

(* A step that leaves the state to the loop. *)
LEMMA WorkOK ==
  ASSUME IInv, state' = state, up' = up, exit' = exit, clicks' = clicks,
         stops' = stops, clock' \in 1..MaxTime, faults' \in 0..MaxFaults,
         server' \in ServerType, RuntimeOK(rt'),
         Claims(state, rt', server'.next), opens' \in [Keys -> Nat],
         up = FALSE => rt'.launchSlot = NoLaunch
                       /\ rt'.launchResult = NoLaunchResult,
         \A k \in Keys : opens'[k] + Debt(state, rt', k)
                           =< opens[k] + Debt(state, rt, k)
  PROVE  IInv'
<1>1. /\ up \in BOOLEAN /\ Sound(state) /\ WidthsOK(state)
      /\ clicks \in [Keys -> Nat] /\ opens \in [Keys -> Nat] /\ stops \in Nat
      /\ exit \in {"", "crash", "save", "exhausted", "stale-delivery"}
  BY DEF IInv, TypeOK
<1>2. ASSUME NEW k \in Keys
      PROVE  opens'[k] + Debt(state', rt', k) =< clicks'[k] + stops'
  <2>1. PICK d, f : d = Debt(state, rt, k) /\ f = Debt(state, rt', k)
    OBVIOUS
  <2>2. d \in Nat /\ f \in Nat
    BY <2>1, DebtType
  <2>3. opens[k] \in Nat /\ opens'[k] \in Nat /\ clicks[k] \in Nat
        /\ stops \in Nat
    BY <1>1
  <2>4. opens[k] + d =< clicks[k] + stops
    BY <2>1 DEF IInv, Accounted
  <2>5. opens'[k] + f =< opens[k] + d
    BY <2>1
  <2>6. opens'[k] + f =< clicks[k] + stops
    BY <2>2, <2>3, <2>4, <2>5
  <2> QED  BY <2>1, <2>6
<1>3. Accounted'
  BY <1>2 DEF Accounted
<1>4. /\ Sound(state') /\ WidthsOK(state')
      /\ Claims(state', rt', server'.next)
  BY <1>1
<1>5. up' \in BOOLEAN /\ clicks' \in [Keys -> Nat] /\ stops' \in Nat
  BY <1>1
<1>6. exit' \in {"", "crash", "save", "exhausted", "stale-delivery"}
  BY <1>1
<1>7. up' = FALSE => rt'.launchSlot = NoLaunch
                     /\ rt'.launchResult = NoLaunchResult
  OBVIOUS
<1> QED  BY <1>3, <1>4, <1>5, <1>6, <1>7, InvParts DEF ServerType

(* A step that leaves the launcher alone as well. *)
LEMMA QuietWorkOK ==
  ASSUME IInv, state' = state, up' = up, exit' = exit, clicks' = clicks,
         stops' = stops, clock' \in 1..MaxTime, faults' \in 0..MaxFaults,
         server' \in ServerType, opens' = opens, RuntimeOK(rt'),
         SameLauncher(rt, rt'), Claims(state, rt', server'.next)
  PROVE  IInv'
<1>1. opens \in [Keys -> Nat]
  BY DEF IInv, TypeOK
<1>2. ASSUME NEW k \in Keys
      PROVE  opens'[k] + Debt(state, rt', k) =< opens[k] + Debt(state, rt, k)
  <2>1. Debt(state, rt', k) = Debt(state, rt, k)
    BY SameDebt
  <2>2. Debt(state, rt, k) \in Nat /\ opens[k] \in Nat
    BY <1>1, DebtType
  <2> QED  BY <2>1, <2>2
<1>3. up = FALSE => rt'.launchSlot = NoLaunch
                    /\ rt'.launchResult = NoLaunchResult
  BY DEF IInv, SameLauncher
<1>4. opens' \in [Keys -> Nat]
  BY <1>1
<1> QED  BY <1>2, <1>3, <1>4, WorkOK

(* The types of what such a step leaves alone. *)
LEMMA Fields ==
  ASSUME IInv
  PROVE  /\ clock \in 1..MaxTime /\ faults \in 0..MaxFaults
         /\ server \in ServerType /\ opens \in [Keys -> Nat]
         /\ RuntimeOK(rt) /\ rt \in RuntimeType
         /\ Claims(state, rt, server.next)
  BY DEF IInv, TypeOK, ServerType, RuntimeOK

(* The session is checked. *)
LEMMA CheckOK ==
  ASSUME IInv, CheckActivity
  PROVE  IInv'
<1>1. PICK announce \in BOOLEAN :
        rt' = [rt EXCEPT !.activitySlot = FALSE,
                 !.activityResult = [at |-> clock, announce |-> announce]]
  BY DEF CheckActivity
<1>2. PICK x : x = [at |-> clock, announce |-> announce]
  OBVIOUS
<1>3. x \in [at: Nat, announce: BOOLEAN]
  BY <1>2, Times
<1>4. rt' = [rt EXCEPT !.activitySlot = FALSE, !.activityResult = x]
  BY <1>1, <1>2
<1>5. rt' \in RuntimeType /\ rt'.full = rt.full
  BY <1>3, <1>4, Fields DEF RuntimeType
<1>6. SameNotifier(rt, rt') /\ SameLauncher(rt, rt') /\ SamePolls(rt, rt')
  BY <1>4, Fields DEF SameNotifier, SameLauncher, SamePolls, RuntimeType
<1>7. ActivityOK(rt')
  <2>1. rt.activitySlot = TRUE
    BY Fields DEF CheckActivity, RuntimeType
  <2>2. rt.activityBusy # FALSE
    BY <2>1, Fields DEF RuntimeOK, ActivityOK
  <2>3. rt'.activityBusy = rt.activityBusy /\ rt'.activitySlot = FALSE
    BY <1>4, Fields DEF RuntimeType
  <2> QED  BY <2>2, <2>3 DEF ActivityOK
<1>8. RuntimeOK(rt')
  BY <1>5, <1>6, <1>7, Fields, SameOK DEF RuntimeOK
<1>9. Claims(state, rt', server.next)
  BY <1>6, Fields DEF Claims, SameNotifier
<1> QED  BY <1>6, <1>8, <1>9, Fields, QuietWorkOK DEF CheckActivity

(* A calendar is fetched. *)
LEMMA FetchOK ==
  ASSUME IInv, NEW a \in Accounts, FetchCalendar(a)
  PROVE  IInv'
<1>1. PICK e \in [at: {clock}, kind: {""}, items: [KeysOf(a) -> PollItems]]
                 \cup [at: {clock}, kind: ErrorKinds, items: {<<>>}] :
        rt' = [rt EXCEPT !.pollSlot = @ \ {a}, !.pollResult[a] = e]
  BY DEF FetchCalendar
<1>2. e = [at |-> e.at, kind |-> e.kind, items |-> e.items]
  BY <1>1
<1>3. /\ e.at = clock
      /\ \/ e.kind = "" /\ e.items \in [KeysOf(a) -> PollItems]
         \/ e.kind \in PollErrorKinds /\ e.items = <<>>
  BY <1>1, BoundsAssumption
<1>4. e \in PollResultType /\ PollOK(a, e)
  <2>1. e.items \in Listings
    BY <1>3 DEF Listings, Listed
  <2>2. e.kind \in PollErrorKinds \cup {""} /\ e.at \in Nat
    BY <1>3, Times
  <2>3. PollOK(a, e)
    BY <1>3 DEF PollOK
  <2> QED  BY <1>2, <2>1, <2>2, <2>3 DEF PollResultType
<1>5. PICK p : p = [rt.pollResult EXCEPT ![a] = e]
  OBVIOUS
<1>6. PICK slot : slot = rt.pollSlot \ {a}
  OBVIOUS
<1>7. rt' = [rt EXCEPT !.pollSlot = slot, !.pollResult = p]
  BY <1>1, <1>5, <1>6, Fields DEF RuntimeType
<1>8. rt.pollResult \in [Accounts -> PollResultType]
      /\ slot \in SUBSET Accounts
  BY <1>6, Fields DEF RuntimeType
<1>9. p \in [Accounts -> PollResultType]
  BY <1>4, <1>5, <1>8
<1>10. rt' \in RuntimeType /\ rt'.full = rt.full
  BY <1>7, <1>8, <1>9, Fields DEF RuntimeType
<1>11. SameActivity(rt, rt') /\ SameNotifier(rt, rt') /\ SameLauncher(rt, rt')
  BY <1>7, Fields DEF SameActivity, SameNotifier, SameLauncher, RuntimeType
<1>12. PollsOK(rt')
  <2>1. /\ rt'.pollBusy = rt.pollBusy /\ rt'.pollSlot = slot
        /\ rt'.pollResult = p
    BY <1>7, Fields DEF RuntimeType
  <2>2. a \in rt.pollSlot
    BY DEF FetchCalendar
  <2>3. PollsOK(rt)
    BY Fields DEF RuntimeOK
  <2>4. rt'.pollSlot \subseteq rt'.pollBusy
    BY <1>6, <2>1, <2>3 DEF PollsOK
  <2>5. ASSUME NEW b \in Accounts
        PROVE  /\ p[b].at # 0 => b \in rt.pollBusy /\ b \notin slot
               /\ PollOK(b, p[b])
    <3>1. CASE b = a
      <4>1. p[b] = e
        BY <1>5, <1>8, <3>1
      <4> QED  BY <1>4, <1>6, <2>2, <2>3, <3>1, <4>1 DEF PollsOK
    <3>2. CASE b # a
      <4>1. p[b] = rt.pollResult[b]
        BY <1>5, <1>8, <3>2
      <4> QED  BY <1>6, <2>3, <3>2, <4>1 DEF PollsOK
    <3> QED  BY <3>1, <3>2
  <2> QED  BY <2>1, <2>4, <2>5 DEF PollsOK
<1>13. RuntimeOK(rt')
  BY <1>10, <1>11, <1>12, Fields, SameOK DEF RuntimeOK
<1>14. Claims(state, rt', server.next)
  BY <1>11, Fields DEF Claims, SameNotifier
<1> QED  BY <1>11, <1>13, <1>14, Fields, QuietWorkOK DEF FetchCalendar

(* A meeting is opened: the open that was to come. *)
LEMMA OpenOK ==
  ASSUME IInv, OpenMeeting
  PROVE  IInv'
<1>1. PICK l : l = rt.launchSlot
  OBVIOUS
<1>2. up /\ l # NoLaunch
  BY <1>1 DEF OpenMeeting
<1>3. PICK ok \in BOOLEAN, opened \in BOOLEAN :
        /\ opens' = [opens EXCEPT ![l.key] = @ + IF opened THEN 1 ELSE 0]
        /\ rt' = [rt EXCEPT !.launchSlot = NoLaunch,
                    !.launchResult = [launch |-> l, ok |-> ok, at |-> clock]]
  BY <1>1 DEF OpenMeeting
<1>4. LauncherOK(rt) /\ l \in LaunchType
  BY <1>1, Fields DEF RuntimeOK, RuntimeType
<1>5. l.key \in Keys /\ rt.launchResult = NoLaunchResult
      /\ rt.launcherBusy # FALSE
  BY <1>1, <1>2, <1>4 DEF LauncherOK
<1>6. PICK x : x = [launch |-> l, ok |-> ok, at |-> clock]
  OBVIOUS
<1>7. x \in [launch: LaunchType, ok: BOOLEAN, at: Nat]
  BY <1>4, <1>6, Times
<1>8. rt' = [rt EXCEPT !.launchSlot = NoLaunch, !.launchResult = x]
  BY <1>3, <1>6
<1>9. NoLaunch \in LaunchType
  BY DEF NoLaunch, LaunchType
<1>10. rt' \in RuntimeType /\ rt'.full = rt.full
  BY <1>7, <1>8, <1>9, Fields DEF RuntimeType
<1>11. SameActivity(rt, rt') /\ SameNotifier(rt, rt') /\ SamePolls(rt, rt')
  BY <1>8, Fields DEF SameActivity, SameNotifier, SamePolls, RuntimeType
<1>12. /\ rt'.launcherBusy = rt.launcherBusy /\ rt'.launchSlot = NoLaunch
       /\ rt'.launchResult = x
  BY <1>8, Fields DEF RuntimeType
<1>13. x.launch = l
  BY <1>6
<1>14. LauncherOK(rt')
  BY <1>5, <1>12, <1>13 DEF LauncherOK
<1>15. RuntimeOK(rt')
  BY <1>10, <1>11, <1>14, Fields, SameOK DEF RuntimeOK
<1>16. Claims(state, rt', server.next)
  BY <1>11, Fields DEF Claims, SameNotifier
<1>17. opens' \in [Keys -> Nat]
  <2>1. opens[l.key] + (IF opened THEN 1 ELSE 0) \in Nat
    <3>1. opens[l.key] \in Nat
      BY <1>5, Fields
    <3> QED  BY <3>1
  <2> QED  BY <1>3, <1>5, <2>1, Fields
<1>18. ASSUME NEW k \in Keys
       PROVE  opens'[k] + Debt(state, rt', k) =< opens[k] + Debt(state, rt, k)
  <2>1. Opening(rt', k) = 0
    BY <1>12 DEF Opening
  <2>2. Waiting(state, rt', k) =< Waiting(state, rt, k)
    <3>1. state.occurrences[k].phase = "join-pending"
            => state.occurrences[k].joinRevision # 0
      BY EntryFields DEF IInv
    <3>2. /\ state.occurrences[k].phase = "join-pending"
          /\ Taken(state, rt, k)
          => Taken(state, rt', k)
      BY <1>1, <1>5, <1>12, <1>13, <3>1
         DEF Taken, LaunchOf, NoLaunch, NoLaunchResult
    <3> QED  BY <3>2 DEF Waiting
  <2>3. opens[k] \in Nat
    BY Fields
  <2>4. PICK v, w : v = Waiting(state, rt, k) /\ w = Waiting(state, rt', k)
    OBVIOUS
  <2>5. v \in 0..1 /\ w \in 0..1 /\ w =< v
    BY <2>2, <2>4, DebtType
  <2>6. CASE k = l.key
    <3>1. Opening(rt, k) = 1
      BY <1>1, <1>2, <2>6 DEF Opening
    <3>2. opens'[k] = opens[k] + IF opened THEN 1 ELSE 0
      BY <1>3, <2>6, Fields
    <3>3. opens'[k] \in Nat /\ opens'[k] =< opens[k] + 1
      BY <2>3, <3>2
    <3> QED  BY <2>1, <2>3, <2>4, <2>5, <3>1, <3>3 DEF Debt
  <2>7. CASE k # l.key
    <3>1. opens'[k] = opens[k]
      BY <1>3, <2>7, Fields
    <3>2. PICK q : q = Opening(rt, k)
      OBVIOUS
    <3>3. q \in 0..1
      BY <3>2, DebtType
    <3> QED  BY <2>1, <2>3, <2>4, <2>5, <3>1, <3>2, <3>3 DEF Debt
  <2> QED  BY <2>6, <2>7
<1>19. up # FALSE
  BY <1>2
<1> QED  BY <1>15, <1>16, <1>17, <1>18, <1>19, Fields, WorkOK DEF OpenMeeting

(* The client reports the command it was given. *)
LEMMA ReportRuntime ==
  ASSUME IInv, NEW c, c = rt.notifySlot, c.kind # "none",
         NEW event \in {"delivered", "failed", "completed"}, NEW id \in Nat,
         event = "completed" => c.kind = "close",
         event = "delivered" => c.kind \in {"notify", "warning"},
         Reported(event, id)
  PROVE  /\ RuntimeOK(rt') /\ SameLauncher(rt, rt')
         /\ rt'.notifySlot = NoCommand
         /\ rt'.notifyResult = [event |-> event, command |-> c, id |-> id]
<1>1. PICK e : e = [event |-> event, command |-> c, id |-> id]
  OBVIOUS
<1>2. NotifierOK(rt) /\ c \in CommandType
  BY Fields DEF RuntimeOK, RuntimeType
<1>3. c # NoCommand /\ NoCommand \in CommandType
  BY DEF NoCommand, CommandType
<1>4. rt.notifierBusy # FALSE /\ CommandOK(c)
  BY <1>2, <1>3 DEF NotifierOK
<1>5. e \in NotifyResultType
  BY <1>1, <1>2 DEF NotifyResultType
<1>6. rt' = [rt EXCEPT !.notifySlot = NoCommand, !.notifyResult = e]
  BY <1>1 DEF Reported
<1>7. rt' \in RuntimeType /\ rt'.full = rt.full
  BY <1>3, <1>5, <1>6, Fields DEF RuntimeType
<1>8. SameActivity(rt, rt') /\ SameLauncher(rt, rt') /\ SamePolls(rt, rt')
  BY <1>6, Fields DEF SameActivity, SameLauncher, SamePolls, RuntimeType
<1>9. /\ rt'.notifierBusy = rt.notifierBusy /\ rt'.notifySlot = NoCommand
      /\ rt'.notifyResult = e
  BY <1>6, Fields DEF RuntimeType
<1>10. ReportOK(e)
  <2>1. e.event = event /\ e.command = c
    BY <1>1
  <2> QED  BY <1>4, <2>1 DEF ReportOK
<1>11. CommandOK(NoCommand)
  BY DEF CommandOK, NoCommand
<1>12. NotifierOK(rt')
  BY <1>4, <1>9, <1>10, <1>11 DEF NotifierOK
<1>13. RuntimeOK(rt')
  BY <1>7, <1>8, <1>12, Fields, SameOK DEF RuntimeOK
<1> QED  BY <1>1, <1>8, <1>9, <1>13

(* What the report claims, when it brings no id. *)
LEMMA ReportClaims ==
  ASSUME IInv, rt'.notifySlot = NoCommand, rt'.notifyResult.event # "delivered",
         server'.next \in Nat, server'.next >= server.next
  PROVE  Claims(state, rt', server'.next)
<1>1. IDsBelow(state, server.next)
  BY DEF IInv, Claims
<1>2. ASSUME NEW k \in Keys
      PROVE  state.occurrences[k].id < server'.next
  <2>1. state.occurrences[k].id \in Nat /\ server.next \in Nat
    BY EntryFields, Fields DEF IInv, ServerType
  <2> QED  BY <1>1, <2>1 DEF IDsBelow
<1>3. 0 < server'.next
  <2>1. server.next \in Nat
    BY Fields DEF ServerType
  <2> QED  BY <1>1, <2>1 DEF IDsBelow
<1> QED  BY <1>2, <1>3 DEF Claims, IDsBelow, SlotClaim, ReportClaim, NoCommand

(* The id that a Notify is answered with belongs to no other entry, as long *)
(* as the server hands out new ones.                                        *)
LEMMA AnswerClaims ==
  ASSUME IInv, NEW c, c = rt.notifySlot, c.kind \in {"notify", "warning"},
         NEW id \in AnswerIDs(c),
         NEW next, next = IF id = server.next THEN id + 1 ELSE server.next
  PROVE  /\ id \in Nat /\ id # 0 /\ id < next
         /\ next \in Nat /\ next >= server.next
         /\ c.kind = "notify" => OnlyHolder(state, c.key, id)
<1>1. server.next \in Nat /\ c.id \in Nat
  <2>1. server.next \in Nat
    BY Fields DEF ServerType
  <2>2. c \in CommandType
    BY Fields DEF RuntimeType
  <2> QED  BY <2>1, <2>2 DEF CommandType
<1>2. IDsBelow(state, server.next) /\ SlotClaim(state, c, server.next)
  BY DEF IInv, Claims
<1>3. c.kind = "warning" => c.id = 0
  BY Fields DEF RuntimeOK, NotifierOK, CommandOK
<1>4. \/ id = c.id /\ c.id # 0
      \/ id = server.next
  BY DEF AnswerIDs
<1>5. CASE id = c.id /\ c.id # 0
  <2>1. c.kind = "notify"
    BY <1>3, <1>5
  <2>2. c.id < server.next /\ OnlyHolder(state, c.key, c.id)
    BY <1>2, <1>5, <2>1 DEF SlotClaim
  <2> QED  BY <1>1, <1>5, <2>2
<1>6. CASE id = server.next
  <2>1. 0 < id /\ id < next /\ next \in Nat /\ next >= server.next
    BY <1>1, <1>2, <1>6 DEF IDsBelow
  <2>2. ASSUME NEW k \in Keys PROVE state.occurrences[k].id # id
    <3>1. state.occurrences[k].id \in Nat
      BY EntryFields DEF IInv
    <3> QED  BY <1>1, <1>2, <1>6, <3>1 DEF IDsBelow
  <2> QED  BY <1>1, <1>6, <2>1, <2>2 DEF OnlyHolder
<1> QED  BY <1>4, <1>5, <1>6

(* A notification is shown, or not. *)
LEMMA NotifyOK ==
  ASSUME IInv, CallNotify
  PROVE  IInv'
<1>1. PICK c : c = rt.notifySlot
  OBVIOUS
<1>2. c.kind \in {"notify", "warning"}
  BY <1>1 DEF CallNotify
<1>3. c \in CommandType
  BY <1>1, Fields DEF RuntimeType
<1>4. c.meeting \in Meetings \cup {NoMeeting} /\ c.key \in Keys \cup {0}
  BY <1>3 DEF CommandType
<1>5. /\ state' = state /\ up' = up /\ exit' = exit /\ clicks' = clicks
      /\ stops' = stops /\ clock' = clock /\ opens' = opens
      /\ clock' \in 1..MaxTime
  BY Fields DEF CallNotify
<1>6. ASSUME NEW id \in AnswerIDs(c),
             server' = [shown |-> [server.shown EXCEPT ![id] = "yes"],
                        meeting |-> [server.meeting EXCEPT ![id] = c.meeting],
                        key |-> [server.key EXCEPT ![id] = c.key],
                        next |-> IF id = server.next THEN id + 1
                                                     ELSE server.next],
             \/ Reported("delivered", id) /\ UNCHANGED faults
             \/ Reported("failed", 0) /\ Fault
      PROVE  IInv'
  <2>1. PICK next : next = IF id = server.next THEN id + 1 ELSE server.next
    OBVIOUS
  <2>2. /\ id \in Nat /\ id # 0 /\ id < next
        /\ next \in Nat /\ next >= server.next
        /\ c.kind = "notify" => OnlyHolder(state, c.key, id)
    BY <1>1, <1>2, <2>1, AnswerClaims
  <2>3. server' = [shown |-> [server.shown EXCEPT ![id] = "yes"],
                   meeting |-> [server.meeting EXCEPT ![id] = c.meeting],
                   key |-> [server.key EXCEPT ![id] = c.key], next |-> next]
    BY <1>6, <2>1
  <2>4. server' \in ServerType /\ server'.next = next
    <3>1. /\ server.shown \in [IDs -> {"no", "yes", "history"}]
          /\ server.meeting \in [IDs -> Meetings \cup {NoMeeting}]
          /\ server.key \in [IDs -> Keys \cup {0}]
      BY Fields DEF ServerType
    <3>2. [server.shown EXCEPT ![id] = "yes"]
            \in [IDs -> {"no", "yes", "history"}]
      BY <3>1
    <3>3. [server.meeting EXCEPT ![id] = c.meeting]
            \in [IDs -> Meetings \cup {NoMeeting}]
      BY <1>4, <3>1
    <3>4. [server.key EXCEPT ![id] = c.key] \in [IDs -> Keys \cup {0}]
      BY <1>4, <3>1
    <3> QED  BY <2>2, <2>3, <3>2, <3>3, <3>4 DEF ServerType
  <2>5. CASE Reported("delivered", id) /\ UNCHANGED faults
    <3>1. /\ RuntimeOK(rt') /\ SameLauncher(rt, rt')
          /\ rt'.notifySlot = NoCommand
          /\ rt'.notifyResult
               = [event |-> "delivered", command |-> c, id |-> id]
      BY <1>1, <1>2, <2>2, <2>5, ReportRuntime
    <3>2. PICK e : e = rt'.notifyResult
      OBVIOUS
    <3>3. e.id = id /\ e.command = c
      BY <3>1, <3>2
    <3>4. ReportClaim(state, e, next)
      BY <2>2, <3>3 DEF ReportClaim
    <3>5. SlotClaim(state, NoCommand, next)
      BY DEF SlotClaim, NoCommand
    <3>6. IDsBelow(state, next)
      <4>1. IDsBelow(state, server.next)
        BY Fields DEF Claims
      <4>2. server.next \in Nat /\ \A k \in Keys : state.occurrences[k].id \in Nat
        BY EntryFields, Fields DEF ServerType, IInv
      <4>3. 0 < next
        BY <2>2, <4>1, <4>2 DEF IDsBelow
      <4>4. ASSUME NEW k \in Keys PROVE state.occurrences[k].id < next
        BY <2>2, <4>1, <4>2 DEF IDsBelow
      <4> QED  BY <4>3, <4>4 DEF IDsBelow
    <3>7. Claims(state, rt', server'.next)
      BY <2>4, <3>1, <3>2, <3>4, <3>5, <3>6 DEF Claims
    <3>8. faults' \in 0..MaxFaults
      BY <2>5, FaultType
    <3> QED  BY <1>5, <2>4, <3>1, <3>7, <3>8, QuietWorkOK
  <2>6. CASE Reported("failed", 0) /\ Fault
    <3>1. /\ RuntimeOK(rt') /\ SameLauncher(rt, rt')
          /\ rt'.notifySlot = NoCommand
          /\ rt'.notifyResult = [event |-> "failed", command |-> c, id |-> 0]
      BY <1>1, <1>2, <2>6, ReportRuntime
    <3>2. rt'.notifyResult.event # "delivered"
      BY <3>1
    <3>3. Claims(state, rt', server'.next)
      BY <2>2, <2>4, <3>1, <3>2, ReportClaims
    <3>4. faults' \in 0..MaxFaults
      BY <2>6, FaultType
    <3> QED  BY <1>5, <2>4, <3>1, <3>3, <3>4, QuietWorkOK
  <2> QED  BY <1>6, <2>5, <2>6
<1>7. ASSUME Reported("failed", 0), server' = server,
             faults' = faults \/ Fault
      PROVE  IInv'
  <2>1. /\ RuntimeOK(rt') /\ SameLauncher(rt, rt')
        /\ rt'.notifySlot = NoCommand
        /\ rt'.notifyResult = [event |-> "failed", command |-> c, id |-> 0]
    BY <1>1, <1>2, <1>7, ReportRuntime
  <2>2. rt'.notifyResult.event # "delivered"
    BY <2>1
  <2>3. server' \in ServerType /\ server'.next \in Nat
        /\ server'.next >= server.next
    <3>1. server \in ServerType /\ server.next \in Nat
      BY Fields DEF ServerType
    <3> QED  BY <1>7, <3>1
  <2>4. Claims(state, rt', server'.next)
    BY <2>1, <2>2, <2>3, ReportClaims
  <2>5. faults' \in 0..MaxFaults
    BY <1>7, FaultType
  <2> QED  BY <1>5, <2>1, <2>3, <2>4, <2>5, QuietWorkOK
<1> QED  BY <1>1, <1>6, <1>7 DEF CallNotify

(* A notification is withdrawn. *)
LEMMA CloseOK ==
  ASSUME IInv, CallClose
  PROVE  IInv'
<1>1. PICK c : c = rt.notifySlot
  OBVIOUS
<1>2. c.kind = "close" /\ c \in CommandType
  BY <1>1, Fields DEF CallClose, RuntimeType
<1>3. c.id \in Nat
  BY <1>2 DEF CommandType
<1>4. /\ state' = state /\ up' = up /\ exit' = exit /\ clicks' = clicks
      /\ stops' = stops /\ clock' = clock /\ opens' = opens
      /\ clock' \in 1..MaxTime
  BY Fields DEF CallClose
<1>5. \/ Reported("completed", c.id) /\ faults' = faults
      \/ Reported("failed", c.id) /\ Fault
  BY <1>1 DEF CallClose
<1>6. server' = Withdraw(c.id) \/ server' = server
  BY <1>1 DEF CallClose
<1>7. server' \in ServerType /\ server'.next \in Nat
      /\ server'.next >= server.next
  <2>1. server \in ServerType /\ server.next \in Nat
    BY Fields DEF ServerType
  <2>2. Withdraw(c.id) \in ServerType /\ Withdraw(c.id).next = server.next
    BY WithdrawType
  <2> QED  BY <1>6, <2>1, <2>2
<1>8. faults' \in 0..MaxFaults
  BY <1>5, FaultType
<1>9. /\ RuntimeOK(rt') /\ SameLauncher(rt, rt')
      /\ rt'.notifySlot = NoCommand
      /\ rt'.notifyResult.event # "delivered"
  <2>1. CASE Reported("completed", c.id)
    <3>1. /\ RuntimeOK(rt') /\ SameLauncher(rt, rt')
          /\ rt'.notifySlot = NoCommand
          /\ rt'.notifyResult
               = [event |-> "completed", command |-> c, id |-> c.id]
      BY <1>1, <1>2, <1>3, <2>1, ReportRuntime
    <3> QED  BY <3>1
  <2>2. CASE Reported("failed", c.id)
    <3>1. /\ RuntimeOK(rt') /\ SameLauncher(rt, rt')
          /\ rt'.notifySlot = NoCommand
          /\ rt'.notifyResult
               = [event |-> "failed", command |-> c, id |-> c.id]
      BY <1>1, <1>2, <1>3, <2>2, ReportRuntime
    <3> QED  BY <3>1
  <2> QED  BY <1>5, <2>1, <2>2
<1>10. Claims(state, rt', server'.next)
  BY <1>7, <1>9, ReportClaims
<1> QED  BY <1>4, <1>7, <1>8, <1>9, <1>10, QuietWorkOK

(* The service crashes. *)
LEMMA CrashOK ==
  ASSUME IInv, Crash
  PROVE  IInv'
<1>1. /\ Stop("crash") /\ state' = state /\ server' = server
      /\ clock' = clock /\ opens' = opens /\ clicks' = clicks /\ Fault
  BY DEF Crash
<1>2. Sound(state) /\ WidthsOK(state) /\ IDsBelow(state, server.next)
      /\ server \in ServerType
  BY Fields DEF IInv, TypeOK, Claims
<1>3. Sound(state') /\ WidthsOK(state') /\ IDsBelow(state', server.next)
      /\ server' \in ServerType /\ server'.next = server.next
  BY <1>1, <1>2
<1>4. faults' \in 0..MaxFaults
  BY <1>1, FaultType
<1> QED  BY <1>1, <1>3, <1>4, StopOK DEF ServerType

(* The service starts: every launch that was under way is made again. *)
LEMMA RestartOK ==
  ASSUME IInv, Restart
  PROVE  IInv'
<1>1. PICK t : t = NormalizeLegacy(state)
  OBVIOUS
<1>2. PICK s : s = Settle(t, clock)
  OBVIOUS
<1>3. PICK r : r = SchedulePolls(Boot, clock)
  OBVIOUS
<1>4. /\ up = FALSE /\ up' = TRUE /\ state' = s
      /\ rt' = ScheduleDurable(r, s, clock, {})
      /\ clock' = clock /\ exit' = exit /\ server' = server /\ opens' = opens
      /\ clicks' = clicks /\ faults' = faults /\ stops' = stops
  BY <1>1, <1>2, <1>3 DEF Restart, IInv, TypeOK
<1>5. Sound(state) /\ Fits(state) /\ clock \in Nat
  BY Times DEF IInv, TypeOK, WidthsOK, Fits
<1>6. Sound(t) /\ Fits(t)
  BY <1>1, <1>5, NormalizeSound
<1>7. Sound(s) /\ Fits(s) /\ WidthsOK(s)
  <2>1. Sound(s) /\ Fits(s)
    BY <1>2, <1>5, <1>6, SettleSound, SettleFits
  <2> QED  BY <2>1, SoundWidths
<1>8. ASSUME NEW k \in Keys
      PROVE  /\ t.occurrences[k].id = state.occurrences[k].id
             /\ t.occurrences[k].phase = state.occurrences[k].phase
  <2>1. state.occurrences[k] \in OccurrenceType /\ state \in StateType
    BY <1>5, LegitType DEF Sound
  <2> QED  BY <1>1, <2>1 DEF NormalizeLegacy, StateType, OccurrenceType
<1>9. ASSUME NEW k \in Keys
      PROVE  /\ s.occurrences[k].id \in {0, state.occurrences[k].id}
             /\ s.occurrences[k].phase = "join-pending"
                  => state.occurrences[k].phase = "join-pending"
  BY <1>2, <1>5, <1>6, <1>8, SettleEntries
<1>10. /\ Boot.launchSlot = NoLaunch /\ Boot.launchResult = NoLaunchResult
       /\ Boot.notifySlot = NoCommand /\ Boot.notifyResult = NoResult
  BY DEF Boot
<1>11. Claims(s, Boot, server.next)
  <2>1. IDsBelow(state, server.next)
    BY DEF IInv, Claims
  <2>2. IDsBelow(s, server.next)
    BY <1>9, <2>1 DEF IDsBelow
  <2> QED  BY <1>10, <2>2 DEF Claims, SlotClaim, ReportClaim, NoCommand,
              NoResult
<1>12. RuntimeOK(r) /\ SameNotifier(Boot, r) /\ SameLauncher(Boot, r)
  BY <1>3, BootOK, SchedulePollsOK
<1>13. Claims(s, r, server.next)
  BY <1>11, <1>12 DEF Claims, SameNotifier
<1>14. /\ RuntimeOK(rt') /\ Claims(s, rt', server.next)
       /\ \A k \in Keys : Debt(s, rt', k) =< Debt(s, r, k)
  BY <1>4, <1>7, <1>12, <1>13, ScheduleDurableOK
<1>15. ASSUME NEW k \in Keys PROVE Debt(s, r, k) =< Debt(state, rt, k)
  <2>1. Debt(s, r, k) = Debt(s, Boot, k)
    BY <1>12, SameDebt
  <2>2. rt.launchSlot = NoLaunch /\ rt.launchResult = NoLaunchResult
    BY <1>4 DEF IInv
  <2>3. Opening(Boot, k) = 0 /\ Opening(rt, k) = 0
    BY <1>10, <2>2 DEF Opening
  <2>4. state.occurrences[k].phase = "join-pending" => ~Taken(state, rt, k)
    BY <1>5, <2>2, EntryFields DEF Taken, LaunchOf, NoLaunchResult, NoLaunch
  <2>5. Waiting(s, Boot, k) =< Waiting(state, rt, k)
    BY <1>9, <2>4 DEF Waiting
  <2>6. Debt(s, Boot, k) = Waiting(s, Boot, k)
        /\ Debt(state, rt, k) = Waiting(state, rt, k)
    BY <2>3, DebtType DEF Debt
  <2> QED  BY <2>1, <2>5, <2>6
<1>16. /\ clicks \in [Keys -> Nat] /\ stops \in Nat /\ opens \in [Keys -> Nat]
       /\ exit \in {"", "crash", "save", "exhausted", "stale-delivery"}
  BY DEF IInv, TypeOK
<1>17. ASSUME NEW k \in Keys
       PROVE  opens'[k] + Debt(state', rt', k) =< clicks'[k] + stops'
  <2>1. PICK d0, d1, d2 : /\ d0 = Debt(state, rt, k) /\ d1 = Debt(s, r, k)
                          /\ d2 = Debt(s, rt', k)
    OBVIOUS
  <2>2. d0 \in Nat /\ d1 \in Nat /\ d2 \in Nat
    BY <2>1, DebtType
  <2>3. d2 =< d1 /\ d1 =< d0
    BY <1>14, <1>15, <2>1
  <2>4. opens[k] + d0 =< clicks[k] + stops
    BY <2>1 DEF IInv, Accounted
  <2>5. opens[k] \in Nat /\ clicks[k] \in Nat /\ stops \in Nat
    BY <1>16
  <2>6. opens[k] + d2 =< clicks[k] + stops
    BY <2>2, <2>3, <2>4, <2>5
  <2> QED  BY <1>4, <2>1, <2>6
<1>18. Accounted'
  BY <1>17 DEF Accounted
<1>19. /\ clock' \in 1..MaxTime /\ server' \in ServerType
       /\ faults' \in 0..MaxFaults /\ up' = TRUE
  BY <1>4, Fields
<1>20. /\ Sound(state') /\ WidthsOK(state') /\ RuntimeOK(rt')
       /\ Claims(state', rt', server'.next)
  BY <1>4, <1>7, <1>14
<1>21. /\ clicks' \in [Keys -> Nat] /\ stops' \in Nat /\ opens' \in [Keys -> Nat]
       /\ exit' \in {"", "crash", "save", "exhausted", "stale-delivery"}
  BY <1>4, <1>16
<1> QED  BY <1>18, <1>19, <1>20, <1>21, InvParts DEF ServerType

(* Nothing happens but that the clock, a fault or the screen may change. *)
LEMMA OutsideOK ==
  ASSUME IInv, state' = state, up' = up, exit' = exit, clicks' = clicks,
         stops' = stops, opens' = opens, clock' \in 1..MaxTime,
         faults' = faults, server' \in ServerType, server'.next = server.next,
         RuntimeOK(rt'), SameLauncher(rt, rt'), SameNotifier(rt, rt')
  PROVE  IInv'
<1>1. Claims(state, rt', server'.next)
  BY Fields DEF Claims, SameNotifier
<1>2. faults' \in 0..MaxFaults
  BY Fields
<1> QED  BY <1>1, <1>2, QuietWorkOK

(* A poll interval passes. *)
LEMMA AdvanceOK ==
  ASSUME IInv, Advance
  PROVE  IInv'
<1>1. rt' = [rt EXCEPT !.tick = up] /\ up \in BOOLEAN
  BY DEF Advance, IInv, TypeOK
<1>2. rt' \in RuntimeType /\ rt'.full = rt.full
  BY <1>1, Fields DEF RuntimeType
<1>3. SameActivity(rt, rt') /\ SameNotifier(rt, rt') /\ SameLauncher(rt, rt')
      /\ SamePolls(rt, rt')
  BY <1>1, Fields DEF SameActivity, SameNotifier, SameLauncher, SamePolls,
                      RuntimeType
<1>4. RuntimeOK(rt')
  BY <1>2, <1>3, Fields, SameOK DEF RuntimeOK
<1>5. clock' \in 1..MaxTime
  <2>1. clock \in 1..MaxTime /\ MaxTime \in Nat
    BY Fields, BoundsAssumption
  <2> QED  BY <2>1 DEF Advance
<1>6. server' \in ServerType /\ server'.next = server.next
  BY Fields DEF Advance
<1> QED  BY <1>3, <1>4, <1>5, <1>6, OutsideOK DEF Advance

(* A notification leaves the screen. *)
LEMMA ArchiveType ==
  ASSUME IInv, NEW id
  PROVE  Archive(id) \in ServerType /\ Archive(id).next = server.next
<1>1. server \in ServerType
  BY Fields
<1>2. server.shown \in [IDs -> {"no", "yes", "history"}]
  BY <1>1 DEF ServerType
<1>3. [server.shown EXCEPT ![id] = "history"]
        \in [IDs -> {"no", "yes", "history"}]
  BY <1>2
<1> QED  BY <1>1, <1>3 DEF Archive, ServerType

(* The user dismisses it, or clicks. *)
LEMMA UserOK ==
  ASSUME IInv, NEW id \in IDs, Dismiss(id) \/ Click(id)
  PROVE  IInv'
<1>1. /\ \E sent : Emit(sent)
      /\ server' = Archive(id) \/ server' = server
  BY DEF Dismiss, Click
<1>2. /\ state' = state /\ up' = up /\ exit' = exit /\ clicks' = clicks
      /\ stops' = stops /\ opens' = opens /\ clock' = clock
      /\ faults' = faults /\ rt' = rt
  BY <1>1 DEF Emit
<1>3. server' \in ServerType /\ server'.next = server.next
  BY <1>1, Fields, ArchiveType
<1>4. RuntimeOK(rt') /\ SameLauncher(rt, rt') /\ SameNotifier(rt, rt')
  BY <1>2, Fields DEF SameLauncher, SameNotifier
<1>5. clock' \in 1..MaxTime
  BY <1>2, Fields
<1> QED  BY <1>2, <1>3, <1>4, <1>5, OutsideOK

LEMMA StutterOK ==
  ASSUME IInv, UNCHANGED vars
  PROVE  IInv'
<1>1. /\ state' = state /\ up' = up /\ exit' = exit /\ clicks' = clicks
      /\ stops' = stops /\ opens' = opens /\ clock' = clock
      /\ faults' = faults /\ rt' = rt /\ server' = server
  BY DEF vars
<1>2. RuntimeOK(rt') /\ SameLauncher(rt, rt') /\ SameNotifier(rt, rt')
  BY <1>1, Fields DEF SameLauncher, SameNotifier
<1>3. clock' \in 1..MaxTime /\ server' \in ServerType
      /\ server'.next = server.next
  BY <1>1, Fields
<1> QED  BY <1>1, <1>2, <1>3, OutsideOK

-----------------------------------------------------------------------------
(* The theorems *)

(* The invariant holds before the service was ever started. *)
LEMMA InitInv == Init => IInv
<1> SUFFICES ASSUME Init PROVE IInv
  OBVIOUS
<1>1. /\ clock = 1 /\ state = NewState /\ up = FALSE /\ exit = "" /\ rt = Boot
      /\ server = [shown |-> [i \in IDs |-> "no"],
                   meeting |-> [i \in IDs |-> NoMeeting],
                   key |-> [i \in IDs |-> 0], next |-> 1]
      /\ faults = 0 /\ stops = 0
      /\ opens = [k \in Keys |-> 0] /\ clicks = [k \in Keys |-> 0]
  BY DEF Init
<1>2. Sound(state) /\ WidthsOK(state) /\ state \in StateType
  BY <1>1, NewStateSound, SoundWidths DEF Sound
<1>3. RuntimeOK(rt)
  BY <1>1, BootOK
<1>4. rt.notifySlot \in CommandType /\ rt.notifyResult \in NotifyResultType
  BY <1>3 DEF RuntimeOK, RuntimeType
<1>5. server \in ServerType /\ server.next = 1
  BY <1>1 DEF ServerType
<1>6. clock \in 1..MaxTime /\ faults \in 0..MaxFaults /\ stops \in Nat
  <2>1. MaxTime \in Nat \ {0} /\ MaxFaults \in Nat
    BY BoundsAssumption
  <2>2. 1 \in 1..MaxTime /\ 0 \in 0..MaxFaults
    BY <2>1
  <2> QED  BY <1>1, <2>2
<1>7. opens \in [Keys -> Nat] /\ clicks \in [Keys -> Nat]
  BY <1>1
<1>8. TypeOK
  BY <1>1, <1>2, <1>4, <1>5, <1>6, <1>7 DEF TypeOK, ServerType
<1>9. /\ Boot.launchSlot = NoLaunch /\ Boot.launchResult = NoLaunchResult
      /\ Boot.notifySlot = NoCommand /\ Boot.notifyResult = NoResult
  BY DEF Boot
<1>10. \A k \in Keys : /\ state.occurrences[k].id = 0
                       /\ state.occurrences[k].phase = "absent"
  BY <1>1 DEF NewState, NoEntry
<1>11. Claims(state, rt, server.next)
  <2>1. IDsBelow(state, server.next)
    BY <1>5, <1>10 DEF IDsBelow
  <2>2. rt.notifySlot = NoCommand /\ rt.notifyResult = NoResult
    BY <1>1, <1>9
  <2>3. NoCommand.kind = "none" /\ NoResult.event = "none"
    BY DEF NoCommand, NoResult
  <2> QED  BY <2>1, <2>2, <2>3 DEF Claims, SlotClaim, ReportClaim
<1>12. ASSUME NEW k \in Keys
       PROVE  opens[k] + Debt(state, rt, k) =< clicks[k] + stops
  <2>1. Opening(rt, k) = 0 /\ Waiting(state, rt, k) = 0
    BY <1>1, <1>9, <1>10 DEF Opening, Waiting
  <2>2. Debt(state, rt, k) = 0
    BY <2>1 DEF Debt
  <2>3. opens[k] = 0 /\ clicks[k] = 0 /\ stops = 0
    BY <1>1
  <2> QED  BY <2>2, <2>3
<1>13. Accounted
  BY <1>12 DEF Accounted
<1> QED  BY <1>1, <1>2, <1>3, <1>8, <1>9, <1>11, <1>13 DEF IInv

(* Every step keeps it. *)
LEMMA NextInv == IInv /\ [Next]_vars => IInv'
<1> SUFFICES ASSUME IInv, [Next]_vars PROVE IInv'
  OBVIOUS
<1>1. CASE Handle
  <2>1. \/ HandleTick \/ HandleActivity \/ HandleLaunch
        \/ \E a \in Accounts : HandlePoll(a)
        \/ HandleDelivered \/ HandleFailed \/ HandleCompleted \/ HandleSignal
    BY <1>1 DEF Handle
  <2> QED  BY <2>1, TickOK, ActivityResultOK, LaunchResultOK, PollOKs,
              DeliveredOK, FailedOK, CompletedOK, SignalOK
<1>2. CASE Work
  <2>1. \/ CheckActivity \/ OpenMeeting
        \/ \E a \in Accounts : FetchCalendar(a)
        \/ CallNotify \/ CallClose
    BY <1>2 DEF Work
  <2> QED  BY <2>1, CheckOK, OpenOK, FetchOK, NotifyOK, CloseOK
<1>3. CASE Crash
  BY <1>3, CrashOK
<1>4. CASE Restart
  BY <1>4, RestartOK
<1>5. CASE Advance
  BY <1>5, AdvanceOK
<1>6. CASE \E id \in IDs : Dismiss(id) \/ Click(id)
  BY <1>6, UserOK
<1>7. CASE Horizon \/ UNCHANGED vars
  BY <1>7, StutterOK DEF Horizon
<1> QED  BY <1>1, <1>2, <1>3, <1>4, <1>5, <1>6, <1>7 DEF Next

LEMMA InvariantHolds == Spec => []IInv
  BY InitInv, NextInv, PTL DEF Spec

(* The variables of the service keep their types and the counters their     *)
(* width, whatever polls, users, crashes and failing calls do.              *)
THEOREM ServiceTypeCorrect == Spec => []TypeOK
<1>1. IInv => TypeOK
  BY DEF IInv
<1> QED  BY <1>1, InvariantHolds, PTL

(* Runtime.dispatch never meets ErrCommandSlotFull and schedulePolls never  *)
(* blocks the loop: what the busy flags promise of the one-place channels.  *)
THEOREM DispatchNeverBlocks == Spec => []SlotNeverFull
<1>1. IInv => SlotNeverFull
  BY DEF IInv, RuntimeOK, SlotNeverFull
<1> QED  BY <1>1, InvariantHolds, PTL

(* State.Validate refuses no state the reducer hands to Loop.process, in    *)
(* particular never for a notification id that two entries hold: the ids    *)
(* under way between the server and the loop never clash with one in the    *)
(* state.                                                                   *)
THEOREM ValidationNeverFails == Spec => []NeverRejected
<1>1. IInv => NeverRejected
  BY DEF IInv, NeverRejected
<1> QED  BY <1>1, InvariantHolds, PTL

(* A Join click opens its meeting once, and again only after a stop of the  *)
(* service: no launch is made twice for one join revision while it runs.    *)
THEOREM OpenedOncePerClick == Spec => []OneOpenPerClick
<1>1. ASSUME IInv PROVE OneOpenPerClick
  <2>1. ASSUME NEW k \in Keys PROVE opens[k] =< clicks[k] + stops
    <3>1. Debt(state, rt, k) \in Nat
      BY DebtType
    <3>2. opens[k] \in Nat /\ clicks[k] \in Nat /\ stops \in Nat
      BY <1>1 DEF IInv, TypeOK
    <3>3. opens[k] + Debt(state, rt, k) =< clicks[k] + stops
      BY <1>1 DEF IInv, Accounted
    <3> QED  BY <3>1, <3>2, <3>3
  <2> QED  BY <2>1 DEF OneOpenPerClick
<1> QED  BY <1>1, InvariantHolds, PTL

-----------------------------------------------------------------------------
(* No wakeup is lost *)

(* A worker that is busy has a command or a result on its way. *)
Covered(r) ==
  /\ r.activityBusy = TRUE => r.activitySlot = TRUE \/ r.activityResult.at # 0
  /\ r.notifierBusy = TRUE =>
       r.notifySlot # NoCommand \/ r.notifyResult # NoResult
  /\ r.launcherBusy = TRUE =>
       r.launchSlot # NoLaunch \/ r.launchResult.at # 0
  /\ \A a \in r.pollBusy : a \in r.pollSlot \/ r.pollResult[a].at # 0

(* What is ready at a time has been given to its worker, unless that is     *)
(* busy.                                                                    *)
Scheduled(r, s, at) ==
  /\ r.notifierBusy = FALSE =>
       NotificationKeys(s, at) = {} /\ WarningAccounts(s, at) = {}
  /\ r.launcherBusy = FALSE => LaunchKeys(s) = {}
  /\ r.activityBusy = FALSE /\ HasDue(s, at) => r.activityStale = FALSE

(* What the scheduler leaves alone. *)
Carries(r, n) ==
  /\ r.notifierBusy = TRUE => n.notifierBusy = TRUE
  /\ n.tick = r.tick /\ n.activityResult.at = r.activityResult.at
  /\ n.launchResult.at = r.launchResult.at
  /\ \A a \in Accounts : n.pollResult[a].at = r.pollResult[a].at

(* scheduleDurable leaves nothing that is ready without a worker. *)
LEMMA ScheduleDurableWakes ==
  ASSUME NEW s, Sound(s), NEW r, RuntimeOK(r), Covered(r), NEW at,
         NEW created, created \subseteq Accounts,
         NEW n, n = ScheduleDurable(r, s, at, created)
  PROVE  Covered(n) /\ Scheduled(n, s, at) /\ Carries(r, n)
<1>1. PICK r1 : r1 = IF HasDue(s, at) /\ r.activityStale
                       THEN DispatchActivity(r) ELSE r
  OBVIOUS
<1>2. PICK c : c = NextNotification(s, at, created)
  OBVIOUS
<1>3. PICK r2 : r2 = IF c # NoCommand THEN DispatchNotifier(r1, c) ELSE r1
  OBVIOUS
<1>4. n = IF LaunchKeys(s) # {} THEN DispatchLaunch(r2, NextLaunch(s)) ELSE r2
  BY <1>1, <1>2, <1>3 DEF ScheduleDurable
<1>5. r \in RuntimeType
  BY DEF RuntimeOK
<1>6. /\ RuntimeOK(r1) /\ Covered(r1) /\ Carries(r, r1)
      /\ r1.activityBusy = FALSE /\ HasDue(s, at) => r1.activityStale = FALSE
  <2>1. RuntimeOK(r1)
    BY <1>1, DispatchActivityOK
  <2>2. CASE r1 = r /\ (r.activityBusy = TRUE \/ ~HasDue(s, at)
                        \/ r.activityStale = FALSE)
    BY <2>1, <2>2 DEF Carries
  <2>3. CASE r1 = [r EXCEPT !.activityBusy = TRUE, !.activityStale = FALSE,
                            !.activitySlot = TRUE,
                            !.full = r.full \/ r.activitySlot]
    <3>1. /\ r1.activityBusy = TRUE /\ r1.activitySlot = TRUE
          /\ r1.notifierBusy = r.notifierBusy /\ r1.notifySlot = r.notifySlot
          /\ r1.notifyResult = r.notifyResult
          /\ r1.launcherBusy = r.launcherBusy /\ r1.launchSlot = r.launchSlot
          /\ r1.launchResult = r.launchResult
          /\ r1.pollBusy = r.pollBusy /\ r1.pollSlot = r.pollSlot
          /\ r1.pollResult = r.pollResult /\ r1.tick = r.tick
          /\ r1.activityResult = r.activityResult
      BY <1>5, <2>3 DEF RuntimeType
    <3> QED  BY <2>1, <3>1 DEF Covered, Carries
  <2>4. r.activityBusy \in BOOLEAN /\ r.activityStale \in BOOLEAN
    BY <1>5 DEF RuntimeType
  <2> QED  BY <1>1, <2>2, <2>3, <2>4 DEF DispatchActivity
<1>7. /\ c \in CommandType /\ CommandOK(c)
      /\ \/ c # NoCommand
         \/ NotificationKeys(s, at) = {} /\ WarningAccounts(s, at) = {}
  BY <1>2, NextNotificationOK DEF NoCommand
<1>8. /\ RuntimeOK(r2) /\ Covered(r2) /\ Carries(r1, r2)
      /\ r2.activityBusy = r1.activityBusy
      /\ r2.activityStale = r1.activityStale
      /\ r2.notifierBusy = FALSE =>
           NotificationKeys(s, at) = {} /\ WarningAccounts(s, at) = {}
  <2>1. r1 \in RuntimeType
    BY <1>6 DEF RuntimeOK
  <2>2. RuntimeOK(r2)
    BY <1>3, <1>6, <1>7, DispatchNotifierOK
  <2>3. CASE r2 = r1 /\ (c = NoCommand \/ r1.notifierBusy = TRUE)
    BY <1>6, <1>7, <2>3 DEF Carries
  <2>4. CASE /\ c # NoCommand
             /\ r2 = [r1 EXCEPT !.notifierBusy = TRUE, !.notifySlot = c,
                                !.full = @ \/ r1.notifySlot # NoCommand]
    <3>1. /\ r2.activityBusy = r1.activityBusy
          /\ r2.activitySlot = r1.activitySlot
          /\ r2.activityStale = r1.activityStale
          /\ r2.notifierBusy = TRUE /\ r2.notifySlot = c
          /\ r2.launcherBusy = r1.launcherBusy /\ r2.launchSlot = r1.launchSlot
          /\ r2.launchResult = r1.launchResult
          /\ r2.pollBusy = r1.pollBusy /\ r2.pollSlot = r1.pollSlot
          /\ r2.pollResult = r1.pollResult /\ r2.tick = r1.tick
          /\ r2.activityResult = r1.activityResult
      BY <2>1, <2>4 DEF RuntimeType
    <3> QED  BY <1>6, <2>2, <2>4, <3>1 DEF Covered, Carries
  <2>5. r1.notifierBusy \in BOOLEAN
    BY <2>1 DEF RuntimeType
  <2> QED  BY <1>3, <2>3, <2>4, <2>5 DEF DispatchNotifier
<1>9. /\ Covered(n) /\ Carries(r2, n)
      /\ n.activityBusy = r2.activityBusy
      /\ n.activityStale = r2.activityStale
      /\ n.notifierBusy = r2.notifierBusy
      /\ n.launcherBusy = FALSE => LaunchKeys(s) = {}
  <2>1. r2 \in RuntimeType
    BY <1>8 DEF RuntimeOK
  <2>2. CASE n = r2 /\ (LaunchKeys(s) = {} \/ r2.launcherBusy = TRUE)
    BY <1>8, <2>2 DEF Carries
  <2>3. CASE /\ LaunchKeys(s) # {}
             /\ n = [r2 EXCEPT !.launcherBusy = TRUE,
                               !.launchSlot = NextLaunch(s),
                               !.full = @ \/ r2.launchSlot # NoLaunch]
    <3>1. PICK l : l = NextLaunch(s)
      OBVIOUS
    <3>2. l # NoLaunch
      <4>1. l.key \in Keys /\ s.occurrences[l.key].phase = "join-pending"
            /\ LaunchOf(s, l, l.key)
        BY <2>3, <3>1, NextLaunchOK
      <4>2. l.revision # 0
        BY <4>1, EntryFields DEF LaunchOf
      <4> QED  BY <4>2 DEF NoLaunch
    <3>3. /\ n.activityBusy = r2.activityBusy
          /\ n.activitySlot = r2.activitySlot
          /\ n.activityStale = r2.activityStale
          /\ n.launcherBusy = TRUE /\ n.launchSlot = l
          /\ n.notifierBusy = r2.notifierBusy /\ n.notifySlot = r2.notifySlot
          /\ n.notifyResult = r2.notifyResult
          /\ n.launchResult = r2.launchResult
          /\ n.pollBusy = r2.pollBusy /\ n.pollSlot = r2.pollSlot
          /\ n.pollResult = r2.pollResult /\ n.tick = r2.tick
          /\ n.activityResult = r2.activityResult
      BY <2>1, <2>3, <3>1 DEF RuntimeType
    <3> QED  BY <1>8, <3>2, <3>3 DEF Covered, Carries
  <2>4. r2.launcherBusy \in BOOLEAN
    BY <2>1 DEF RuntimeType
  <2> QED  BY <1>4, <2>2, <2>3, <2>4 DEF DispatchLaunch
<1>10. Carries(r, n)
  BY <1>6, <1>8, <1>9 DEF Carries
<1>11. Scheduled(n, s, at)
  BY <1>6, <1>8, <1>9 DEF Scheduled
<1> QED  BY <1>9, <1>10, <1>11

(* schedulePolls gives every account it marks busy a command. *)
LEMMA SchedulePollsWakes ==
  ASSUME NEW r, RuntimeOK(r), Covered(r), NEW at,
         NEW r1, r1 = SchedulePolls(r, at)
  PROVE  Covered(r1) /\ Carries(r, r1)
<1>1. r \in RuntimeType
  BY DEF RuntimeOK
<1>2. PICK ready : ready = {a \in Accounts \ r.pollBusy :
                              r.retries[a].next =< at}
  OBVIOUS
<1>3. r1 = [r EXCEPT !.pollBusy = @ \cup ready, !.pollSlot = @ \cup ready,
                     !.full = @ \/ ready \cap r.pollSlot # {}]
  BY <1>2 DEF SchedulePolls
<1>4. /\ r1.activityBusy = r.activityBusy
      /\ r1.activitySlot = r.activitySlot
      /\ r1.notifierBusy = r.notifierBusy /\ r1.notifySlot = r.notifySlot
      /\ r1.notifyResult = r.notifyResult
      /\ r1.launcherBusy = r.launcherBusy /\ r1.launchSlot = r.launchSlot
      /\ r1.launchResult = r.launchResult
      /\ r1.pollBusy = r.pollBusy \cup ready
      /\ r1.pollSlot = r.pollSlot \cup ready
      /\ r1.pollResult = r.pollResult /\ r1.tick = r.tick
      /\ r1.activityResult = r.activityResult
  BY <1>1, <1>3 DEF RuntimeType
<1>5. Covered(r1) /\ Carries(r, r1)
  BY <1>4 DEF Covered, Carries
<1> QED  BY <1>5

(* afterCommit as well. *)
LEMMA AfterCommitWakes ==
  ASSUME NEW next, Sound(next), NEW r, RuntimeOK(r), Covered(r),
         NEW at, NEW kind, NEW q, q = AfterCommit(r, next, at, kind)
  PROVE  Covered(q) /\ Scheduled(q, next, at) /\ Carries(r, q)
<1>1. PICK r1 : r1 = CASE kind = "tick" -> SchedulePolls(r, at)
                      [] kind \notin {"tick", "activity"} /\ next # state ->
                           [r EXCEPT !.activityStale = TRUE]
                      [] OTHER -> r
  OBVIOUS
<1>2. q = ScheduleDurable(r1, next, at, Created(next))
  BY <1>1, Zenon DEF AfterCommit
<1>3. \/ r1 = SchedulePolls(r, at)
      \/ r1 = [r EXCEPT !.activityStale = TRUE]
      \/ r1 = r
  BY <1>1, Zenon
<1>4. r \in RuntimeType
  BY DEF RuntimeOK
<1>5. RuntimeOK(r1) /\ Covered(r1) /\ Carries(r, r1)
  <2>1. CASE r1 = SchedulePolls(r, at)
    BY <2>1, SchedulePollsOK, SchedulePollsWakes
  <2>2. CASE r1 = [r EXCEPT !.activityStale = TRUE]
    <3>1. r1 \in RuntimeType /\ r1.full = r.full /\ r1.tick = r.tick
      BY <1>4, <2>2 DEF RuntimeType
    <3>2. SameActivity(r, r1) /\ SameNotifier(r, r1) /\ SameLauncher(r, r1)
          /\ SamePolls(r, r1)
      BY <1>4, <2>2 DEF SameActivity, SameNotifier, SameLauncher, SamePolls,
                        RuntimeType
    <3>3. RuntimeOK(r1)
      BY <3>1, <3>2, SameOK DEF RuntimeOK
    <3>4. Covered(r1) /\ Carries(r, r1)
      BY <3>1, <3>2 DEF Covered, Carries, SameActivity, SameNotifier,
                        SameLauncher, SamePolls
    <3> QED  BY <3>3, <3>4
  <2>3. CASE r1 = r
    BY <2>3 DEF Carries
  <2> QED  BY <1>3, <2>1, <2>2, <2>3
<1>6. Created(next) \subseteq Accounts
  BY DEF Created
<1>7. Covered(q) /\ Scheduled(q, next, at) /\ Carries(r1, q)
  BY <1>2, <1>5, <1>6, ScheduleDurableWakes
<1> QED  BY <1>5, <1>7 DEF Carries

-----------------------------------------------------------------------------
(* An event may be handled for a time that has passed *)

Ready(o, at) == NotifyReady(o, at) \/ CloseReady(o, at)

(* An entry that is ready now was made ready for the time of the event, or  *)
(* was ready before.                                                        *)
Wakes(o, n, at, now) == Ready(n, now) => Ready(n, at) \/ Ready(o, now)

StateWakes(s, t, at, now) ==
  /\ \A k \in Keys : Wakes(s.occurrences[k], t.occurrences[k], at, now)
  /\ \A a \in WarningAccounts(t, now) :
       a \in WarningAccounts(t, at) \/ a \in WarningAccounts(s, now)

(* A close that begins is ready at once. *)
LEMMA ClosingWakes ==
  ASSUME NEW o, NEW n, n.phase = "close-pending", n.notBefore = 0,
         NEW at \in Nat, NEW now
  PROVE  Wakes(o, n, at, now)
  BY DEF Wakes, Ready, CloseReady

(* An entry of another phase never is. *)
LEMMA QuietWakes ==
  ASSUME NEW o, NEW n, n.phase \notin {"notify-pending", "close-pending"},
         NEW at, NEW now
  PROVE  Wakes(o, n, at, now)
  BY DEF Wakes, Ready, CloseReady, NotifyReady

LEMMA SelfWakes ==
  ASSUME NEW o, NEW at, NEW now
  PROVE  Wakes(o, o, at, now)
  BY DEF Wakes

(* The fields of an entry that beginClose writes. *)
LEMMA BeginCloseWakes ==
  ASSUME NEW o, NEW p, Legit(p), NEW reason, NEW resume, NEW at \in Nat, NEW now
  PROVE  Wakes(o, BeginClose(p, reason, resume), at, now)
<1>1. p \in OccurrenceType
  BY LegitType
<1>2. PICK n : n = BeginClose(p, reason, resume)
  OBVIOUS
<1>3. n.phase = "close-pending" /\ n.notBefore = 0
  BY <1>1, <1>2 DEF BeginClose, OccurrenceType
<1> QED  BY <1>2, <1>3, ClosingWakes

LEMMA NoEntryWakes ==
  ASSUME NEW o, NEW at, NEW now
  PROVE  Wakes(o, NoEntry, at, now)
  BY QuietWakes DEF NoEntry

(* The tail of the reducer. *)
LEMMA ExpireWakes ==
  ASSUME NEW o, NEW n, Legit(n), NEW at \in Nat, NEW now, Wakes(o, n, at, now)
  PROVE  Wakes(o, ExpireNotifyPending(n, at), at, now)
<1>1. \/ ExpireNotifyPending(n, at) = n
      \/ ExpireNotifyPending(n, at) = NoEntry
      \/ ExpireNotifyPending(n, at) = BeginClose(n, "expired", "")
  BY DEF ExpireNotifyPending
<1> QED  BY <1>1, NoEntryWakes, BeginCloseWakes

(* reconcileRemoved. *)
LEMMA RemovedWakes ==
  ASSUME NEW o, NEW c, Legit(c), NEW reason, NEW at \in Nat, NEW now,
         Wakes(o, c, at, now)
  PROVE  Wakes(o, ReconcileRemoved(c, reason), at, now)
<1>1. \/ ReconcileRemoved(c, reason) = c
      \/ ReconcileRemoved(c, reason) = NoEntry
      \/ ReconcileRemoved(c, reason) = BeginClose(c, reason, "")
      \/ /\ c.phase = "notify-pending"
         /\ ReconcileRemoved(c, reason)
              = BeginClose([c EXCEPT !.notifyRevision = @ + 1], reason, "")
  BY Zenon DEF ReconcileRemoved
<1>2. CASE c.phase = "notify-pending"
  <2>1. PICK p : p = [c EXCEPT !.notifyRevision = @ + 1]
    OBVIOUS
  <2>2. Legit(p)
    BY <1>2, <2>1, BumpKeeps
  <2> QED  BY <1>1, <2>1, <2>2, NoEntryWakes, BeginCloseWakes
<1>3. CASE c.phase # "notify-pending"
  BY <1>1, <1>3, NoEntryWakes, BeginCloseWakes
<1> QED  BY <1>2, <1>3

(* The meeting of a waiting announcement changes. *)
LEMMA RenewPendingWakes ==
  ASSUME NEW o, Legit(o), o.phase = "notify-pending", NEW m \in Meetings,
         NEW at \in Nat, NEW now \in Nat
  PROVE  Wakes(o, RenewPending(o, m, at), at, now)
<1>1. PICK r : r = Renewed(o, m)
  OBVIOUS
<1>2. Legit(r) /\ r.phase = "notify-pending" /\ r.meeting = m
  BY <1>1, RenewedKeeps
<1>3. r \in OccurrenceType
  BY <1>2, LegitType
<1>4. PICK n : n = RenewPending(o, m, at)
  OBVIOUS
<1>5. CASE Due(m, at)
  <2>1. n = [r EXCEPT !.notBefore = at, !.attempt = 0]
    BY <1>1, <1>4, <1>5, Zenon DEF RenewPending
  <2>2. n.phase = "notify-pending" /\ n.notBefore = at /\ n.meeting = m
    BY <1>2, <1>3, <2>1 DEF OccurrenceType
  <2>3. Ready(n, at)
    BY <1>5, <2>2 DEF Ready, NotifyReady
  <2> QED  BY <1>4, <2>3 DEF Wakes
<1>6. CASE ~Due(m, at) /\ o.id # 0
  <2>1. n = BeginClose(r, "rescheduled", "scheduled")
    BY <1>1, <1>4, <1>6, Zenon DEF RenewPending
  <2> QED  BY <1>2, <1>4, <2>1, BeginCloseWakes
<1>7. CASE ~Due(m, at) /\ o.id = 0
  <2>1. n = [r EXCEPT !.phase = "scheduled", !.notBefore = 0, !.attempt = 0]
    BY <1>1, <1>4, <1>7, Zenon DEF RenewPending
  <2>2. n.phase = "scheduled"
    BY <1>3, <2>1 DEF OccurrenceType
  <2> QED  BY <1>4, <2>2, QuietWakes
<1> QED  BY <1>5, <1>6, <1>7

(* reconcileCurrent. *)
LEMMA CurrentWakes ==
  ASSUME NEW o, Legit(o), NEW m \in Meetings, NEW at \in Nat, NEW now \in Nat
  PROVE  Wakes(o, ReconcileCurrent(o, m, at), at, now)
<1>1. PICK silent : silent = (\/ o.phase \in {"joined", "scheduled", "close-pending"}
                              \/ ~ReplacementRelevantChanged(o.meeting, m))
  OBVIOUS
<1>2. PICK n : n = ReconcileCurrent(o, m, at)
  OBVIOUS
<1>3. o \in OccurrenceType
  BY LegitType
<1>4. CASE o.phase = "absent"
  <2>1. n = [NoEntry EXCEPT !.meeting = m, !.phase = "scheduled"]
    BY <1>2, <1>4, Zenon DEF ReconcileCurrent
  <2>2. n.phase = "scheduled"
    BY <2>1 DEF NoEntry
  <2> QED  BY <1>2, <2>2, QuietWakes
<1>5. CASE /\ o.phase # "absent"
           /\ \/ o.phase \in {"joined", "scheduled", "close-pending"}
              \/ ~ReplacementRelevantChanged(o.meeting, m)
  <2>1. n = [o EXCEPT !.meeting = m]
    BY <1>2, <1>5, Zenon DEF ReconcileCurrent
  <2>2. n.phase = o.phase /\ n.notBefore = o.notBefore /\ n.meeting = m
    BY <1>3, <2>1 DEF OccurrenceType
  <2>3. o.phase = "notify-pending" => o.meeting = m
    BY <1>5 DEF ReplacementRelevantChanged
  <2>4. Ready(n, now) => Ready(o, now)
    BY <2>2, <2>3 DEF Ready, NotifyReady, CloseReady
  <2> QED  BY <1>2, <2>4 DEF Wakes
<1>6. CASE /\ o.phase = "notify-pending"
           /\ ReplacementRelevantChanged(o.meeting, m)
  <2>1. n = RenewPending(o, m, at)
    BY <1>2, <1>6, Zenon DEF ReconcileCurrent
  <2> QED  BY <1>2, <1>6, <2>1, RenewPendingWakes
<1>7. CASE /\ o.phase \notin {"absent", "joined", "scheduled", "close-pending",
                              "notify-pending"}
           /\ ReplacementRelevantChanged(o.meeting, m)
  <2>1. n = IF Due(m, at) THEN PrepareReplacement(o, m, at)
            ELSE [BeginClose(o, "rescheduled", "scheduled") EXCEPT !.meeting = m]
    BY <1>2, <1>7, Zenon DEF ReconcileCurrent
  <2>2. CASE Due(m, at)
    <3>1. PICK r : r = Renewed(o, m)
      OBVIOUS
    <3>2. Legit(r) /\ r.meeting = m
      BY <1>7, <3>1, RenewedKeeps
    <3>3. r \in OccurrenceType
      BY <3>2, LegitType
    <3>4. n = [r EXCEPT !.phase = "notify-pending", !.notifiedAt = FALSE,
                 !.actionExpiresAt = 0, !.notBefore = at, !.attempt = 0,
                 !.joinRequestedAt = FALSE, !.joinedAt = FALSE,
                 !.closeReason = "", !.resume = ""]
      BY <2>1, <2>2, <3>1 DEF PrepareReplacement
    <3>5. n.phase = "notify-pending" /\ n.notBefore = at /\ n.meeting = m
      BY <3>2, <3>3, <3>4 DEF OccurrenceType
    <3>6. Ready(n, at)
      BY <2>2, <3>5 DEF Ready, NotifyReady
    <3> QED  BY <1>2, <3>6 DEF Wakes
  <2>3. CASE ~Due(m, at)
    <3>1. PICK c : c = BeginClose(o, "rescheduled", "scheduled")
      OBVIOUS
    <3>2. n = [c EXCEPT !.meeting = m]
      BY <2>1, <2>3, <3>1
    <3>3. c.phase = "close-pending" /\ c.notBefore = 0
      BY <1>3, <3>1 DEF BeginClose, OccurrenceType
    <3>4. n.phase = "close-pending" /\ n.notBefore = 0
      <4>1. c = [o EXCEPT !.phase = "close-pending",
                   !.closeReason = "rescheduled", !.resume = "scheduled",
                   !.notifiedAt = FALSE, !.actionExpiresAt = 0,
                   !.notBefore = 0, !.attempt = 0, !.joinRequestedAt = FALSE,
                   !.joinedAt = FALSE]
        BY <3>1 DEF BeginClose
      <4> QED  BY <1>3, <3>2, <4>1 DEF OccurrenceType
    <3> QED  BY <1>2, <3>4, ClosingWakes
  <2> QED  BY <2>2, <2>3
<1> QED  BY <1>4, <1>5, <1>6, <1>7

(* What a successful poll does to one entry. *)
LEMMA ReconciledWakes ==
  ASSUME NEW o, Legit(o), NEW at \in Nat, NEW now \in Nat,
         NEW n, Reconciled(o, n, at)
  PROVE  Wakes(o, n, at, now)
<1>1. CASE n = o
  BY <1>1, SelfWakes
<1>2. CASE \E reason \in CloseReasons : n = ReconcileRemoved(o, reason)
  <2>1. PICK reason \in CloseReasons : n = ReconcileRemoved(o, reason)
    BY <1>2
  <2>2. Wakes(o, o, at, now)
    BY SelfWakes
  <2> QED  BY <2>1, <2>2, RemovedWakes
<1>3. ASSUME NEW m \in Meetings, NEW c, c = ReconcileCurrent(o, m, at)
      PROVE  /\ Wakes(o, c, at, now)
             /\ \A reason \in CloseReasons :
                  Wakes(o, ReconcileRemoved(c, reason), at, now)
  <2>1. Wakes(o, c, at, now)
    BY <1>3, CurrentWakes
  <2>2. Legit(c)
    BY <1>3, ReconcileCurrentKeeps DEF Keeps
  <2> QED  BY <2>1, <2>2, RemovedWakes
<1> QED  BY <1>1, <1>2, <1>3 DEF Reconciled

(* A poll that succeeded. *)
LEMMA ReconcileWakes ==
  ASSUME NEW s, Sound(s), NEW a \in Accounts, NEW poll,
         \A k \in KeysOf(a) : GoodItem(poll[k]),
         NEW at \in Nat, NEW now \in Nat
  PROVE  StateWakes(s, Reconcile(s, a, poll, at), at, now)
<1>1. PICK t : t = Reconcile(s, a, poll, at)
  OBVIOUS
<1>2. s \in StateType
  BY DEF Sound
<1>3. /\ t.occurrences = [k \in Keys |->
           IF k \in KeysOf(a) THEN ReconcileItem(s, a, k, poll[k], at)
                              ELSE s.occurrences[k]]
      /\ t.pendingAuthWarnings = s.pendingAuthWarnings
  BY <1>1, <1>2 DEF Reconcile, StateType
<1>4. ASSUME NEW k \in Keys
      PROVE  Wakes(s.occurrences[k], t.occurrences[k], at, now)
  <2>1. PICK o : o = s.occurrences[k]
    OBVIOUS
  <2>2. Legit(o)
    BY <2>1 DEF Sound
  <2>3. CASE k \notin KeysOf(a)
    <3>1. t.occurrences[k] = o
      BY <1>3, <2>1, <2>3
    <3> QED  BY <2>1, <3>1, SelfWakes
  <2>4. CASE k \in KeysOf(a)
    <3>1. t.occurrences[k] = ReconcileItem(s, a, k, poll[k], at)
          /\ GoodItem(poll[k])
      BY <1>3, <2>4
    <3>2. PICK n : n = t.occurrences[k]
      OBVIOUS
    <3>3. Reconciled(o, n, at)
      BY <2>1, <3>1, <3>2, ReconcileItemCases
    <3> QED  BY <2>1, <2>2, <3>2, <3>3, ReconciledWakes
  <2> QED  BY <2>3, <2>4
<1>5. WarningAccounts(t, now) = WarningAccounts(s, now)
  BY <1>3 DEF WarningAccounts, Warned
<1> QED  BY <1>1, <1>4, <1>5 DEF StateWakes

(* A poll that failed. *)
LEMMA PollFailureWakes ==
  ASSUME NEW s, Sound(s), NEW a \in Accounts, NEW kind, NEW gen,
         NEW at \in Nat, NEW now \in Nat
  PROVE  StateWakes(s, ApplyPollFailure(s, a, kind, gen, at), at, now)
<1>1. PICK t : t = ApplyPollFailure(s, a, kind, gen, at)
  OBVIOUS
<1>2. s \in StateType
  BY DEF Sound
<1>3. /\ t.occurrences = s.occurrences
      /\ \A b \in Accounts :
           \/ t.pendingAuthWarnings[b] = s.pendingAuthWarnings[b]
           \/ t.pendingAuthWarnings[b].notBefore = at
  BY <1>1, <1>2 DEF ApplyPollFailure, StateType
<1>4. ASSUME NEW b \in WarningAccounts(t, now)
      PROVE  b \in WarningAccounts(t, at) \/ b \in WarningAccounts(s, now)
  BY <1>3 DEF WarningAccounts, Warned
<1> QED  BY <1>1, <1>3, <1>4, SelfWakes DEF StateWakes

(* A check of the session. *)
LEMMA ActivityWakes ==
  ASSUME NEW s, Sound(s), NEW announce \in BOOLEAN,
         NEW at \in Nat, NEW now \in Nat
  PROVE  StateWakes(s, ActivityResultEvent(s, announce, at), at, now)
<1>1. PICK t : t = ActivityResultEvent(s, announce, at)
  OBVIOUS
<1>2. s \in StateType
  BY DEF Sound
<1>3. t.pendingAuthWarnings = s.pendingAuthWarnings
  BY <1>1, <1>2 DEF ActivityResultEvent, StateType
<1>4. ASSUME NEW k \in Keys
      PROVE  Wakes(s.occurrences[k], t.occurrences[k], at, now)
  <2>1. PICK o : o = s.occurrences[k]
    OBVIOUS
  <2>2. Legit(o)
    BY <2>1 DEF Sound
  <2>3. o \in OccurrenceType
    BY <2>2, LegitType
  <2>4. t.occurrences[k] =
          IF announce /\ o.phase = "scheduled" /\ Due(o.meeting, at)
            THEN [o EXCEPT !.phase = "notify-pending", !.notBefore = at,
                           !.notifyRevision = @ + 1]
            ELSE o
    BY <1>1, <1>2, <2>1 DEF ActivityResultEvent, StateType
  <2>5. CASE t.occurrences[k] = o
    BY <2>1, <2>5, SelfWakes
  <2>6. CASE /\ Due(o.meeting, at)
             /\ t.occurrences[k] =
                  [o EXCEPT !.phase = "notify-pending", !.notBefore = at,
                            !.notifyRevision = @ + 1]
    <3>1. PICK n : n = t.occurrences[k]
      OBVIOUS
    <3>2. n.phase = "notify-pending" /\ n.notBefore = at
          /\ n.meeting = o.meeting
      BY <2>3, <2>6, <3>1 DEF OccurrenceType
    <3>3. Ready(n, at)
      BY <2>6, <3>2 DEF Ready, NotifyReady
    <3> QED  BY <2>1, <3>1, <3>3 DEF Wakes
  <2> QED  BY <2>4, <2>5, <2>6
<1>5. WarningAccounts(t, now) = WarningAccounts(s, now)
  BY <1>3 DEF WarningAccounts, Warned
<1> QED  BY <1>1, <1>4, <1>5 DEF StateWakes

(* The result of a launch. *)
LEMMA LaunchWakes ==
  ASSUME NEW s, Sound(s), NEW k \in Keys, NEW revision, NEW ok \in BOOLEAN,
         NEW at \in Nat, NEW now \in Nat
  PROVE  StateWakes(s, LaunchResultEvent(s, k, revision, ok), at, now)
<1>1. PICK t : t = LaunchResultEvent(s, k, revision, ok)
  OBVIOUS
<1>2. s \in StateType
  BY DEF Sound
<1>3. PICK o : o = s.occurrences[k]
  OBVIOUS
<1>4. Legit(o)
  BY <1>3 DEF Sound
<1>5. o \in OccurrenceType
  BY <1>4, LegitType
<1>6. PICK n : n = IF ok
        THEN [o EXCEPT !.phase = "joined", !.joinedAt = TRUE, !.id = 0,
                       !.notifiedAt = FALSE, !.actionExpiresAt = 0,
                       !.joinRequestedAt = FALSE, !.resume = ""]
        ELSE [o EXCEPT !.phase = o.resume, !.joinRequestedAt = FALSE,
                       !.resume = ""]
  OBVIOUS
<1>7. \/ t = s
      \/ o.phase = "join-pending" /\ t = [s EXCEPT !.occurrences[k] = n]
  BY <1>1, <1>3, <1>6 DEF LaunchResultEvent, Update
<1>8. CASE t = s
  BY <1>1, <1>8, SelfWakes DEF StateWakes
<1>9. CASE o.phase = "join-pending" /\ t = [s EXCEPT !.occurrences[k] = n]
  <2>1. o.resume \in {"notified", "actionable-history"}
    BY <1>4, <1>9, PresentValid DEF ValidOccurrence
  <2>2. n.phase \notin {"notify-pending", "close-pending"}
    BY <1>5, <1>6, <2>1 DEF OccurrenceType
  <2>3. /\ t.pendingAuthWarnings = s.pendingAuthWarnings
        /\ \A j \in Keys : t.occurrences[j]
                             = IF j = k THEN n ELSE s.occurrences[j]
    BY <1>2, <1>9 DEF StateType
  <2>4. ASSUME NEW j \in Keys
        PROVE  Wakes(s.occurrences[j], t.occurrences[j], at, now)
    BY <2>2, <2>3, QuietWakes, SelfWakes
  <2>5. WarningAccounts(t, now) = WarningAccounts(s, now)
    BY <2>3 DEF WarningAccounts, Warned
  <2> QED  BY <1>1, <2>4, <2>5 DEF StateWakes
<1> QED  BY <1>7, <1>8, <1>9

(* The tail of the reducer changes nothing of that. *)
LEMMA SettleWakes ==
  ASSUME NEW s, NEW t, Sound(t), NEW at \in Nat, NEW now,
         StateWakes(s, t, at, now)
  PROVE  StateWakes(s, Settle(t, at), at, now)
<1>1. PICK u : u = Settle(t, at)
  OBVIOUS
<1>2. t \in StateType
  BY DEF Sound
<1>3. /\ u.occurrences
           = [k \in Keys |-> ExpireNotifyPending(t.occurrences[k], at)]
      /\ u.pendingAuthWarnings = t.pendingAuthWarnings
  BY <1>1, <1>2 DEF Settle, StateType
<1>4. ASSUME NEW k \in Keys
      PROVE  Wakes(s.occurrences[k], u.occurrences[k], at, now)
  <2>1. u.occurrences[k] = ExpireNotifyPending(t.occurrences[k], at)
    BY <1>3
  <2>2. Legit(t.occurrences[k])
    BY DEF Sound
  <2>3. Wakes(s.occurrences[k], t.occurrences[k], at, now)
    BY DEF StateWakes
  <2> QED  BY <2>1, <2>2, <2>3, ExpireWakes
<1>5. /\ WarningAccounts(u, now) = WarningAccounts(t, now)
      /\ WarningAccounts(u, at) = WarningAccounts(t, at)
  BY <1>3 DEF WarningAccounts, Warned
<1> QED  BY <1>1, <1>4, <1>5 DEF StateWakes

-----------------------------------------------------------------------------
(* The invariant *)

(* When a result was stamped: while the machine is awake, now.              *)
Stamp(at, now) == at \in 0..now /\ (Prompt => at = 0 \/ at = now)

Stamps(r, now) ==
  /\ Stamp(r.activityResult.at, now) /\ Stamp(r.launchResult.at, now)
  /\ \A a \in Accounts : Stamp(r.pollResult[a].at, now)

(* Nothing that is ready lacks a worker, but for what the passing of time   *)
(* made ready since the last tick.                                          *)
Awake(r, s, now) ==
  /\ r.launcherBusy = FALSE => LaunchKeys(s) = {}
  /\ r.tick = FALSE /\ r.notifierBusy = FALSE =>
       NotificationKeys(s, now) = {} /\ WarningAccounts(s, now) = {}
  /\ Prompt /\ r.tick = FALSE /\ r.activityBusy = FALSE /\ HasDue(s, now) =>
       r.activityStale = FALSE

WInv ==
  /\ Covered(rt) /\ Stamps(rt, clock)
  /\ up = TRUE => Awake(rt, state, clock)

(* What an event must leave for the scheduler: it is handled now, or for a  *)
(* time that has passed and then wakes nothing that the tick did not.       *)
WakeHandled(mid, at, r) ==
  /\ Covered(r) /\ Stamps(r, clock)
  /\ Prompt => at = clock
  /\ \/ at = clock
     \/ /\ StateWakes(state, mid, at, clock)
        /\ r.notifierBusy = rt.notifierBusy /\ r.tick = rt.tick

(* What is scheduled at the time of an event is so now. *)
LEMMA ScheduledAwake ==
  ASSUME NEW s, NEW q, NEW at, NEW now, Scheduled(q, s, at), at = now
  PROVE  Awake(q, s, now)
  BY DEF Scheduled, Awake

LEMMA LateAwake ==
  ASSUME IInv, WInv, up, NEW next, NEW at, NEW r, NEW q, ~Prompt,
         StateWakes(state, next, at, clock),
         r.notifierBusy = rt.notifierBusy, r.tick = rt.tick,
         rt.notifierBusy \in BOOLEAN, q.notifierBusy \in BOOLEAN,
         Scheduled(q, next, at), Carries(r, q)
  PROVE  Awake(q, next, clock)
<1>1. ASSUME q.tick = FALSE, q.notifierBusy = FALSE
      PROVE  NotificationKeys(next, clock) = {}
             /\ WarningAccounts(next, clock) = {}
  <2>1. rt.tick = FALSE /\ rt.notifierBusy = FALSE
    BY <1>1 DEF Carries
  <2>2. up = TRUE
    BY DEF IInv, TypeOK
  <2>3. NotificationKeys(state, clock) = {} /\ WarningAccounts(state, clock) = {}
    BY <2>1, <2>2 DEF WInv, Awake
  <2>4. NotificationKeys(next, at) = {} /\ WarningAccounts(next, at) = {}
    BY <1>1 DEF Scheduled
  <2>5. WarningAccounts(next, clock) = {}
    BY <2>3, <2>4 DEF StateWakes, WarningAccounts
  <2>6. ASSUME NEW k \in Keys, Ready(next.occurrences[k], clock)
        PROVE  FALSE
    <3>1. \/ Ready(next.occurrences[k], at)
          \/ Ready(state.occurrences[k], clock)
      BY <2>6 DEF StateWakes, Wakes
    <3> QED  BY <2>3, <2>4, <3>1 DEF Ready, NotificationKeys
  <2>7. NotificationKeys(next, clock) = {}
    BY <2>6 DEF Ready, NotificationKeys
  <2> QED  BY <2>5, <2>7
<1>2. q.launcherBusy = FALSE => LaunchKeys(next) = {}
  BY DEF Scheduled
<1> QED  BY <1>1, <1>2 DEF Awake

(* The service stops. *)
LEMMA StopWakes ==
  ASSUME IInv, rt' = Boot, up' = FALSE, clock' = clock
  PROVE  WInv'
<1>1. /\ Boot.activityBusy = FALSE /\ Boot.notifierBusy = FALSE
      /\ Boot.launcherBusy = FALSE /\ Boot.pollBusy = {}
      /\ Boot.activityResult.at = 0 /\ Boot.launchResult.at = 0
      /\ \A a \in Accounts : Boot.pollResult[a].at = 0
  BY DEF Boot, NoLaunchResult, NoPoll
<1>2. Covered(Boot)
  BY <1>1 DEF Covered
<1>3. Stamp(0, clock)
  BY Times DEF Stamp
<1>4. Stamps(Boot, clock)
  BY <1>1, <1>3 DEF Stamps
<1> QED  BY <1>2, <1>4 DEF WInv

(* An event is committed. *)
LEMMA CommittedWakes ==
  ASSUME IInv, WInv, up, NEW mid, NEW at, NEW r, Handled(mid, at, r),
         WakeHandled(mid, at, r),
         NEW next, next = Settle(mid, at), ~RevisionExhausted(mid),
         NEW kind, NEW rest, Committed(next, at, kind, r, rest),
         clock' = clock
  PROVE  WInv'
<1>1. /\ Sound(mid) /\ at \in Nat /\ Sound(next) /\ RuntimeOK(r)
      /\ Claims(next, r, server.next)
  BY SavedOK DEF Handled
<1>2. PICK q : q = AfterCommit(r, next, at, kind)
  OBVIOUS
<1>3. RuntimeOK(q)
  BY <1>1, <1>2, AfterCommitOK
<1>4. q.full = FALSE /\ q \in RuntimeType /\ rt \in RuntimeType
  BY <1>3 DEF RuntimeOK, IInv
<1>5. state' = next /\ rt' = q
  BY <1>2, <1>4 DEF Committed
<1>6. Covered(q) /\ Scheduled(q, next, at) /\ Carries(r, q)
  BY <1>1, <1>2, AfterCommitWakes DEF WakeHandled
<1>7. Stamps(q, clock)
  BY <1>6 DEF WakeHandled, Stamps, Carries
<1>8. Awake(q, next, clock)
  <2>1. CASE at = clock
    BY <1>6, <2>1, ScheduledAwake
  <2>2. CASE at # clock
    <3>1. /\ ~Prompt /\ StateWakes(state, mid, at, clock)
          /\ r.notifierBusy = rt.notifierBusy /\ r.tick = rt.tick
      BY <2>2 DEF WakeHandled
    <3>2. StateWakes(state, next, at, clock)
      BY <1>1, <3>1, SettleWakes
    <3>3. rt.notifierBusy \in BOOLEAN /\ q.notifierBusy \in BOOLEAN
      BY <1>4 DEF RuntimeType
    <3> QED  BY <1>6, <3>1, <3>2, <3>3, LateAwake
  <2> QED  BY <2>1, <2>2
<1> QED  BY <1>5, <1>6, <1>7, <1>8 DEF WInv

LEMMA ProcessWakes ==
  ASSUME IInv, WInv, NEW mid, NEW at, NEW r, Handled(mid, at, r),
         WakeHandled(mid, at, r),
         NEW kind, NEW rest, Process(mid, at, kind, r, rest)
  PROVE  WInv'
<1>1. PICK next : next = Settle(mid, at)
  OBVIOUS
<1>2. up /\ clock' = clock
  BY DEF Process
<1>3. CASE Accepted(mid, at) /\ Committed(next, at, kind, r, rest)
  <2>1. ~RevisionExhausted(mid)
    BY <1>3 DEF Accepted
  <2> QED  BY <1>1, <1>2, <1>3, <2>1, CommittedWakes
<1>4. CASE \E reason : Stop(reason)
  BY <1>2, <1>4, StopWakes DEF Stop
<1> QED  BY <1>1, <1>3, <1>4 DEF Process, SaveFailed, Rejected

LEMMA ProcessDeliveryWakes ==
  ASSUME IInv, WInv, NEW mid, NEW at, NEW r, Handled(mid, at, r),
         WakeHandled(mid, at, r),
         NEW id, ProcessDelivery(mid, at, id, r)
  PROVE  WInv'
<1>1. PICK next : next = Settle(mid, at)
  OBVIOUS
<1>2. up /\ clock' = clock
  BY DEF ProcessDelivery
<1>3. CASE Accepted(mid, at)
           /\ Committed(next, at, "notification", r, signals)
  <2>1. ~RevisionExhausted(mid)
    BY <1>3 DEF Accepted
  <2> QED  BY <1>1, <1>2, <1>3, <2>1, CommittedWakes
<1>4. CASE \E reason : Stop(reason)
  BY <1>2, <1>4, StopWakes DEF Stop
<1> QED  BY <1>1, <1>3, <1>4 DEF ProcessDelivery, SaveFailed, Rejected

-----------------------------------------------------------------------------
(* The events *)

(* The tick. *)
LEMMA TickWakes ==
  ASSUME IInv, WInv, HandleTick
  PROVE  WInv'
<1>1. PICK mid : mid = TickEvent(state, clock)
  OBVIOUS
<1>2. PICK r : r = [rt EXCEPT !.tick = FALSE, !.activityStale = TRUE]
  OBVIOUS
<1>3. Handled(mid, clock, r) /\ Process(mid, clock, "tick", r, signals)
  BY <1>1, <1>2, TickHandled
<1>4. SameActivity(rt, r) /\ SameNotifier(rt, r) /\ SameLauncher(rt, r)
      /\ SamePolls(rt, r)
  BY <1>2, Fields DEF SameActivity, SameNotifier, SameLauncher, SamePolls,
                      RuntimeType
<1>5. Covered(r) /\ Stamps(r, clock)
  BY <1>4 DEF WInv, Covered, Stamps, SameActivity, SameNotifier, SameLauncher,
              SamePolls
<1>6. WakeHandled(mid, clock, r)
  BY <1>5 DEF WakeHandled
<1> QED  BY <1>3, <1>6, ProcessWakes

(* When the results that are on their way were stamped. *)
LEMMA Stamped ==
  ASSUME WInv, NEW at, Stamp(at, clock), at # 0
  PROVE  Prompt => at = clock
  BY DEF Stamp

(* A check of the session. *)
LEMMA ActivityHandledWakes ==
  ASSUME IInv, WInv, HandleActivity
  PROVE  WInv'
<1>1. PICK e : e = rt.activityResult
  OBVIOUS
<1>2. PICK mid : mid = ActivityResultEvent(state, e.announce, e.at)
  OBVIOUS
<1>3. PICK r : r = [rt EXCEPT !.activityBusy = FALSE,
                              !.activityResult = Boot.activityResult]
  OBVIOUS
<1>4. Handled(mid, e.at, r) /\ Process(mid, e.at, "activity", r, signals)
  BY <1>1, <1>2, <1>3, ActivityHandled
<1>5. /\ r.activityBusy = FALSE /\ r.activityResult.at = 0
      /\ r.notifierBusy = rt.notifierBusy /\ r.tick = rt.tick
      /\ SameNotifier(rt, r) /\ SameLauncher(rt, r) /\ SamePolls(rt, r)
  <2>1. r.activityResult = Boot.activityResult
    BY <1>3, Fields DEF RuntimeType
  <2>2. Boot.activityResult.at = 0
    BY DEF Boot
  <2>3. /\ r.activityBusy = FALSE
        /\ r.notifierBusy = rt.notifierBusy /\ r.tick = rt.tick
        /\ SameNotifier(rt, r) /\ SameLauncher(rt, r) /\ SamePolls(rt, r)
    BY <1>3, Fields DEF SameNotifier, SameLauncher, SamePolls, RuntimeType
  <2> QED  BY <2>1, <2>2, <2>3
<1>6. Covered(r)
  BY <1>5 DEF WInv, Covered, SameNotifier, SameLauncher, SamePolls
<1>7. Stamp(0, clock)
  BY Times DEF Stamp
<1>8. Stamps(r, clock)
  BY <1>5, <1>7 DEF WInv, Stamps, SameLauncher, SamePolls
<1>9. Prompt => e.at = clock
  BY <1>1, Stamped DEF WInv, Stamps, HandleActivity
<1>10. StateWakes(state, mid, e.at, clock)
  <2>1. e.announce \in BOOLEAN /\ e.at \in Nat /\ clock \in Nat
    <3>1. rt.activityResult \in [at: Nat, announce: BOOLEAN]
      BY Fields DEF RuntimeType
    <3> QED  BY <1>1, <3>1, Times
  <2> QED  BY <1>2, <2>1, ActivityWakes DEF IInv
<1>11. WakeHandled(mid, e.at, r)
  BY <1>5, <1>6, <1>8, <1>9, <1>10 DEF WakeHandled
<1> QED  BY <1>4, <1>11, ProcessWakes

(* The result of a launch. *)
LEMMA LaunchHandledWakes ==
  ASSUME IInv, WInv, HandleLaunch
  PROVE  WInv'
<1>1. PICK e : e = rt.launchResult
  OBVIOUS
<1>2. PICK key, revision : key = e.launch.key /\ revision = e.launch.revision
  OBVIOUS
<1>3. PICK mid : mid = LaunchResultEvent(state, key, revision, e.ok)
  OBVIOUS
<1>4. PICK r : r = [rt EXCEPT !.launcherBusy = FALSE,
                              !.launchResult = NoLaunchResult]
  OBVIOUS
<1>5. /\ Handled(mid, e.at, r) /\ Process(mid, e.at, "launch", r, signals)
      /\ key \in Keys /\ e.ok \in BOOLEAN
  BY <1>1, <1>2, <1>3, <1>4, LaunchHandled
<1>6. /\ r.launcherBusy = FALSE /\ r.launchResult.at = 0
      /\ r.notifierBusy = rt.notifierBusy /\ r.tick = rt.tick
      /\ SameNotifier(rt, r) /\ SameActivity(rt, r) /\ SamePolls(rt, r)
  <2>1. r.launchResult = NoLaunchResult
    BY <1>4, Fields DEF RuntimeType
  <2>2. NoLaunchResult.at = 0
    BY DEF NoLaunchResult
  <2>3. /\ r.launcherBusy = FALSE
        /\ r.notifierBusy = rt.notifierBusy /\ r.tick = rt.tick
        /\ SameNotifier(rt, r) /\ SameActivity(rt, r) /\ SamePolls(rt, r)
    BY <1>4, Fields DEF SameNotifier, SameActivity, SamePolls, RuntimeType
  <2> QED  BY <2>1, <2>2, <2>3
<1>7. Covered(r)
  BY <1>6 DEF WInv, Covered, SameNotifier, SameActivity, SamePolls
<1>8. Stamp(0, clock)
  BY Times DEF Stamp
<1>9. Stamps(r, clock)
  BY <1>6, <1>8 DEF WInv, Stamps, SameActivity, SamePolls
<1>10. Prompt => e.at = clock
  BY <1>1, Stamped DEF WInv, Stamps, HandleLaunch
<1>11. StateWakes(state, mid, e.at, clock)
  BY <1>1, <1>3, <1>5, Times, LaunchWakes DEF IInv
<1>12. WakeHandled(mid, e.at, r)
  BY <1>6, <1>7, <1>9, <1>10, <1>11 DEF WakeHandled
<1> QED  BY <1>5, <1>12, ProcessWakes

(* A poll. *)
LEMMA PollHandledWakes ==
  ASSUME IInv, WInv, NEW a \in Accounts, HandlePoll(a)
  PROVE  WInv'
<1>1. PICK e : e = rt.pollResult[a]
  OBVIOUS
<1>2. PICK mid, kind, x, stale, r :
        /\ Handled(mid, e.at, r) /\ Process(mid, e.at, kind, r, signals)
        /\ r = PollFree(a, x, stale)
        /\ \/ /\ mid = Reconcile(state, a, e.items, e.at)
              /\ \A k \in KeysOf(a) : GoodItem(e.items[k])
           \/ \E gen : mid = ApplyPollFailure(state, a, e.kind, gen, e.at)
  BY <1>1, PollHandled
<1>3. PICK p : p = [rt.pollResult EXCEPT ![a] = NoPoll]
  OBVIOUS
<1>4. PICK q : q = [rt.retries EXCEPT ![a] = x]
  OBVIOUS
<1>5. r = [rt EXCEPT !.pollBusy = rt.pollBusy \ {a}, !.pollResult = p,
                     !.retries = q, !.activityStale = stale]
  BY <1>2, <1>3, <1>4, Fields DEF PollFree, RuntimeType
<1>6. /\ r.notifierBusy = rt.notifierBusy /\ r.tick = rt.tick
      /\ SameNotifier(rt, r) /\ SameActivity(rt, r) /\ SameLauncher(rt, r)
      /\ r.pollBusy = rt.pollBusy \ {a} /\ r.pollSlot = rt.pollSlot
      /\ r.pollResult = p
  BY <1>5, Fields DEF SameNotifier, SameActivity, SameLauncher, RuntimeType
<1>7. \A b \in Accounts : p[b] = IF b = a THEN NoPoll ELSE rt.pollResult[b]
  BY <1>3, Fields DEF RuntimeType
<1>8. NoPoll.at = 0 /\ rt.pollBusy \subseteq Accounts
  BY Fields DEF NoPoll, RuntimeType
<1>9. Covered(r)
  <2>1. \A b \in r.pollBusy : b \in r.pollSlot \/ r.pollResult[b].at # 0
    BY <1>6, <1>7, <1>8 DEF WInv, Covered
  <2> QED  BY <1>6, <2>1 DEF WInv, Covered, SameNotifier, SameActivity,
              SameLauncher
<1>10. Stamp(0, clock)
  BY Times DEF Stamp
<1>11. Stamps(r, clock)
  BY <1>6, <1>7, <1>8, <1>10 DEF WInv, Stamps, SameActivity, SameLauncher
<1>12. Prompt => e.at = clock
  BY <1>1, Stamped DEF WInv, Stamps, HandlePoll
<1>13. StateWakes(state, mid, e.at, clock)
  BY <1>1, <1>2, Times, ReconcileWakes, PollFailureWakes DEF IInv
<1>14. WakeHandled(mid, e.at, r)
  BY <1>6, <1>9, <1>11, <1>12, <1>13 DEF WakeHandled
<1> QED  BY <1>2, <1>14, ProcessWakes

(* A report of the client. *)
LEMMA FreeWakes ==
  ASSUME IInv, WInv, NEW mid
  PROVE  WakeHandled(mid, clock, NotifierFree)
<1>1. PICK r : r = NotifierFree
  OBVIOUS
<1>2. r = [rt EXCEPT !.notifierBusy = FALSE, !.notifyResult = NoResult]
  BY <1>1 DEF NotifierFree
<1>3. /\ r.notifierBusy = FALSE
      /\ SameActivity(rt, r) /\ SameLauncher(rt, r) /\ SamePolls(rt, r)
  BY <1>2, Fields DEF SameActivity, SameLauncher, SamePolls, RuntimeType
<1>4. Covered(r) /\ Stamps(r, clock)
  BY <1>3 DEF WInv, Covered, Stamps, SameActivity, SameLauncher, SamePolls
<1> QED  BY <1>1, <1>4 DEF WakeHandled

LEMMA ReportWakes ==
  ASSUME IInv, WInv, HandleDelivered \/ HandleFailed \/ HandleCompleted
  PROVE  WInv'
<1>1. CASE HandleDelivered
  BY <1>1, DeliveredHandled, FreeWakes, ProcessDeliveryWakes
<1>2. CASE HandleFailed
  BY <1>2, FailedHandled, FreeWakes, ProcessWakes
<1>3. CASE HandleCompleted
  BY <1>3, CompletedHandled, FreeWakes, ProcessWakes
<1> QED  BY <1>1, <1>2, <1>3

(* A signal. *)
LEMMA SignalWakes ==
  ASSUME IInv, WInv, HandleSignal
  PROVE  WInv'
<1>1. PICK mid : /\ Handled(mid, clock, rt)
                 /\ Process(mid, clock, "notification", rt, Tail(signals))
  BY SignalHandled
<1>2. WakeHandled(mid, clock, rt)
  BY DEF WInv, WakeHandled
<1> QED  BY <1>1, <1>2, ProcessWakes

-----------------------------------------------------------------------------
(* The workers, starting and stopping, the clock *)

(* A step that leaves the state to the loop. *)
LEMMA WorkWakes ==
  ASSUME WInv, state' = state, clock' = clock, up' = up,
         Covered(rt'), Stamps(rt', clock),
         rt'.tick = rt.tick, rt'.activityBusy = rt.activityBusy,
         rt'.notifierBusy = rt.notifierBusy,
         rt'.launcherBusy = rt.launcherBusy,
         rt'.activityStale = rt.activityStale
  PROVE  WInv'
<1>1. up' = TRUE => Awake(rt', state, clock)
  BY DEF WInv, Awake
<1> QED  BY <1>1 DEF WInv

LEMMA Now ==
  ASSUME IInv
  PROVE  clock # 0 /\ Stamp(clock, clock)
<1>1. clock \in 1..MaxTime /\ MaxTime \in Nat
  BY Fields, BoundsAssumption
<1> QED  BY <1>1 DEF Stamp

LEMMA CheckWakes ==
  ASSUME IInv, WInv, CheckActivity
  PROVE  WInv'
<1>1. PICK x : /\ x.at = clock
               /\ rt' = [rt EXCEPT !.activitySlot = FALSE, !.activityResult = x]
  BY DEF CheckActivity
<1>2. /\ rt'.activityResult.at = clock /\ SameNotifier(rt, rt')
      /\ SameLauncher(rt, rt') /\ SamePolls(rt, rt')
      /\ rt'.tick = rt.tick /\ rt'.activityBusy = rt.activityBusy
      /\ rt'.activityStale = rt.activityStale
  BY <1>1, Fields DEF SameNotifier, SameLauncher, SamePolls, RuntimeType
<1>3. Covered(rt') /\ Stamps(rt', clock)
  BY <1>2, Now DEF WInv, Covered, Stamps, SameNotifier, SameLauncher, SamePolls
<1> QED  BY <1>2, <1>3, WorkWakes DEF CheckActivity, SameNotifier, SameLauncher

LEMMA OpenWakes ==
  ASSUME IInv, WInv, OpenMeeting
  PROVE  WInv'
<1>1. PICK x : /\ x.at = clock
               /\ rt' = [rt EXCEPT !.launchSlot = NoLaunch, !.launchResult = x]
  BY DEF OpenMeeting
<1>2. /\ rt'.launchResult.at = clock /\ SameNotifier(rt, rt')
      /\ SameActivity(rt, rt') /\ SamePolls(rt, rt')
      /\ rt'.tick = rt.tick /\ rt'.launcherBusy = rt.launcherBusy
      /\ rt'.activityStale = rt.activityStale
  BY <1>1, Fields DEF SameNotifier, SameActivity, SamePolls, RuntimeType
<1>3. Covered(rt') /\ Stamps(rt', clock)
  BY <1>2, Now DEF WInv, Covered, Stamps, SameNotifier, SameActivity, SamePolls
<1> QED  BY <1>2, <1>3, WorkWakes DEF OpenMeeting, SameNotifier, SameActivity

LEMMA FetchWakes ==
  ASSUME IInv, WInv, NEW a \in Accounts, FetchCalendar(a)
  PROVE  WInv'
<1>1. PICK e : /\ e.at = clock
               /\ rt' = [rt EXCEPT !.pollSlot = @ \ {a}, !.pollResult[a] = e]
  BY DEF FetchCalendar
<1>2. PICK p : p = [rt.pollResult EXCEPT ![a] = e]
  OBVIOUS
<1>3. rt' = [rt EXCEPT !.pollSlot = rt.pollSlot \ {a}, !.pollResult = p]
  BY <1>1, <1>2, Fields DEF RuntimeType
<1>4. /\ SameNotifier(rt, rt') /\ SameActivity(rt, rt')
      /\ SameLauncher(rt, rt') /\ rt'.tick = rt.tick
      /\ rt'.activityStale = rt.activityStale
      /\ rt'.pollBusy = rt.pollBusy /\ rt'.pollSlot = rt.pollSlot \ {a}
      /\ rt'.pollResult = p
  BY <1>3, Fields DEF SameNotifier, SameActivity, SameLauncher, RuntimeType
<1>5. \A b \in Accounts : p[b] = IF b = a THEN e ELSE rt.pollResult[b]
  BY <1>2, Fields DEF RuntimeType
<1>6. rt.pollBusy \subseteq Accounts
  BY Fields DEF RuntimeType
<1>7. Covered(rt')
  <2>1. \A b \in rt'.pollBusy : b \in rt'.pollSlot \/ rt'.pollResult[b].at # 0
    BY <1>1, <1>4, <1>5, <1>6, Now DEF WInv, Covered
  <2> QED  BY <1>4, <2>1 DEF WInv, Covered, SameNotifier, SameActivity,
              SameLauncher
<1>8. Stamps(rt', clock)
  BY <1>1, <1>4, <1>5, Now DEF WInv, Stamps, SameActivity, SameLauncher
<1> QED  BY <1>4, <1>7, <1>8, WorkWakes
         DEF FetchCalendar, SameNotifier, SameActivity, SameLauncher

LEMMA ClientWakes ==
  ASSUME IInv, WInv, CallNotify \/ CallClose
  PROVE  WInv'
<1>1. /\ \E event \in {"delivered", "failed", "completed"} : \E id :
           Reported(event, id)
      /\ state' = state /\ clock' = clock /\ up' = up
  BY DEF CallNotify, CallClose
<1>2. PICK e : /\ e.event # "none"
               /\ rt' = [rt EXCEPT !.notifySlot = NoCommand, !.notifyResult = e]
  BY <1>1 DEF Reported
<1>3. e # NoResult
  BY <1>2 DEF NoResult
<1>4. /\ rt'.notifyResult = e /\ SameActivity(rt, rt')
      /\ SameLauncher(rt, rt') /\ SamePolls(rt, rt')
      /\ rt'.tick = rt.tick /\ rt'.notifierBusy = rt.notifierBusy
      /\ rt'.activityStale = rt.activityStale
  BY <1>2, Fields DEF SameActivity, SameLauncher, SamePolls, RuntimeType
<1>5. Covered(rt') /\ Stamps(rt', clock)
  BY <1>3, <1>4 DEF WInv, Covered, Stamps, SameActivity, SameLauncher,
                    SamePolls
<1> QED  BY <1>1, <1>4, <1>5, WorkWakes DEF SameActivity, SameLauncher

(* The service starts: everything that waits is looked at. *)
LEMMA RestartWakes ==
  ASSUME IInv, Restart
  PROVE  WInv'
<1>1. PICK t : t = NormalizeLegacy(state)
  OBVIOUS
<1>2. PICK s : s = Settle(t, clock)
  OBVIOUS
<1>3. PICK r : r = SchedulePolls(Boot, clock)
  OBVIOUS
<1>4. /\ state' = s /\ rt' = ScheduleDurable(r, s, clock, {})
      /\ clock' = clock
  BY <1>1, <1>2, <1>3 DEF Restart
<1>5. Sound(s)
  <2>1. Sound(state) /\ Fits(state) /\ clock \in Nat
    BY Times DEF IInv, TypeOK, WidthsOK, Fits
  <2>2. Sound(t) /\ Fits(t)
    BY <1>1, <2>1, NormalizeSound
  <2> QED  BY <1>2, <2>1, <2>2, SettleSound
<1>6. /\ Boot.activityBusy = FALSE /\ Boot.notifierBusy = FALSE
      /\ Boot.launcherBusy = FALSE /\ Boot.pollBusy = {}
      /\ Boot.activityResult.at = 0 /\ Boot.launchResult.at = 0
      /\ \A a \in Accounts : Boot.pollResult[a].at = 0
  BY DEF Boot, NoLaunchResult, NoPoll
<1>7. Covered(Boot)
  BY <1>6 DEF Covered
<1>8. RuntimeOK(r) /\ Covered(r) /\ Carries(Boot, r)
  BY <1>3, <1>7, BootOK, SchedulePollsOK, SchedulePollsWakes
<1>9. PICK n : n = ScheduleDurable(r, s, clock, {})
  OBVIOUS
<1>10. Covered(n) /\ Scheduled(n, s, clock) /\ Carries(r, n)
  BY <1>5, <1>8, <1>9, ScheduleDurableWakes
<1>11. Stamp(0, clock)
  BY Times DEF Stamp
<1>12. Stamps(n, clock)
  BY <1>6, <1>8, <1>10, <1>11 DEF Stamps, Carries
<1>13. Awake(n, s, clock)
  BY <1>10, ScheduledAwake
<1> QED  BY <1>4, <1>9, <1>10, <1>12, <1>13 DEF WInv

(* Time passes, and brings a tick if the service is running. *)
LEMMA AdvanceWakes ==
  ASSUME IInv, WInv, Advance
  PROVE  WInv'
<1>1. /\ rt' = [rt EXCEPT !.tick = up] /\ clock' = clock + 1
      /\ state' = state /\ up' = up /\ (Prompt => Idle)
  BY DEF Advance
<1>2. /\ rt'.tick = up /\ SameActivity(rt, rt') /\ SameNotifier(rt, rt')
      /\ SameLauncher(rt, rt') /\ SamePolls(rt, rt')
  BY <1>1, Fields DEF SameActivity, SameNotifier, SameLauncher, SamePolls,
                      RuntimeType
<1>3. Covered(rt')
  BY <1>2 DEF WInv, Covered, SameActivity, SameNotifier, SameLauncher,
              SamePolls
<1>4. clock \in Nat
  BY Times
<1>5. ASSUME NEW at, Stamp(at, clock), Prompt => at = 0
      PROVE  Stamp(at, clock')
  BY <1>1, <1>4, <1>5 DEF Stamp
<1>6. Prompt => /\ rt.activityResult.at = 0 /\ rt.launchResult.at = 0
                /\ \A a \in Accounts : rt.pollResult[a].at = 0
  BY <1>1 DEF Idle
<1>7. Stamps(rt', clock')
  BY <1>2, <1>5, <1>6 DEF WInv, Stamps, SameActivity, SameLauncher, SamePolls
<1>8. up' = TRUE => Awake(rt', state', clock')
  BY <1>1, <1>2 DEF WInv, Awake, SameLauncher
<1> QED  BY <1>3, <1>7, <1>8 DEF WInv

(* The user, and a step that changes nothing. *)
LEMMA UserWakes ==
  ASSUME WInv, (\E id \in IDs : Dismiss(id) \/ Click(id)) \/ UNCHANGED vars
  PROVE  WInv'
<1>1. state' = state /\ clock' = clock /\ up' = up /\ rt' = rt
  BY DEF Dismiss, Click, Emit, vars
<1> QED  BY <1>1 DEF WInv

-----------------------------------------------------------------------------
(* The theorem *)

LEMMA InitWakes == Init => WInv
<1> SUFFICES ASSUME Init PROVE WInv
  OBVIOUS
<1>1. rt = Boot /\ up = FALSE /\ clock = 1
  BY DEF Init
<1>2. /\ Boot.activityBusy = FALSE /\ Boot.notifierBusy = FALSE
      /\ Boot.launcherBusy = FALSE /\ Boot.pollBusy = {}
      /\ Boot.activityResult.at = 0 /\ Boot.launchResult.at = 0
      /\ \A a \in Accounts : Boot.pollResult[a].at = 0
  BY DEF Boot, NoLaunchResult, NoPoll
<1>3. Stamp(0, clock)
  BY <1>1 DEF Stamp
<1> QED  BY <1>1, <1>2, <1>3 DEF WInv, Covered, Stamps

LEMMA NextWakes == IInv /\ WInv /\ [Next]_vars => WInv'
<1> SUFFICES ASSUME IInv, WInv, [Next]_vars PROVE WInv'
  OBVIOUS
<1>1. CASE Handle
  <2>1. \/ HandleTick \/ HandleActivity \/ HandleLaunch
        \/ \E a \in Accounts : HandlePoll(a)
        \/ HandleDelivered \/ HandleFailed \/ HandleCompleted \/ HandleSignal
    BY <1>1 DEF Handle
  <2> QED  BY <2>1, TickWakes, ActivityHandledWakes, LaunchHandledWakes,
              PollHandledWakes, ReportWakes, SignalWakes
<1>2. CASE Work
  <2>1. \/ CheckActivity \/ OpenMeeting
        \/ \E a \in Accounts : FetchCalendar(a)
        \/ CallNotify \/ CallClose
    BY <1>2 DEF Work
  <2> QED  BY <2>1, CheckWakes, OpenWakes, FetchWakes, ClientWakes
<1>3. CASE Crash
  BY <1>3, StopWakes DEF Crash, Stop
<1>4. CASE Restart
  BY <1>4, RestartWakes
<1>5. CASE Advance
  BY <1>5, AdvanceWakes
<1>6. CASE (\E id \in IDs : Dismiss(id) \/ Click(id)) \/ Horizon
           \/ UNCHANGED vars
  BY <1>6, UserWakes DEF Horizon
<1> QED  BY <1>1, <1>2, <1>3, <1>4, <1>5, <1>6 DEF Next

LEMMA StaysAwake == Spec => [](IInv /\ WInv)
<1>1. Init => IInv /\ WInv
  BY InitInv, InitWakes
<1>2. (IInv /\ WInv) /\ [Next]_vars => (IInv /\ WInv)'
  BY NextInv, NextWakes
<1> QED  BY <1>1, <1>2, PTL DEF Spec

(* No wakeup is lost: when nothing is in flight, no worker is marked busy   *)
(* and nothing that can be shown, closed or launched waits for one, although *)
(* the loop only looks for work after an event and dispatch drops a command *)
(* for a worker that is busy.                                               *)
THEOREM NoWakeupIsLost == Spec => []NoLostWakeup
<1>1. ASSUME IInv, WInv PROVE NoLostWakeup
  <2>1. SUFFICES ASSUME up, Idle PROVE
          /\ ~rt.activityBusy /\ ~rt.notifierBusy /\ ~rt.launcherBusy
          /\ rt.pollBusy = {}
          /\ NotificationKeys(state, clock) = {} /\ LaunchKeys(state) = {}
          /\ WarningAccounts(state, clock) = {}
          /\ Prompt /\ HasDue(state, clock) => ~rt.activityStale
    BY DEF NoLostWakeup
  <2>2. /\ rt.activityBusy \in BOOLEAN /\ rt.notifierBusy \in BOOLEAN
        /\ rt.launcherBusy \in BOOLEAN /\ rt.pollBusy \subseteq Accounts
        /\ rt.tick \in BOOLEAN /\ rt.activitySlot \in BOOLEAN
    BY <1>1, Fields DEF RuntimeType
  <2>3. /\ rt.activityBusy = FALSE /\ rt.notifierBusy = FALSE
        /\ rt.launcherBusy = FALSE /\ rt.pollBusy = {} /\ rt.tick = FALSE
    BY <1>1, <2>1, <2>2 DEF WInv, Covered, Idle
  <2>4. Awake(rt, state, clock)
    BY <1>1, <2>1 DEF WInv, IInv, TypeOK
  <2> QED  BY <2>3, <2>4 DEF Awake
<1> QED  BY <1>1, StaysAwake, PTL

-----------------------------------------------------------------------------
(* An account is not warned again too soon *)

(* A warning that waits was created an interval after the last one shown;   *)
(* neither lies in the future.                                              *)
WarningsSafe(s, now) ==
  \A a \in Accounts :
    /\ s.authWarnings[a] =< now
    /\ Warned(s, a) =>
         /\ s.pendingAuthWarnings[a].createdAt =< now
         /\ \/ s.authWarnings[a] = 0
            \/ s.authWarnings[a] + WarningInterval
                 =< s.pendingAuthWarnings[a].createdAt

Spaces(s, t) ==
  \A a \in Accounts :
    s.authWarnings[a] # 0 /\ t.authWarnings[a] # s.authWarnings[a]
      => t.authWarnings[a] >= s.authWarnings[a] + WarningInterval

SameWarnings(s, t) ==
  /\ t.authWarnings = s.authWarnings
  /\ \A a \in Accounts : Warned(t, a) =>
       /\ Warned(s, a)
       /\ t.pendingAuthWarnings[a].createdAt = s.pendingAuthWarnings[a].createdAt

LEMMA SameWarningsSafe ==
  ASSUME NEW s, NEW t, NEW now, SameWarnings(s, t), WarningsSafe(s, now)
  PROVE  WarningsSafe(t, now) /\ Spaces(s, t)
  BY DEF SameWarnings, WarningsSafe, Spaces

(* The events that leave the warnings alone. *)
LEMMA EntryEventsQuiet ==
  ASSUME NEW s, s \in StateType
  PROVE  /\ \A at : SameWarnings(s, TickEvent(s, at))
         /\ \A announce, at :
              SameWarnings(s, ActivityResultEvent(s, announce, at))
         /\ \A k, revision, ok :
              SameWarnings(s, LaunchResultEvent(s, k, revision, ok))
         /\ \A a, items, at : SameWarnings(s, Reconcile(s, a, items, at))
         /\ \A k, id : SameWarnings(s, CompleteClose(s, k, id))
         /\ \A id, at, hosts : SameWarnings(s, JoinSignal(s, id, at, hosts))
         /\ \A id : SameWarnings(s, ClosedSignal(s, id))
         /\ \A at : SameWarnings(s, Settle(s, at))
         /\ SameWarnings(s, NormalizeLegacy(s))
<1>1. ASSUME NEW t, t.authWarnings = s.authWarnings,
             t.pendingAuthWarnings = s.pendingAuthWarnings
      PROVE  SameWarnings(s, t)
  BY <1>1 DEF SameWarnings, Warned
<1>2. ASSUME NEW f
      PROVE  SameWarnings(s, [s EXCEPT !.occurrences = f])
  BY <1>1 DEF StateType
<1>3. ASSUME NEW k, NEW guard, NEW o PROVE SameWarnings(s, Update(s, k, guard, o))
  BY <1>1 DEF Update, StateType
<1>4. \A at : SameWarnings(s, TickEvent(s, at))
  BY <1>2 DEF TickEvent
<1>5. \A announce, at : SameWarnings(s, ActivityResultEvent(s, announce, at))
  BY <1>2 DEF ActivityResultEvent
<1>6. \A k, revision, ok :
        SameWarnings(s, LaunchResultEvent(s, k, revision, ok))
  BY <1>3 DEF LaunchResultEvent
<1>7. ASSUME NEW a, NEW items, NEW at
      PROVE  SameWarnings(s, Reconcile(s, a, items, at))
  <2>1. PICK t : t = Reconcile(s, a, items, at)
    OBVIOUS
  <2>2. t.authWarnings = s.authWarnings
        /\ t.pendingAuthWarnings = s.pendingAuthWarnings
    BY <2>1 DEF Reconcile, StateType
  <2> QED  BY <1>1, <2>1, <2>2
<1>8. \A k, id : SameWarnings(s, CompleteClose(s, k, id))
  BY <1>3 DEF CompleteClose
<1>9. \A id, at, hosts : SameWarnings(s, JoinSignal(s, id, at, hosts))
  BY <1>2 DEF JoinSignal
<1>10. \A id : SameWarnings(s, ClosedSignal(s, id))
  BY <1>2 DEF ClosedSignal
<1>11. \A at : SameWarnings(s, Settle(s, at))
  BY <1>2 DEF Settle
<1>12. SameWarnings(s, NormalizeLegacy(s))
  BY <1>2 DEF NormalizeLegacy
<1> QED  BY <1>4, <1>5, <1>6, <1>7, <1>8, <1>9, <1>10, <1>11, <1>12

(* The reports of the client that show no warning. *)
LEMMA ReportsQuiet ==
  ASSUME NEW s, s \in StateType
  PROVE  /\ \A k, revision, id, at :
              SameWarnings(s, ApplyDelivery(s, k, revision, id, at))
         /\ \A k, revision, id, at :
              SameWarnings(s, ApplyNotificationFailure(s, k, revision, id, at))
         /\ \A a \in Accounts : \A revision, at :
              SameWarnings(s, ApplyWarningFailure(s, a, revision, at))
<1>1. ASSUME NEW k, NEW guard, NEW o PROVE SameWarnings(s, Update(s, k, guard, o))
  BY DEF Update, StateType, SameWarnings, Warned
<1>2. ASSUME NEW k, NEW revision, NEW id, NEW at
      PROVE  SameWarnings(s, ApplyDelivery(s, k, revision, id, at))
  BY <1>1 DEF ApplyDelivery
<1>3. ASSUME NEW k, NEW revision, NEW id, NEW at
      PROVE  SameWarnings(s, ApplyNotificationFailure(s, k, revision, id, at))
  BY <1>1, Zenon DEF ApplyNotificationFailure
<1>4. ASSUME NEW a \in Accounts, NEW revision, NEW at
      PROVE  SameWarnings(s, ApplyWarningFailure(s, a, revision, at))
  <2>1. PICK t : t = ApplyWarningFailure(s, a, revision, at)
    OBVIOUS
  <2>2. CASE t = s
    BY <2>1, <2>2 DEF SameWarnings
  <2>3. CASE t # s
    <3>1. PICK n, next :
            t = [s EXCEPT !.pendingAuthWarnings[a].attempt = n,
                          !.pendingAuthWarnings[a].notBefore = next]
      BY <2>1, <2>3 DEF ApplyWarningFailure
    <3>2. s.pendingAuthWarnings \in [Accounts -> WarningType]
      BY DEF StateType
    <3>3. PICK w : w = [s.pendingAuthWarnings[a] EXCEPT !.attempt = n,
                                                        !.notBefore = next]
      OBVIOUS
    <3>4. /\ t.authWarnings = s.authWarnings
          /\ t.pendingAuthWarnings = [s.pendingAuthWarnings EXCEPT ![a] = w]
      BY <3>1, <3>2, <3>3 DEF StateType
    <3>5. w.revision = s.pendingAuthWarnings[a].revision
          /\ w.createdAt = s.pendingAuthWarnings[a].createdAt
      BY <3>2, <3>3 DEF WarningType
    <3> QED  BY <2>1, <3>2, <3>4, <3>5 DEF SameWarnings, Warned
  <2> QED  BY <2>2, <2>3
<1> QED  BY <1>2, <1>3, <1>4

(* A failed poll warns when the interval has passed.                        *)
LEMMA PollFailureSafe ==
  ASSUME NEW s, s \in StateType, NEW now, WarningsSafe(s, now),
         NEW a \in Accounts, NEW kind, NEW gen, NEW at, at =< now,
         NEW t, t = ApplyPollFailure(s, a, kind, gen, at)
  PROVE  WarningsSafe(t, now) /\ Spaces(s, t)
<1>1. t.authWarnings = s.authWarnings
  BY DEF ApplyPollFailure, StateType
<1>2. ASSUME NEW b \in Accounts
      PROVE  \/ t.pendingAuthWarnings[b] = s.pendingAuthWarnings[b]
             \/ /\ t.pendingAuthWarnings[b].createdAt = at
                /\ \/ s.authWarnings[b] = 0
                   \/ s.authWarnings[b] + WarningInterval =< at
  BY DEF ApplyPollFailure, WarningDue, StateType
<1>3. WarningsSafe(t, now)
  BY <1>1, <1>2 DEF WarningsSafe, Warned
<1>4. Spaces(s, t)
  BY <1>1 DEF Spaces
<1> QED  BY <1>3, <1>4

(* A warning that was shown counts from when it was reported. *)
LEMMA WarningDeliverySafe ==
  ASSUME NEW s, s \in StateType, NEW now \in Nat, WarningsSafe(s, now),
         NEW a \in Accounts, NEW revision,
         NEW t, t = ApplyWarningDelivery(s, a, revision, now)
  PROVE  WarningsSafe(t, now) /\ Spaces(s, t)
<1>1. CASE t = s
  BY <1>1 DEF Spaces
<1>2. CASE t # s
  <2>1. Warned(s, a) /\ t = [s EXCEPT !.pendingAuthWarnings[a] = NoWarning,
                                      !.authWarnings[a] = now]
    BY <1>2 DEF ApplyWarningDelivery
  <2>2. /\ t.authWarnings = [s.authWarnings EXCEPT ![a] = now]
        /\ t.pendingAuthWarnings = [s.pendingAuthWarnings EXCEPT ![a] = NoWarning]
    BY <2>1 DEF StateType
  <2>3. /\ s.authWarnings \in [Accounts -> Nat]
        /\ s.pendingAuthWarnings \in [Accounts -> WarningType]
    BY DEF StateType
  <2>4. ASSUME NEW b \in Accounts, b # a
        PROVE  /\ t.authWarnings[b] = s.authWarnings[b]
               /\ t.pendingAuthWarnings[b] = s.pendingAuthWarnings[b]
    BY <2>2, <2>3, <2>4
  <2>5. t.authWarnings[a] = now /\ ~Warned(t, a)
    BY <2>2, <2>3 DEF Warned, NoWarning
  <2>6. WarningsSafe(t, now)
    BY <2>4, <2>5 DEF WarningsSafe, Warned
  <2>7. s.authWarnings[a] # 0 => now >= s.authWarnings[a] + WarningInterval
    <3>1. PICK w, c : w = s.authWarnings[a]
                      /\ c = s.pendingAuthWarnings[a].createdAt
      OBVIOUS
    <3>2. w \in Nat /\ c \in Nat /\ WarningInterval \in Nat
      <4>1. s.pendingAuthWarnings[a] \in WarningType
        BY <2>3
      <4> QED  BY <2>3, <3>1, <4>1, WarningIntervalAssumption DEF WarningType
    <3>3. c =< now /\ (w = 0 \/ w + WarningInterval =< c)
      BY <2>1, <3>1 DEF WarningsSafe
    <3> QED  BY <3>1, <3>2, <3>3
  <2>8. Spaces(s, t)
    BY <2>4, <2>5, <2>7 DEF Spaces
  <2> QED  BY <2>6, <2>8
<1> QED  BY <1>1, <1>2

(* What the loop saves. *)
LEMMA SettledSafe ==
  ASSUME NEW mid, Sound(mid), NEW now, WarningsSafe(mid, now),
         Spaces(state, mid), NEW at
  PROVE  WarningsSafe(Settle(mid, at), now) /\ Spaces(state, Settle(mid, at))
<1>1. SameWarnings(mid, Settle(mid, at))
  BY EntryEventsQuiet DEF Sound
<1> QED  BY <1>1, SameWarningsSafe DEF SameWarnings, Spaces

(* The step of the loop: the state is the old one or what was saved. *)
LEMMA ProcessSpaces ==
  ASSUME IInv, WarningsSafe(state, clock), NEW mid, NEW at, NEW r,
         Handled(mid, at, r), WarningsSafe(mid, clock), Spaces(state, mid),
         \/ \E kind, rest : Process(mid, at, kind, r, rest)
         \/ \E id : ProcessDelivery(mid, at, id, r)
  PROVE  WarningsSafe(state', clock') /\ Spaces(state, state')
<1>1. PICK next : next = Settle(mid, at)
  OBVIOUS
<1>2. WarningsSafe(next, clock) /\ Spaces(state, next)
  BY <1>1, SettledSafe DEF Handled
<1>3. clock' = clock /\ state' \in {state, next}
  BY <1>1 DEF Process, ProcessDelivery, Committed, SaveFailed, Rejected
<1>4. Spaces(state, state)
  BY DEF Spaces
<1> QED  BY <1>2, <1>3, <1>4

LEMMA HandleSpaces ==
  ASSUME IInv, WInv, WarningsSafe(state, clock), Handle
  PROVE  WarningsSafe(state', clock') /\ Spaces(state, state')
<1>1. state \in StateType /\ clock \in Nat
  BY Times DEF IInv, Sound
<1>2. CASE HandleTick
  <2>1. PICK mid : mid = TickEvent(state, clock)
    OBVIOUS
  <2>2. PICK r : r = [rt EXCEPT !.tick = FALSE, !.activityStale = TRUE]
    OBVIOUS
  <2>3. SameWarnings(state, mid)
    BY <1>1, <2>1, EntryEventsQuiet
  <2> QED  BY <1>2, <2>1, <2>2, <2>3, TickHandled, SameWarningsSafe,
              ProcessSpaces
<1>3. CASE HandleActivity
  <2>1. PICK e : e = rt.activityResult
    OBVIOUS
  <2>2. PICK mid : mid = ActivityResultEvent(state, e.announce, e.at)
    OBVIOUS
  <2>3. PICK r : r = [rt EXCEPT !.activityBusy = FALSE,
                                !.activityResult = Boot.activityResult]
    OBVIOUS
  <2>4. SameWarnings(state, mid)
    BY <1>1, <2>2, EntryEventsQuiet
  <2> QED  BY <1>3, <2>1, <2>2, <2>3, <2>4, ActivityHandled,
              SameWarningsSafe, ProcessSpaces
<1>4. CASE HandleLaunch
  <2>1. PICK e : e = rt.launchResult
    OBVIOUS
  <2>2. PICK key, revision :
          key = e.launch.key /\ revision = e.launch.revision
    OBVIOUS
  <2>3. PICK mid : mid = LaunchResultEvent(state, key, revision, e.ok)
    OBVIOUS
  <2>4. PICK r : r = [rt EXCEPT !.launcherBusy = FALSE,
                                !.launchResult = NoLaunchResult]
    OBVIOUS
  <2>5. SameWarnings(state, mid)
    BY <1>1, <2>3, EntryEventsQuiet
  <2> QED  BY <1>4, <2>1, <2>2, <2>3, <2>4, <2>5, LaunchHandled,
              SameWarningsSafe, ProcessSpaces
<1>5. CASE \E a \in Accounts : HandlePoll(a)
  <2>1. PICK a \in Accounts : HandlePoll(a)
    BY <1>5
  <2>2. PICK e : e = rt.pollResult[a]
    OBVIOUS
  <2>3. PICK mid, kind, r :
          /\ Handled(mid, e.at, r) /\ Process(mid, e.at, kind, r, signals)
          /\ \/ mid = Reconcile(state, a, e.items, e.at)
             \/ \E gen : mid = ApplyPollFailure(state, a, e.kind, gen, e.at)
    BY <2>1, <2>2, PollHandled
  <2>4. e.at =< clock
    BY <1>1, <2>2 DEF WInv, Stamps, Stamp
  <2>5. WarningsSafe(mid, clock) /\ Spaces(state, mid)
    BY <1>1, <2>3, <2>4, EntryEventsQuiet, SameWarningsSafe, PollFailureSafe
  <2> QED  BY <2>3, <2>5, ProcessSpaces
<1>6. CASE HandleDelivered
  <2>1. PICK mid :
          /\ Handled(mid, clock, NotifierFree)
          /\ ProcessDelivery(mid, clock, rt.notifyResult.id, NotifierFree)
          /\ \/ \E a \in Accounts : \E revision :
                  mid = ApplyWarningDelivery(state, a, revision, clock)
             \/ \E k, revision, i :
                  mid = ApplyDelivery(state, k, revision, i, clock)
    BY <1>6, DeliveredHandled
  <2>2. WarningsSafe(mid, clock) /\ Spaces(state, mid)
    BY <1>1, <2>1, ReportsQuiet, SameWarningsSafe, WarningDeliverySafe
  <2> QED  BY <2>1, <2>2, ProcessSpaces
<1>7. CASE HandleFailed
  <2>1. PICK mid :
          /\ Handled(mid, clock, NotifierFree)
          /\ Process(mid, clock, "notification", NotifierFree, signals)
          /\ \/ \E a \in Accounts : \E revision :
                  mid = ApplyWarningFailure(state, a, revision, clock)
             \/ \E k, revision, i :
                  mid = ApplyNotificationFailure(state, k, revision, i, clock)
    BY <1>7, FailedHandled
  <2>2. SameWarnings(state, mid)
    BY <1>1, <2>1, ReportsQuiet
  <2> QED  BY <2>1, <2>2, SameWarningsSafe, ProcessSpaces
<1>8. CASE HandleCompleted
  <2>1. PICK mid :
          /\ Handled(mid, clock, NotifierFree)
          /\ Process(mid, clock, "notification", NotifierFree, signals)
          /\ \E k, id : mid = CompleteClose(state, k, id)
    BY <1>8, CompletedHandled
  <2>2. SameWarnings(state, mid)
    BY <1>1, <2>1, EntryEventsQuiet
  <2> QED  BY <2>1, <2>2, SameWarningsSafe, ProcessSpaces
<1>9. CASE HandleSignal
  <2>1. PICK mid :
          /\ Handled(mid, clock, rt)
          /\ Process(mid, clock, "notification", rt, Tail(signals))
          /\ \E id : \/ mid = JoinSignal(state, id, clock, Hosts)
                     \/ mid = ClosedSignal(state, id)
    BY <1>9, SignalHandled
  <2>2. SameWarnings(state, mid)
    BY <1>1, <2>1, EntryEventsQuiet
  <2> QED  BY <2>1, <2>2, SameWarningsSafe, ProcessSpaces
<1> QED  BY <1>2, <1>3, <1>4, <1>5, <1>6, <1>7, <1>8, <1>9 DEF Handle

(* Every step. *)
LEMMA NextSpaces ==
  ASSUME IInv, WInv, WarningsSafe(state, clock), [Next]_vars
  PROVE  WarningsSafe(state', clock') /\ Spaces(state, state')
<1>1. state \in StateType /\ clock \in Nat
  BY Times DEF IInv, Sound
<1>2. CASE Handle
  BY <1>2, HandleSpaces
<1>3. CASE Restart
  <2>1. PICK t : t = NormalizeLegacy(state)
    OBVIOUS
  <2>2. state' = Settle(t, clock) /\ clock' = clock
    BY <1>3, <2>1 DEF Restart
  <2>3. SameWarnings(state, t)
    BY <1>1, <2>1, EntryEventsQuiet
  <2>4. WarningsSafe(t, clock) /\ Spaces(state, t)
    BY <2>3, SameWarningsSafe
  <2>5. Sound(t)
    <3>1. Sound(state) /\ Fits(state)
      BY DEF IInv, TypeOK, WidthsOK, Fits
    <3> QED  BY <2>1, <3>1, NormalizeSound
  <2> QED  BY <2>2, <2>4, <2>5, SettledSafe
<1>4. CASE state' = state /\ (clock' = clock \/ clock' = clock + 1)
  <2>1. ASSUME NEW a \in Accounts
        PROVE  state.authWarnings[a] \in Nat
               /\ state.pendingAuthWarnings[a].createdAt \in Nat
    <3>1. state.pendingAuthWarnings[a] \in WarningType
      BY <1>1 DEF StateType
    <3> QED  BY <1>1, <3>1 DEF StateType, WarningType
  <2>2. WarningsSafe(state', clock')
    BY <1>1, <1>4, <2>1 DEF WarningsSafe
  <2>3. Spaces(state, state')
    BY <1>4 DEF Spaces
  <2> QED  BY <2>2, <2>3
<1>5. CASE \/ Work \/ Crash \/ Advance \/ Horizon \/ UNCHANGED vars
           \/ \E id \in IDs : Dismiss(id) \/ Click(id)
  <2>1. state' = state /\ (clock' = clock \/ clock' = clock + 1)
    BY <1>5 DEF Work, CheckActivity, OpenMeeting, FetchCalendar, CallNotify,
       CallClose, Crash, Advance, Horizon, Dismiss, Click, Emit, vars
  <2> QED  BY <1>4, <2>1
<1> QED  BY <1>2, <1>3, <1>5 DEF Next

(* An account is warned of its authorization at most once per               *)
(* WarningInterval: what applyPollFailure compares is the time of a poll,   *)
(* what ApplyWarningDelivery stores the time of a later delivery, and       *)
(* crashes, restarts and failed calls may come between.                     *)
THEOREM WarnedOncePerInterval == Spec => WarningsSpaced
<1>1. ASSUME Init PROVE WarningsSafe(state, clock)
  <2>1. state = NewState /\ clock = 1
    BY <1>1 DEF Init
  <2>2. \A a \in Accounts : NewState.authWarnings[a] = 0
                           /\ NewState.pendingAuthWarnings[a] = NoWarning
    BY DEF NewState
  <2>3. NoWarning.revision = 0
    BY DEF NoWarning
  <2> QED  BY <2>1, <2>2, <2>3 DEF WarningsSafe, Warned
<1>2. /\ IInv /\ WInv /\ WarningsSafe(state, clock) /\ [Next]_vars
      => WarningsSafe(state, clock)'
  BY NextSpaces
<1>3. IInv /\ WInv /\ WarningsSafe(state, clock) /\ [Next]_vars
      => [\A a \in Accounts :
            LET old == state.authWarnings[a]  new == state'.authWarnings[a] IN
            old # 0 /\ new # old => new >= old + WarningInterval]_vars
  BY NextSpaces DEF Spaces
<1> QED  BY <1>1, <1>2, <1>3, StaysAwake, PTL DEF Spec, WarningsSpaced

-----------------------------------------------------------------------------
(* Entry by entry: what an event makes of one entry *)

(* The phases whose notification the user can still act on. *)
Visible(o) == o.phase \in {"notified", "actionable-history", "join-pending"}

(* Settle, the tail of every event. *)
Expired(o, n, at) ==
  /\ o.phase = "notify-pending" /\ ~(o.meeting.start > at)
  /\ \/ o.id = 0 /\ n.phase = "absent"
     \/ /\ o.id # 0 /\ n.phase = "close-pending" /\ n.id = o.id
        /\ n.notifyRevision = o.notifyRevision

LEMMA SettleAt ==
  ASSUME NEW s, Sound(s), NEW at, NEW k \in Keys,
         NEW o, o = s.occurrences[k],
         NEW n, n = Settle(s, at).occurrences[k]
  PROVE  n = o \/ Expired(o, n, at)
<1>0. o \in OccurrenceType
  BY LegitType DEF Sound
<1>1. s \in StateType
  BY DEF Sound
<1>2. n = ExpireNotifyPending(o, at)
  BY <1>1 DEF Settle, StateType
<1>3. CASE o.phase # "notify-pending" \/ o.meeting.start > at
  BY <1>2, <1>3 DEF ExpireNotifyPending
<1>4. CASE /\ o.phase = "notify-pending" /\ ~(o.meeting.start > at)
           /\ o.id = 0
  <2>1. n = NoEntry
    BY <1>2, <1>4 DEF ExpireNotifyPending
  <2>2. NoEntry.phase = "absent"
    BY DEF NoEntry
  <2> QED  BY <1>4, <2>1, <2>2 DEF Expired
<1>5. CASE /\ o.phase = "notify-pending" /\ ~(o.meeting.start > at)
           /\ o.id # 0
  <2>1. n = BeginClose(o, "expired", "")
    BY <1>2, <1>5 DEF ExpireNotifyPending
  <2>2. n.phase = "close-pending" /\ n.id = o.id
        /\ n.notifyRevision = o.notifyRevision
    BY <1>0, <2>1 DEF BeginClose, OccurrenceType
  <2> QED  BY <1>5, <2>2 DEF Expired
<1> QED  BY <1>3, <1>4, <1>5

(* Tick. *)
LEMMA TickAt ==
  ASSUME NEW s, Sound(s), NEW at, NEW k \in Keys,
         NEW o, o = s.occurrences[k],
         NEW n, n = TickEvent(s, at).occurrences[k]
  PROVE  \/ n = o
         \/ /\ o.phase \in {"scheduled", "notify-pending", "joined"}
            /\ n = NoEntry /\ MeetingExpired(o, at)
         \/ /\ o.phase \in {"notified", "join-pending"}
            /\ n.phase = "close-pending" /\ n.id = o.id
         \/ o.phase = "actionable-history" /\ n = NoEntry
<1>0. o \in OccurrenceType
  BY LegitType DEF Sound
<1>1. s \in StateType
  BY DEF Sound
<1>2. n = Prune(o, at)
  BY <1>1 DEF TickEvent, StateType
<1>3. CASE o.phase \in {"scheduled", "notify-pending", "joined"}
  <2>1. n = IF MeetingExpired(o, at) THEN NoEntry ELSE o
    BY <1>2, <1>3, Zenon DEF Prune
  <2> QED  BY <1>3, <2>1
<1>4. CASE o.phase \in {"notified", "join-pending"}
  <2>1. n = IF MeetingExpired(o, at) \/ ActionExpired(o, at)
              THEN BeginClose(o, "expired", "") ELSE o
    BY <1>2, <1>4, Zenon DEF Prune
  <2>2. BeginClose(o, "expired", "").phase = "close-pending"
        /\ BeginClose(o, "expired", "").id = o.id
    BY <1>0 DEF BeginClose, OccurrenceType
  <2> QED  BY <1>4, <2>1, <2>2
<1>5. CASE o.phase = "actionable-history"
  <2>1. n = IF ActionExpired(o, at) THEN NoEntry ELSE o
    BY <1>2, <1>5, Zenon DEF Prune
  <2> QED  BY <1>5, <2>1
<1>6. CASE o.phase \notin {"scheduled", "notify-pending", "joined", "notified",
                           "join-pending", "actionable-history"}
  <2>1. n = o
    BY <1>2, <1>6, Zenon DEF Prune
  <2> QED  BY <2>1
<1> QED  BY <1>3, <1>4, <1>5, <1>6

(* A check of the session. *)
LEMMA ActivityAt ==
  ASSUME NEW s, Sound(s), NEW announce, NEW at, NEW k \in Keys,
         NEW o, o = s.occurrences[k],
         NEW n, n = ActivityResultEvent(s, announce, at).occurrences[k]
  PROVE  \/ n = o
         \/ o.phase = "scheduled" /\ n.phase = "notify-pending" /\ n.id = 0
<1>1. Legit(o) /\ s \in StateType
  BY DEF Sound
<1>2. n = IF announce /\ o.phase = "scheduled" /\ Due(o.meeting, at)
            THEN [o EXCEPT !.phase = "notify-pending", !.notBefore = at,
                           !.notifyRevision = @ + 1]
            ELSE o
  BY <1>1 DEF ActivityResultEvent, StateType
<1>3. CASE o.phase = "scheduled"
  <2>1. o.id = 0 /\ o \in OccurrenceType
    BY <1>1, <1>3, HiddenHasNone, LegitType
  <2> QED  BY <1>2, <1>3, <2>1 DEF OccurrenceType
<1> QED  BY <1>2, <1>3

(* The result of a launch. *)
LEMMA LaunchAt ==
  ASSUME NEW s, Sound(s), NEW key \in Keys, NEW revision, NEW ok, NEW k \in Keys,
         NEW o, o = s.occurrences[k],
         NEW n, n = LaunchResultEvent(s, key, revision, ok).occurrences[k]
  PROVE  \/ n = o
         \/ /\ o.phase = "join-pending" /\ n.meeting = o.meeting
            /\ \/ n.phase = "joined" /\ n.id = 0
               \/ n.phase \in Actionable /\ n.id = o.id
<1>1. Legit(o) /\ s \in StateType /\ o \in OccurrenceType
  BY LegitType DEF Sound
<1>2. CASE k = key /\ o.phase = "join-pending" /\ o.joinRevision = revision
  <2>1. n = IF ok
      THEN [o EXCEPT !.phase = "joined", !.joinedAt = TRUE, !.id = 0,
                     !.notifiedAt = FALSE, !.actionExpiresAt = 0,
                     !.joinRequestedAt = FALSE, !.resume = ""]
      ELSE [o EXCEPT !.phase = o.resume, !.joinRequestedAt = FALSE,
                     !.resume = ""]
    BY <1>1, <1>2 DEF LaunchResultEvent, Update, StateType
  <2>2. o.resume \in Actionable
    BY <1>1, <1>2, PresentValid DEF ValidOccurrence, Actionable
  <2>3. CASE ok
    <3>1. n.meeting = o.meeting /\ n.phase = "joined" /\ n.id = 0
      BY <1>1, <2>1, <2>3 DEF OccurrenceType
    <3> QED  BY <1>2, <3>1
  <2>4. CASE ~ok
    <3>1. n.meeting = o.meeting /\ n.phase = o.resume /\ n.id = o.id
      BY <1>1, <2>1, <2>4 DEF OccurrenceType
    <3> QED  BY <1>2, <2>2, <3>1
  <2> QED  BY <2>3, <2>4
<1>3. CASE ~(k = key /\ o.phase = "join-pending" /\ o.joinRevision = revision)
  <2>1. n = o
    BY <1>1, <1>3 DEF LaunchResultEvent, Update, StateType
  <2> QED  BY <2>1
<1> QED  BY <1>2, <1>3

(* A click. *)
LEMMA JoinAt ==
  ASSUME NEW s, Sound(s), NEW id, NEW at, NEW H, NEW k \in Keys,
         NEW o, o = s.occurrences[k],
         NEW n, n = JoinSignal(s, id, at, H).occurrences[k]
  PROVE  \/ n = o
         \/ /\ o.id = id /\ o.phase \in Actionable
            /\ n.phase = "join-pending" /\ n.id = id /\ n.meeting = o.meeting
<1>1. Legit(o) /\ s \in StateType /\ o \in OccurrenceType
  BY LegitType DEF Sound
<1>2. n = IF HoldsID(s, k, id) /\ JoinAllowed(o, at, H)
            THEN [o EXCEPT !.phase = "join-pending", !.joinRequestedAt = TRUE,
                           !.joinRevision = @ + 1, !.resume = o.phase]
            ELSE o
  BY <1>1 DEF JoinSignal, StateType
<1>3. CASE HoldsID(s, k, id) /\ JoinAllowed(o, at, H)
  <2>1. o.id = id /\ o.phase \in Actionable
    BY <1>3 DEF HoldsID, JoinAllowed, Actionable
  <2> QED  BY <1>1, <1>2, <1>3, <2>1 DEF OccurrenceType
<1> QED  BY <1>2, <1>3

(* A finished close. *)
LEMMA ClosedFields ==
  ASSUME NEW o, Legit(o), NEW n, n = Closed(o)
  PROVE  /\ n.id = 0
         /\ \/ n.phase = "absent"
            \/ n.phase = "scheduled" /\ n.notifyRevision = o.notifyRevision
<1>1. CASE o.resume = "scheduled"
  <2>1. o \in OccurrenceType
    BY LegitType
  <2> QED  BY <1>1, <2>1 DEF Closed, OccurrenceType
<1>2. CASE o.resume # "scheduled"
  <2>1. o.resume # "notify-pending"
    BY DEF Legit
  <2>2. n = NoEntry
    BY <1>2, <2>1 DEF Closed
  <2>3. NoEntry.id = 0 /\ NoEntry.phase = "absent"
    BY DEF NoEntry
  <2> QED  BY <2>2, <2>3
<1> QED  BY <1>1, <1>2

(* A notification left the screen. *)
LEMMA ClosedAt ==
  ASSUME NEW s, Sound(s), NEW id, NEW k \in Keys,
         NEW o, o = s.occurrences[k],
         NEW n, n = ClosedSignal(s, id).occurrences[k]
  PROVE  \/ n = o
         \/ o.id = id /\ o.phase = "close-pending" /\ n = Closed(o)
         \/ /\ o.id = id /\ o.phase = "notified"
            /\ n.phase = "actionable-history" /\ n.id = id
            /\ n.meeting = o.meeting
<1>1. Legit(o) /\ s \in StateType /\ o \in OccurrenceType
  BY LegitType DEF Sound
<1>2. n = CASE HoldsID(s, k, id) /\ o.phase = "close-pending" -> Closed(o)
            [] HoldsID(s, k, id) /\ o.phase = "notified" ->
                 [o EXCEPT !.phase = "actionable-history"]
            [] OTHER -> o
  BY <1>1 DEF ClosedSignal, StateType
<1>3. CASE HoldsID(s, k, id) /\ o.phase = "close-pending"
  <2>1. n = Closed(o)
    BY <1>2, <1>3, Zenon
  <2> QED  BY <1>3, <2>1 DEF HoldsID
<1>4. CASE HoldsID(s, k, id) /\ o.phase = "notified"
  <2>1. n = [o EXCEPT !.phase = "actionable-history"]
    BY <1>2, <1>4
  <2> QED  BY <1>1, <1>4, <2>1 DEF HoldsID, OccurrenceType
<1>5. CASE ~(HoldsID(s, k, id) /\ o.phase \in {"close-pending", "notified"})
  <2>1. n = o
    BY <1>2, <1>5
  <2> QED  BY <2>1
<1> QED  BY <1>3, <1>4, <1>5

(* A close that the client executed. *)
LEMMA CompleteAt ==
  ASSUME NEW s, Sound(s), NEW key \in Keys, NEW id, NEW k \in Keys,
         NEW o, o = s.occurrences[k],
         NEW n, n = CompleteClose(s, key, id).occurrences[k]
  PROVE  \/ n = o
         \/ /\ k = key /\ id \in {0, o.id} /\ o.phase = "close-pending"
            /\ n = Closed(o)
<1>1. s \in StateType
  BY DEF Sound
<1> QED  BY <1>1 DEF CompleteClose, Update, StateType

(* A notification that was shown. *)
LEMMA DeliveryAt ==
  ASSUME NEW s, Sound(s), NEW key \in Keys, NEW revision, NEW id, NEW at,
         NEW k \in Keys, NEW o, o = s.occurrences[k],
         NEW n, n = ApplyDelivery(s, key, revision, id, at).occurrences[k]
  PROVE  \/ n = o
         \/ /\ k = key /\ o.phase = "notify-pending"
            /\ o.notifyRevision = revision
            /\ n.phase = "notified" /\ n.id = id /\ n.meeting = o.meeting
<1>1. s \in StateType /\ o \in OccurrenceType
  BY LegitType DEF Sound
<1>2. CASE k = key /\ o.phase = "notify-pending" /\ o.notifyRevision = revision
  <2>1. n = [o EXCEPT !.phase = "notified", !.id = id, !.notifiedAt = TRUE,
               !.actionExpiresAt = at + ActionLifetime,
               !.notBefore = 0, !.attempt = 0]
    BY <1>1, <1>2 DEF ApplyDelivery, Update, StateType
  <2> QED  BY <1>1, <1>2, <2>1 DEF OccurrenceType
<1>3. CASE ~(k = key /\ o.phase = "notify-pending"
             /\ o.notifyRevision = revision)
  <2>1. n = o
    BY <1>1, <1>3 DEF ApplyDelivery, Update, StateType
  <2> QED  BY <2>1
<1> QED  BY <1>2, <1>3

(* A command that failed. *)
LEMMA FailureAt ==
  ASSUME NEW s, Sound(s), NEW key \in Keys, NEW revision, NEW id, NEW at,
         NEW k \in Keys, NEW o, o = s.occurrences[k],
         NEW n,
         n = ApplyNotificationFailure(s, key, revision, id, at).occurrences[k]
  PROVE  \/ n = o
         \/ /\ k = key /\ o.phase \in {"notify-pending", "close-pending"}
            /\ o.phase = "notify-pending" => o.notifyRevision = revision
            /\ o.phase = "close-pending" => id # 0
            /\ n.phase = o.phase /\ n.id = o.id
            /\ n.notifyRevision = o.notifyRevision
<1>1. s \in StateType /\ o \in OccurrenceType
  BY LegitType DEF Sound
<1>2. PICK p : p = s.occurrences[key]
  OBVIOUS
<1>3. PICK i : i = NextAttempt(p.attempt)
  OBVIOUS
<1>4. CASE p.phase = "close-pending"
  <2>1. ApplyNotificationFailure(s, key, revision, id, at)
          = Update(s, key, id # 0 /\ id = p.id,
              [p EXCEPT !.attempt = i, !.notBefore = CloseRetry(at, i, key)])
    BY <1>2, <1>3, <1>4 DEF ApplyNotificationFailure
  <2>2. CASE k = key /\ id # 0 /\ id = p.id
    <3>1. n = [p EXCEPT !.attempt = i, !.notBefore = CloseRetry(at, i, key)]
      BY <1>1, <2>1, <2>2 DEF Update, StateType
    <3> QED  BY <1>1, <1>2, <1>4, <2>2, <3>1 DEF OccurrenceType
  <2>3. CASE ~(k = key /\ id # 0 /\ id = p.id)
    <3>1. n = o
      BY <1>1, <2>1, <2>3 DEF Update, StateType
    <3> QED  BY <3>1
  <2> QED  BY <2>2, <2>3
<1>5. CASE p.phase # "close-pending"
  <2>1. ApplyNotificationFailure(s, key, revision, id, at)
          = Update(s, key,
              p.phase = "notify-pending" /\ p.notifyRevision = revision,
              [p EXCEPT !.attempt = i, !.notBefore = NextRetry(at, i)])
    BY <1>2, <1>3, <1>5 DEF ApplyNotificationFailure
  <2>2. CASE k = key /\ p.phase = "notify-pending"
             /\ p.notifyRevision = revision
    <3>1. n = [p EXCEPT !.attempt = i, !.notBefore = NextRetry(at, i)]
      BY <1>1, <2>1, <2>2 DEF Update, StateType
    <3> QED  BY <1>1, <1>2, <2>2, <3>1 DEF OccurrenceType
  <2>3. CASE ~(k = key /\ p.phase = "notify-pending"
               /\ p.notifyRevision = revision)
    <3>1. n = o
      BY <1>1, <2>1, <2>3 DEF Update, StateType
    <3> QED  BY <3>1
  <2> QED  BY <2>2, <2>3
<1> QED  BY <1>4, <1>5

(* A poll.  An entry that waits to be announced keeps its notification, its *)
(* meeting and its revision, or takes a later revision, or leaves.          *)
Polled(o, n, at) ==
  /\ n.id = o.id
  /\ Visible(n) => n.phase = o.phase /\ n.meeting = o.meeting
  /\ o.phase = "notify-pending" =>
       \/ n = o
       \/ /\ ~Visible(n)
          /\ n.phase = "absent" \/ n.notifyRevision > o.notifyRevision
  /\ n.phase = "notify-pending" =>
       \/ n = o
       \/ n.notBefore = at /\ Due(n.meeting, at)

LEMMA RemovedAt ==
  ASSUME NEW o, Legit(o), NEW reason, NEW at,
         NEW n, n = ReconcileRemoved(o, reason)
  PROVE  Polled(o, n, at)
<1>0. o \in OccurrenceType
  BY LegitType
<1>1. o.notifyRevision \in Nat
  BY <1>0 DEF OccurrenceType
<1>2. NoEntry.id = 0 /\ NoEntry.phase = "absent"
  BY DEF NoEntry
<1>3. CASE o.phase = "scheduled"
  <2>1. n = NoEntry
    BY <1>3, Zenon DEF ReconcileRemoved
  <2>2. o.id = 0
    BY <1>3, HiddenHasNone
  <2> QED  BY <1>2, <1>3, <2>1, <2>2 DEF Polled, Visible
<1>4. CASE o.phase = "notify-pending" /\ o.id = 0
  <2>1. n = NoEntry
    BY <1>4, Zenon DEF ReconcileRemoved
  <2> QED  BY <1>2, <1>4, <2>1 DEF Polled, Visible
<1>5. CASE o.phase = "notify-pending" /\ o.id # 0
  <2>1. n = BeginClose([o EXCEPT !.notifyRevision = @ + 1], reason, "")
    BY <1>5, Zenon DEF ReconcileRemoved
  <2>2. PICK r \in Nat : r = o.notifyRevision + 1
    BY <1>1
  <2>3. n = [o EXCEPT !.notifyRevision = r, !.phase = "close-pending",
               !.closeReason = reason, !.resume = "", !.notifiedAt = FALSE,
               !.actionExpiresAt = 0, !.notBefore = 0, !.attempt = 0,
               !.joinRequestedAt = FALSE, !.joinedAt = FALSE]
    BY <1>0, <2>1, <2>2 DEF BeginClose, OccurrenceType
  <2>4. n.id = o.id /\ n.phase = "close-pending" /\ n.notifyRevision = r
    BY <1>0, <2>3 DEF OccurrenceType
  <2> QED  BY <1>1, <2>2, <2>4 DEF Polled, Visible
<1>6. CASE Visible(o)
  <2>1. n = BeginClose(o, reason, "")
    BY <1>6, Zenon DEF ReconcileRemoved, Visible
  <2>2. n.id = o.id /\ n.phase = "close-pending"
    BY <1>0, <2>1 DEF BeginClose, OccurrenceType
  <2> QED  BY <1>6, <2>2 DEF Polled, Visible
<1>7. CASE o.phase \notin {"scheduled", "notify-pending"} /\ ~Visible(o)
  <2>1. n = o
    BY <1>7, Zenon DEF ReconcileRemoved, Visible
  <2> QED  BY <1>7, <2>1 DEF Polled
<1> QED  BY <1>3, <1>4, <1>5, <1>6, <1>7

LEMMA CurrentAt ==
  ASSUME NEW o, Legit(o), NEW m \in Meetings, NEW at,
         NEW n, n = ReconcileCurrent(o, m, at)
  PROVE  Polled(o, n, at)
<1>0. o \in OccurrenceType
  BY LegitType
<1>1. o.notifyRevision \in Nat
  BY <1>0 DEF OccurrenceType
<1>2. CASE o.phase = "absent"
  <2>1. n = [NoEntry EXCEPT !.meeting = m, !.phase = "scheduled"]
    BY <1>2, Zenon DEF ReconcileCurrent
  <2>2. n.id = 0 /\ n.phase = "scheduled"
    BY <2>1 DEF NoEntry
  <2>3. o.id = 0
    BY <1>2, HiddenHasNone
  <2> QED  BY <1>2, <2>2, <2>3 DEF Polled, Visible
<1>3. CASE /\ o.phase # "absent"
           /\ \/ o.phase \in {"joined", "scheduled", "close-pending"}
              \/ ~ReplacementRelevantChanged(o.meeting, m)
  <2>1. n = [o EXCEPT !.meeting = m]
    BY <1>3, Zenon DEF ReconcileCurrent
  <2>2. n.phase = o.phase /\ n.id = o.id /\ n.meeting = m
    BY <1>0, <2>1 DEF OccurrenceType
  <2>3. Visible(o) \/ o.phase = "notify-pending" => o.meeting = m
    BY <1>3 DEF ReplacementRelevantChanged, Visible
  <2>4. o.meeting = m => n = o
    <3>1. SUFFICES ASSUME o.meeting = m PROVE n = o
      OBVIOUS
    <3>2. n = [o EXCEPT !.meeting = o.meeting]
      BY <2>1, <3>1
    <3> QED  BY ONLY <1>0, <3>2 DEF OccurrenceType
  <2> QED  BY <2>2, <2>3, <2>4 DEF Polled, Visible
<1>4. CASE /\ o.phase \in {"notify-pending"} \cup Shown
           /\ ReplacementRelevantChanged(o.meeting, m)
  <2>1. PICK r : r = Renewed(o, m)
    OBVIOUS
  <2>2. Legit(r) /\ r.id = o.id /\ r.phase = o.phase /\ r.meeting = m
    BY <1>4, <2>1, RenewedKeeps DEF Shown, Actionable
  <2>3. r \in OccurrenceType
    BY <2>2, LegitType
  <2>4. r.notifyRevision > o.notifyRevision
    <3>1. PICK v \in Nat : v = o.notifyRevision + 1
      BY <1>1
    <3>2. r = [o EXCEPT !.notifyRevision = v, !.meeting = m]
      BY <2>1, <3>1 DEF Renewed
    <3>3. r.notifyRevision = v
      BY <1>0, <3>2 DEF OccurrenceType
    <3> QED  BY <1>1, <3>1, <3>3
  <2>5. CASE o.phase = "notify-pending"
    <3>1. n = RenewPending(o, m, at)
      BY <1>4, <2>5, Zenon DEF ReconcileCurrent
    <3>2. CASE Due(m, at)
      <4>1. n = [r EXCEPT !.notBefore = at, !.attempt = 0]
        BY <2>1, <3>1, <3>2, Zenon DEF RenewPending
      <4>2. /\ n.phase = "notify-pending" /\ n.notBefore = at
            /\ n.meeting = m /\ n.id = o.id
            /\ n.notifyRevision = r.notifyRevision
        BY <2>2, <2>3, <2>5, <4>1 DEF OccurrenceType
      <4> QED  BY <2>4, <3>2, <4>2 DEF Polled, Visible
    <3>3. CASE ~Due(m, at) /\ o.id # 0
      <4>1. n = BeginClose(r, "rescheduled", "scheduled")
        BY <2>1, <3>1, <3>3, Zenon DEF RenewPending
      <4>2. n.phase = "close-pending" /\ n.id = o.id
            /\ n.notifyRevision = r.notifyRevision
        BY <2>2, <2>3, <4>1 DEF BeginClose, OccurrenceType
      <4> QED  BY <2>4, <4>2 DEF Polled, Visible
    <3>4. CASE ~Due(m, at) /\ o.id = 0
      <4>1. n = [r EXCEPT !.phase = "scheduled", !.notBefore = 0, !.attempt = 0]
        BY <2>1, <3>1, <3>4, Zenon DEF RenewPending
      <4>2. n.phase = "scheduled" /\ n.id = o.id
            /\ n.notifyRevision = r.notifyRevision
        BY <2>2, <2>3, <4>1 DEF OccurrenceType
      <4> QED  BY <2>4, <4>2 DEF Polled, Visible
    <3> QED  BY <3>2, <3>3, <3>4
  <2>6. CASE o.phase \in Shown
    <3>1. n = IF Due(m, at) THEN PrepareReplacement(o, m, at)
              ELSE [BeginClose(o, "rescheduled", "scheduled")
                      EXCEPT !.meeting = m]
      BY <1>4, <2>6, Zenon DEF ReconcileCurrent, Shown, Actionable
    <3>2. CASE Due(m, at)
      <4>1. n = [r EXCEPT !.phase = "notify-pending", !.notifiedAt = FALSE,
                   !.actionExpiresAt = 0, !.notBefore = at, !.attempt = 0,
                   !.joinRequestedAt = FALSE, !.joinedAt = FALSE,
                   !.closeReason = "", !.resume = ""]
        BY <2>1, <3>1, <3>2 DEF PrepareReplacement
      <4>2. /\ n.phase = "notify-pending" /\ n.notBefore = at
            /\ n.meeting = m /\ n.id = o.id
        BY <2>2, <2>3, <4>1 DEF OccurrenceType
      <4> QED  BY <2>6, <3>2, <4>2 DEF Polled, Visible, Shown, Actionable
    <3>3. CASE ~Due(m, at)
      <4>1. n = [[o EXCEPT !.phase = "close-pending",
                    !.closeReason = "rescheduled", !.resume = "scheduled",
                    !.notifiedAt = FALSE, !.actionExpiresAt = 0,
                    !.notBefore = 0, !.attempt = 0, !.joinRequestedAt = FALSE,
                    !.joinedAt = FALSE] EXCEPT !.meeting = m]
        BY <3>1, <3>3 DEF BeginClose
      <4>2. n.phase = "close-pending" /\ n.id = o.id
        BY <1>0, <4>1 DEF OccurrenceType
      <4> QED  BY <2>6, <4>2 DEF Polled, Visible, Shown, Actionable
    <3> QED  BY <3>2, <3>3
  <2> QED  BY <1>4, <2>5, <2>6
<1> QED
  <2>1. o.phase \in Phases \cup {"absent"}
    BY PhaseType
  <2> QED  BY <1>2, <1>3, <1>4, <2>1 DEF Phases, Shown, Actionable

(* An entry that is listed and then taken off in the same poll. *)
LEMMA ThenRemovedAt ==
  ASSUME NEW o, Legit(o), NEW c, Legit(c), NEW at, Polled(o, c, at),
         NEW reason \in CloseReasons, NEW n, n = ReconcileRemoved(c, reason)
  PROVE  Polled(o, n, at)
<1>1. Polled(c, n, at)
  BY RemovedAt
<1>2. Legit(n)
  BY ReconcileRemovedKeeps DEF Keeps
<1>3. /\ o.notifyRevision \in Nat
      /\ c.notifyRevision \in Nat
      /\ n.notifyRevision \in Nat
  <2>1. o \in OccurrenceType /\ c \in OccurrenceType /\ n \in OccurrenceType
    BY <1>2, LegitType
  <2> QED  BY <2>1 DEF OccurrenceType
<1>4. n.id = o.id
  BY <1>1 DEF Polled
<1>5. Visible(n) => n.phase = o.phase /\ n.meeting = o.meeting
  BY <1>1 DEF Polled, Visible
<1>6. n.phase = "notify-pending" => n = o \/ (n.notBefore = at /\ Due(n.meeting, at))
  BY <1>1 DEF Polled
<1>7. ASSUME o.phase = "notify-pending", n # o
      PROVE  ~Visible(n) /\ (n.phase = "absent" \/ n.notifyRevision > o.notifyRevision)
  <2>1. CASE n = c
    BY <1>7, <2>1 DEF Polled
  <2>2. CASE n # c /\ c.phase = "notify-pending"
    <3>1. ~Visible(n) /\ (n.phase = "absent" \/ n.notifyRevision > c.notifyRevision)
      BY <1>1, <2>2 DEF Polled
    <3>2. c = o \/ c.phase = "absent" \/ c.notifyRevision > o.notifyRevision
      BY <1>7 DEF Polled
    <3> QED  BY <1>3, <2>2, <3>1, <3>2
  <2>3. CASE n # c /\ c.phase # "notify-pending"
    <3>1. ~Visible(c)
      BY <1>7, <2>3 DEF Polled
    <3>2. n = NoEntry
      BY <2>3, <3>1, Zenon DEF ReconcileRemoved, Visible
    <3>3. NoEntry.phase = "absent"
      BY DEF NoEntry
    <3> QED  BY <3>2, <3>3 DEF Visible
  <2> QED  BY <2>1, <2>2, <2>3
<1> QED  BY <1>4, <1>5, <1>6, <1>7 DEF Polled

LEMMA ReconciledAt ==
  ASSUME NEW o, Legit(o), NEW at \in Nat, NEW n, Reconciled(o, n, at)
  PROVE  Polled(o, n, at)
<1>1. CASE n = o
  BY <1>1 DEF Polled
<1>2. CASE \E reason \in CloseReasons : n = ReconcileRemoved(o, reason)
  BY <1>2, RemovedAt
<1>3. ASSUME NEW m \in Meetings, NEW c, c = ReconcileCurrent(o, m, at)
      PROVE  /\ Polled(o, c, at)
             /\ \A reason \in CloseReasons :
                  Polled(o, ReconcileRemoved(c, reason), at)
  <2>1. Polled(o, c, at)
    BY <1>3, CurrentAt
  <2>2. Legit(c)
    BY <1>3, ReconcileCurrentKeeps DEF Keeps
  <2> QED  BY <2>1, <2>2, ThenRemovedAt
<1> QED  BY <1>1, <1>2, <1>3 DEF Reconciled

LEMMA ReconcileAt ==
  ASSUME NEW s, Sound(s), NEW a \in Accounts, NEW poll, NEW at \in Nat,
         NEW k \in Keys, \A j \in KeysOf(a) : GoodItem(poll[j]),
         NEW o, o = s.occurrences[k],
         NEW n, n = Reconcile(s, a, poll, at).occurrences[k]
  PROVE  IF AccountOf[k] = a THEN Polled(o, n, at) ELSE n = o
<1>1. s \in StateType /\ Legit(o)
  BY DEF Sound
<1>2. n = IF k \in KeysOf(a) THEN ReconcileItem(s, a, k, poll[k], at) ELSE o
  BY <1>1 DEF Reconcile, StateType
<1>3. CASE AccountOf[k] # a
  BY <1>2, <1>3 DEF KeysOf
<1>4. CASE AccountOf[k] = a
  <2>1. n = ReconcileItem(s, a, k, poll[k], at) /\ GoodItem(poll[k])
    BY <1>2, <1>4 DEF KeysOf
  <2>2. Reconciled(o, n, at)
    BY <2>1, ReconcileItemCases
  <2> QED  BY <1>1, <1>4, <2>2, ReconciledAt
<1> QED  BY <1>3, <1>4
-----------------------------------------------------------------------------
(* What is on screen is what Join would open *)

EndsAfterStart == \A m \in Meetings : MeetingEnd(m) >= m.start

(* The entry a Notify was made for still waits for it, as it was; or it has *)
(* moved on, and no notification of it is on screen.                        *)
Fresh(c, o, now) ==
  /\ o.phase = "notify-pending" /\ o.notifyRevision = c.revision
  /\ o.meeting = c.meeting /\ o.id = c.id /\ o.meeting.start > now

Past(c, o) ==
  ~Visible(o) /\ (o.phase = "absent" \/ o.notifyRevision > c.revision)

(* An entry moves on while its account is polled only.  The poll that takes *)
(* it back to where it was is one tick later, and the call done by then.    *)
Known(c, s, r, now) ==
  c.kind = "notify" =>
    \/ Fresh(c, s.occurrences[c.key], now)
    \/ /\ Past(c, s.occurrences[c.key])
       /\ r.tick = FALSE /\ AccountOf[c.key] \notin r.pollBusy

OnScreen(s, v) ==
  \A k \in Keys : LET o == s.occurrences[k] IN
    Visible(o) => v.meeting[o.id] = o.meeting

Brought(e, v) ==
  e.event = "delivered" /\ e.command.kind = "notify"
    => v.meeting[e.id] = e.command.meeting

ScreenOK(s, r, v, now) ==
  /\ OnScreen(s, v) /\ Brought(r.notifyResult, v)
  /\ r.tick = TRUE => r.pollBusy = {}
  /\ Known(r.notifySlot, s, r, now)
  /\ Known(r.notifyResult.command, s, r, now)

SInv == server.next =< MaxID + 1 /\ ScreenOK(state, rt, server, clock)

(* What any event but a poll and a report leaves of an entry. *)
Rests(o, n, now) ==
  /\ o.phase = "notify-pending" /\ o.meeting.start > now => n = o
  /\ ~Visible(o) =>
       \/ n.phase = "absent"
       \/ o.phase # "absent" /\ n.notifyRevision >= o.notifyRevision
  /\ Visible(n) => Visible(o) /\ n.id = o.id /\ n.meeting = o.meeting

(* The runtime that r becomes polls nothing that r did not. *)
Calmer(r, q) ==
  \/ q.tick = r.tick /\ q.pollBusy \subseteq r.pollBusy
  \/ q.tick = FALSE /\ q.pollBusy = {}

LEMMA SettleRests ==
  ASSUME NEW s, Sound(s), NEW now \in Nat, NEW k \in Keys
  PROVE  Rests(s.occurrences[k], Settle(s, now).occurrences[k], now)
<1>1. PICK o, n : o = s.occurrences[k] /\ n = Settle(s, now).occurrences[k]
  OBVIOUS
<1>2. n = o \/ Expired(o, n, now)
  BY <1>1, SettleAt
<1>3. o.notifyRevision \in Nat
  BY <1>1, EntryFields
<1>4. Rests(o, n, now)
  BY <1>2, <1>3 DEF Expired, Rests, Visible
<1> QED  BY <1>1, <1>4

LEMMA KnownRests ==
  ASSUME NEW s, Sound(s), NEW t, Sound(t), NEW c \in CommandType, CommandOK(c),
         NEW now, \A k \in Keys : Rests(s.occurrences[k], t.occurrences[k], now),
         NEW r, NEW q, Calmer(r, q), Known(c, s, r, now)
  PROVE  Known(c, t, q, now)
<1> SUFFICES ASSUME c.kind = "notify"
             PROVE  \/ Fresh(c, t.occurrences[c.key], now)
                    \/ /\ Past(c, t.occurrences[c.key])
                       /\ q.tick = FALSE /\ AccountOf[c.key] \notin q.pollBusy
  BY DEF Known
<1>1. c.key \in Keys
  BY DEF CommandOK
<1>2. PICK o, n : o = s.occurrences[c.key] /\ n = t.occurrences[c.key]
  OBVIOUS
<1>3. Rests(o, n, now)
  BY <1>1, <1>2
<1>4. o.notifyRevision \in Nat /\ n.notifyRevision \in Nat /\ c.revision \in Nat
  BY <1>1, <1>2, EntryFields DEF CommandType
<1>5. CASE Fresh(c, o, now)
  BY <1>2, <1>3, <1>5 DEF Rests, Fresh
<1>6. CASE /\ Past(c, o)
           /\ r.tick = FALSE /\ AccountOf[c.key] \notin r.pollBusy
  <2>1. Past(c, n)
    BY <1>3, <1>4, <1>6 DEF Rests, Past
  <2>2. q.tick = FALSE /\ AccountOf[c.key] \notin q.pollBusy
    BY <1>6 DEF Calmer
  <2> QED  BY <1>2, <2>1, <2>2
<1> QED  BY <1>2, <1>5, <1>6 DEF Known

LEMMA OnScreenRests ==
  ASSUME NEW s, NEW t, NEW v, NEW now, OnScreen(s, v),
         \A k \in Keys : Rests(s.occurrences[k], t.occurrences[k], now)
  PROVE  OnScreen(t, v)
BY DEF OnScreen, Rests

(* A runtime without commands. *)
LEMMA KnownNone ==
  ASSUME NEW s, NEW r, NEW now
  PROVE  /\ Known(NoCommand, s, r, now) /\ Known(NoResult.command, s, r, now)
         /\ \A v : Brought(NoResult, v)
BY DEF Known, NoCommand, NoResult, Brought

-----------------------------------------------------------------------------
(* What the scheduler adds *)

(* A Notify made at a time is for an entry that is due then. *)
Given(c, s, at) ==
  /\ c \in CommandType /\ CommandOK(c)
  /\ c.kind = "notify" =>
       LET o == s.occurrences[c.key] IN
       /\ NotifyReady(o, at) /\ c.revision = o.notifyRevision
       /\ c.meeting = o.meeting /\ c.id = o.id
  /\ c.kind = "close" => c.id # 0 /\ c.id = s.occurrences[c.key].id
  /\ c.kind = "warning" => c.key = 0

LEMMA NotificationGiven ==
  ASSUME NEW s, Sound(s), NEW at, NEW created, created \subseteq Accounts,
         NEW c, c = NextNotification(s, at, created)
  PROVE  Given(c, s, at)
<1>1. c \in CommandType /\ CommandOK(c)
  BY NextNotificationOK
<1>2. CASE created # {}
  <2>1. PICK a : a = CHOOSE b \in created : TRUE
    OBVIOUS
  <2>2. a \in Accounts
    BY <1>2, <2>1
  <2>3. c = WarningCommand(s, a)
    BY <1>2, <2>1, Zenon DEF NextNotification
  <2>4. c.kind = "warning" /\ c.key = 0
    BY <2>3 DEF WarningCommand, NoCommand
  <2> QED  BY <1>1, <2>4 DEF Given
<1>3. CASE created = {} /\ NotificationKeys(s, at) # {}
  <2>1. PICK k : k = Oldest(s, NotificationKeys(s, at))
    OBVIOUS
  <2>2. k \in NotificationKeys(s, at)
    <3>1. NotificationKeys(s, at) \subseteq Keys
      BY DEF NotificationKeys
    <3> QED  BY <1>3, <2>1, <3>1, OldestIn
  <2>3. PICK o : o = s.occurrences[k]
    OBVIOUS
  <2>4. k \in Keys /\ (NotifyReady(o, at) \/ CloseReady(o, at))
    BY <2>2, <2>3 DEF NotificationKeys
  <2>5. c = NotificationCommand(s, k)
    BY <1>3, <2>1, Zenon DEF NextNotification
  <2>6. CASE o.phase = "notify-pending"
    <3>1. c = [NoCommand EXCEPT !.kind = "notify", !.key = k, !.id = o.id,
                 !.revision = o.notifyRevision, !.meeting = o.meeting]
      BY <2>3, <2>5, <2>6 DEF NotificationCommand
    <3>2. /\ c.kind = "notify" /\ c.key = k /\ c.id = o.id /\ c.revision = o.notifyRevision
          /\ c.meeting = o.meeting
      BY <3>1 DEF NoCommand
    <3> QED  BY <1>1, <2>3, <2>4, <2>6, <3>2 DEF Given, CloseReady
  <2>7. CASE o.phase # "notify-pending"
    <3>1. c = [NoCommand EXCEPT !.kind = "close", !.key = k, !.id = o.id]
      BY <2>3, <2>5, <2>7 DEF NotificationCommand
    <3>2. c.kind = "close" /\ c.key = k /\ c.id = o.id
      BY <3>1 DEF NoCommand
    <3>3. o.id # 0
      <4>1. Legit(o)
        BY <2>3, <2>4 DEF Sound
      <4>2. o.phase = "close-pending"
        BY <2>4, <2>7 DEF NotifyReady, CloseReady
      <4> QED  BY <4>1, <4>2, ShownHasID
    <3> QED  BY <1>1, <2>3, <3>2, <3>3 DEF Given
  <2> QED  BY <2>6, <2>7
<1>4. CASE created = {} /\ NotificationKeys(s, at) = {}
           /\ WarningAccounts(s, at) # {}
  <2>1. PICK a : a = OldestWarning(s, at)
    OBVIOUS
  <2>2. a \in Accounts
    BY <1>4, <2>1, OldestWarningIn DEF WarningAccounts
  <2>3. c = WarningCommand(s, a)
    BY <1>4, <2>1, Zenon DEF NextNotification
  <2>4. c.kind = "warning" /\ c.key = 0
    BY <2>3 DEF WarningCommand, NoCommand
  <2> QED  BY <1>1, <2>4 DEF Given
<1>5. CASE created = {} /\ NotificationKeys(s, at) = {}
           /\ WarningAccounts(s, at) = {}
  <2>1. c = NoCommand
    BY <1>5, Zenon DEF NextNotification
  <2>2. c.kind = "none"
    BY <2>1 DEF NoCommand
  <2> QED  BY <1>1, <2>2 DEF Given
<1> QED  BY <1>2, <1>3, <1>4, <1>5

(* The commands of the runtime q that the scheduler makes of r. *)
Follows(r, q, s, at) ==
  /\ \/ SameNotifier(r, q)
     \/ /\ r.notifySlot = NoCommand /\ r.notifyResult = NoResult
        /\ q.notifyResult = NoResult /\ Given(q.notifySlot, s, at)
  /\ q.tick = r.tick

LEMMA ScheduleDurableFollows ==
  ASSUME NEW s, Sound(s), NEW r, RuntimeOK(r), NEW at,
         NEW created, created \subseteq Accounts,
         NEW n, n = ScheduleDurable(r, s, at, created)
  PROVE  Follows(r, n, s, at) /\ n.pollBusy = r.pollBusy
<1>1. PICK r1 : r1 = IF HasDue(s, at) /\ r.activityStale
                       THEN DispatchActivity(r) ELSE r
  OBVIOUS
<1>2. PICK c : c = NextNotification(s, at, created)
  OBVIOUS
<1>3. PICK r2 : r2 = IF c # NoCommand THEN DispatchNotifier(r1, c) ELSE r1
  OBVIOUS
<1>4. n = IF LaunchKeys(s) # {} THEN DispatchLaunch(r2, NextLaunch(s)) ELSE r2
  BY <1>1, <1>2, <1>3 DEF ScheduleDurable
<1>5. /\ RuntimeOK(r1) /\ SameNotifier(r, r1)
      /\ r1.tick = r.tick /\ r1.pollBusy = r.pollBusy
  <2>1. RuntimeOK(r1) /\ SameNotifier(r, r1)
    BY <1>1, DispatchActivityOK DEF SameNotifier
  <2>2. r \in RuntimeType
    BY DEF RuntimeOK
  <2>3. r1.tick = r.tick /\ r1.pollBusy = r.pollBusy
    BY <1>1, <2>2 DEF DispatchActivity, RuntimeType
  <2> QED  BY <2>1, <2>3
<1>6. Given(c, s, at)
  BY <1>2, NotificationGiven
<1>7. /\ RuntimeOK(r2) /\ r2.tick = r1.tick /\ r2.pollBusy = r1.pollBusy
      /\ \/ SameNotifier(r1, r2)
         \/ /\ r1.notifySlot = NoCommand /\ r1.notifyResult = NoResult
            /\ r2.notifySlot = c /\ r2.notifyResult = NoResult
  <2>1. r1 \in RuntimeType /\ NotifierOK(r1)
    BY <1>5 DEF RuntimeOK
  <2>2. CASE c # NoCommand
    <3>1. RuntimeOK(r2)
      BY <1>3, <1>5, <1>6, <2>2, DispatchNotifierOK DEF Given
    <3>2. CASE r1.notifierBusy
      BY <1>3, <2>2, <3>1, <3>2 DEF DispatchNotifier, SameNotifier
    <3>3. CASE ~r1.notifierBusy
      <4>1. r1.notifierBusy = FALSE
        BY <2>1, <3>3 DEF RuntimeType
      <4>2. r1.notifySlot = NoCommand /\ r1.notifyResult = NoResult
        BY <2>1, <4>1 DEF NotifierOK
      <4>3. r2 = [r1 EXCEPT !.notifierBusy = TRUE, !.notifySlot = c,
                            !.full = @ \/ r1.notifySlot # NoCommand]
        BY <1>3, <2>2, <3>3 DEF DispatchNotifier
      <4>4. /\ r2.notifySlot = c /\ r2.notifyResult = r1.notifyResult
            /\ r2.tick = r1.tick /\ r2.pollBusy = r1.pollBusy
        BY <2>1, <4>3 DEF RuntimeType
      <4> QED  BY <3>1, <4>2, <4>4
    <3> QED  BY <3>2, <3>3
  <2>3. CASE c = NoCommand
    BY <1>3, <1>5, <2>3 DEF SameNotifier
  <2> QED  BY <2>2, <2>3
<1>8. /\ SameNotifier(r2, n) /\ n.tick = r2.tick /\ n.pollBusy = r2.pollBusy
  <2>1. r2 \in RuntimeType
    BY <1>7 DEF RuntimeOK
  <2>2. PICK l : l = NextLaunch(s)
    OBVIOUS
  <2>3. \/ n = r2
        \/ n = [r2 EXCEPT !.launcherBusy = TRUE, !.launchSlot = l,
                          !.full = @ \/ r2.launchSlot # NoLaunch]
    BY <1>4, <2>2 DEF DispatchLaunch
  <2> QED  BY <2>1, <2>3 DEF SameNotifier, RuntimeType
<1> QED  BY <1>5, <1>6, <1>7, <1>8 DEF Follows, SameNotifier

LEMMA AfterCommitFollows ==
  ASSUME NEW next, Sound(next), NEW r, RuntimeOK(r),
         NEW at, NEW kind, NEW q, q = AfterCommit(r, next, at, kind)
  PROVE  /\ Follows(r, q, next, at)
         /\ kind # "tick" => q.pollBusy = r.pollBusy
<1>1. PICK r1 : r1 = CASE kind = "tick" -> SchedulePolls(r, at)
                      [] kind \notin {"tick", "activity"} /\ next # state ->
                           [r EXCEPT !.activityStale = TRUE]
                      [] OTHER -> r
  OBVIOUS
<1>2. q = ScheduleDurable(r1, next, at, Created(next))
  BY <1>1, Zenon DEF AfterCommit
<1>3. r \in RuntimeType
  BY DEF RuntimeOK
<1>4. /\ RuntimeOK(r1) /\ SameNotifier(r, r1) /\ r1.tick = r.tick
      /\ kind # "tick" => r1.pollBusy = r.pollBusy
  <2>1. CASE kind = "tick"
    <3>1. r1 = SchedulePolls(r, at)
      BY <1>1, <2>1, Zenon
    <3>2. RuntimeOK(r1) /\ SameNotifier(r, r1)
      BY <3>1, SchedulePollsOK
    <3>3. PICK ready : ready = {a \in Accounts \ r.pollBusy :
                                  r.retries[a].next =< at}
      OBVIOUS
    <3>4. r1 = [r EXCEPT !.pollBusy = @ \cup ready, !.pollSlot = @ \cup ready,
                         !.full = @ \/ ready \cap r.pollSlot # {}]
      BY <3>1, <3>3 DEF SchedulePolls
    <3>5. r1.tick = r.tick
      BY <1>3, <3>4 DEF RuntimeType
    <3> QED  BY <2>1, <3>2, <3>5
  <2>2. CASE kind # "tick"
    <3>1. r1 = [r EXCEPT !.activityStale = TRUE] \/ r1 = r
      BY <1>1, <2>2, Zenon
    <3>2. r1 \in RuntimeType /\ r1.full = r.full
      BY <1>3, <3>1 DEF RuntimeType
    <3>3. SameActivity(r, r1) /\ SameNotifier(r, r1) /\ SameLauncher(r, r1)
          /\ SamePolls(r, r1) /\ r1.tick = r.tick
      BY <1>3, <3>1 DEF SameActivity, SameNotifier, SameLauncher, SamePolls,
                        RuntimeType
    <3> QED  BY <3>2, <3>3, SameOK DEF RuntimeOK, SamePolls
  <2> QED  BY <2>1, <2>2
<1>5. Created(next) \subseteq Accounts
  BY DEF Created
<1>6. Follows(r1, q, next, at) /\ q.pollBusy = r1.pollBusy
  BY <1>2, <1>4, <1>5, ScheduleDurableFollows
<1> QED  BY <1>4, <1>6 DEF Follows, SameNotifier
-----------------------------------------------------------------------------
(* Loop.process *)

(* What the tick leaves of the client's command: an entry that still waits. *)
Ahead(c, s, now) == c.kind = "notify" => Fresh(c, s.occurrences[c.key], now)

Quiescent(r, s, now) ==
  /\ r.tick = FALSE
  /\ Ahead(r.notifySlot, s, now) /\ Ahead(r.notifyResult.command, s, now)

LEMMA AheadKnown ==
  ASSUME NEW c, NEW s, NEW t, NEW now, Ahead(c, s, now), NEW r, CommandOK(c),
         \A k \in Keys : Rests(s.occurrences[k], t.occurrences[k], now)
  PROVE  Ahead(c, t, now) /\ Known(c, t, r, now)
<1>1. Ahead(c, t, now)
  BY DEF Ahead, CommandOK, Rests, Fresh
<1> QED  BY <1>1 DEF Ahead, Known

LEMMA GivenKnown ==
  ASSUME NEW s, Sound(s), NEW c, NEW now, Given(c, s, now), NEW r
  PROVE  Known(c, s, r, now)
<1> SUFFICES ASSUME c.kind = "notify"
             PROVE  Fresh(c, s.occurrences[c.key], now)
  BY DEF Known
<1>1. PICK o : o = s.occurrences[c.key]
  OBVIOUS
<1>2. /\ NotifyReady(o, now) /\ c.revision = o.notifyRevision
      /\ c.meeting = o.meeting /\ c.id = o.id
  BY <1>1 DEF Given
<1> QED  BY <1>1, <1>2 DEF NotifyReady, Due, Fresh

(* The commands of a sound runtime. *)
LEMMA Commands ==
  ASSUME NEW r, RuntimeOK(r)
  PROVE  /\ r.notifySlot \in CommandType /\ CommandOK(r.notifySlot)
         /\ r.notifyResult.command \in CommandType
         /\ CommandOK(r.notifyResult.command)
<1>1. r \in RuntimeType /\ NotifierOK(r)
  BY DEF RuntimeOK
<1>2. r.notifySlot \in CommandType /\ r.notifyResult \in NotifyResultType
  BY <1>1 DEF RuntimeType
<1>3. r.notifyResult.command \in CommandType
  BY <1>2 DEF NotifyResultType
<1> QED  BY <1>1, <1>2, <1>3 DEF NotifierOK, ReportOK

LEMMA CommittedScreen ==
  ASSUME IInv, NEW mid, NEW at, at = clock, NEW r, Handled(mid, at, r),
         NEW next, next = Settle(mid, at), ~RevisionExhausted(mid),
         NEW kind, NEW rest, Committed(next, at, kind, r, rest),
         clock' = clock, server' = server,
         ScreenOK(mid, r, server, clock),
         kind = "tick" => Quiescent(r, mid, clock)
  PROVE  ScreenOK(state', rt', server', clock')
<1>1. /\ Sound(mid) /\ at \in Nat /\ Sound(next) /\ RuntimeOK(r)
      /\ Claims(next, r, server.next)
  BY SavedOK DEF Handled
<1>2. PICK q : q = AfterCommit(r, next, at, kind)
  OBVIOUS
<1>3. RuntimeOK(q)
  BY <1>1, <1>2, AfterCommitOK
<1>4. q.full = FALSE
  BY <1>3 DEF RuntimeOK
<1>5. state' = next /\ rt' = q
  BY <1>2, <1>4 DEF Committed
<1>6. /\ Follows(r, q, next, at)
      /\ kind # "tick" => q.pollBusy = r.pollBusy
  BY <1>1, <1>2, AfterCommitFollows
<1>7. \A k \in Keys : Rests(mid.occurrences[k], next.occurrences[k], clock)
  BY <1>1, SettleRests
<1>8. OnScreen(next, server)
  BY <1>7, OnScreenRests DEF ScreenOK
<1>9. Brought(q.notifyResult, server)
  BY <1>6, KnownNone DEF Follows, SameNotifier, ScreenOK
<1>10. q.tick = TRUE => q.pollBusy = {}
  BY <1>6 DEF Follows, Quiescent, ScreenOK
<1>11. Known(q.notifySlot, next, q, clock)
       /\ Known(q.notifyResult.command, next, q, clock)
  <2>1. CASE SameNotifier(r, q) /\ kind = "tick"
    <3>1. Ahead(r.notifySlot, mid, clock)
          /\ Ahead(r.notifyResult.command, mid, clock)
      BY <2>1 DEF Quiescent
    <3>2. CommandOK(r.notifySlot) /\ CommandOK(r.notifyResult.command)
      BY <1>1, Commands
    <3>3. Known(r.notifySlot, next, q, clock)
          /\ Known(r.notifyResult.command, next, q, clock)
      BY <1>7, <3>1, <3>2, AheadKnown
    <3> QED  BY <2>1, <3>3 DEF SameNotifier
  <2>2. CASE SameNotifier(r, q) /\ kind # "tick"
    <3>1. Calmer(r, q)
      BY <1>6, <2>2 DEF Calmer, Follows
    <3>2. /\ r.notifySlot \in CommandType /\ CommandOK(r.notifySlot)
          /\ r.notifyResult.command \in CommandType
          /\ CommandOK(r.notifyResult.command)
      BY <1>1, Commands
    <3>3. Known(r.notifySlot, mid, r, clock)
          /\ Known(r.notifyResult.command, mid, r, clock)
      BY DEF ScreenOK
    <3>4. Known(r.notifySlot, next, q, clock)
      BY <1>1, <1>7, <3>1, <3>2, <3>3, KnownRests
    <3>5. Known(r.notifyResult.command, next, q, clock)
      BY <1>1, <1>7, <3>1, <3>2, <3>3, KnownRests
    <3> QED  BY <2>2, <3>4, <3>5 DEF SameNotifier
  <2>3. CASE q.notifyResult = NoResult /\ Given(q.notifySlot, next, at)
    BY <1>1, <2>3, KnownNone, GivenKnown
  <2> QED  BY <1>6, <2>1, <2>2, <2>3 DEF Follows
<1> QED  BY <1>5, <1>8, <1>9, <1>10, <1>11 DEF ScreenOK

(* The service stops. *)
LEMMA StopScreen ==
  ASSUME OnScreen(state', server), server'.meeting = server.meeting, rt' = Boot
  PROVE  ScreenOK(state', rt', server', clock')
<1>1. OnScreen(state', server')
  BY DEF OnScreen
<1>2. /\ Boot.notifySlot = NoCommand /\ Boot.notifyResult = NoResult
      /\ Boot.tick = FALSE
  BY DEF Boot
<1> QED  BY <1>1, <1>2, KnownNone DEF ScreenOK

LEMMA ProcessScreen ==
  ASSUME IInv, SInv, NEW mid, NEW at, at = clock, NEW r, Handled(mid, at, r),
         NEW kind, NEW rest, Process(mid, at, kind, r, rest),
         ScreenOK(mid, r, server, clock),
         kind = "tick" => Quiescent(r, mid, clock)
  PROVE  SInv'
<1>1. PICK next : next = Settle(mid, at)
  OBVIOUS
<1>2. clock' = clock /\ server' = server
  BY DEF Process
<1>3. OnScreen(state, server) /\ OnScreen(next, server)
  <2>1. Sound(mid) /\ at \in Nat
    BY DEF Handled
  <2>2. \A k \in Keys : Rests(mid.occurrences[k], next.occurrences[k], at)
    BY <1>1, <2>1, SettleRests
  <2> QED  BY <2>2, OnScreenRests DEF ScreenOK, SInv
<1>4. CASE Accepted(mid, at) /\ Committed(next, at, kind, r, rest)
  <2>1. ~RevisionExhausted(mid)
    BY <1>4 DEF Accepted
  <2>2. ScreenOK(state', rt', server', clock')
    BY <1>1, <1>2, <1>4, <2>1, CommittedScreen
  <2> QED  BY <1>2, <2>2 DEF SInv
<1>5. CASE rt' = Boot /\ state' \in {state, next}
  <2>1. ScreenOK(state', rt', server', clock')
    BY <1>2, <1>3, <1>5, StopScreen
  <2> QED  BY <1>2, <2>1 DEF SInv
<1> QED  BY <1>1, <1>4, <1>5 DEF Process, SaveFailed, Rejected, Stop

LEMMA ProcessDeliveryScreen ==
  ASSUME IInv, SInv, NEW mid, NEW at, at = clock, NEW r, Handled(mid, at, r),
         NEW id, ProcessDelivery(mid, at, id, r),
         ScreenOK(mid, r, server, clock)
  PROVE  SInv'
<1>1. PICK next : next = Settle(mid, at)
  OBVIOUS
<1>2. clock' = clock
  BY DEF ProcessDelivery
<1>3. OnScreen(state, server) /\ OnScreen(next, server)
  <2>1. Sound(mid) /\ at \in Nat
    BY DEF Handled
  <2>2. \A k \in Keys : Rests(mid.occurrences[k], next.occurrences[k], at)
    BY <1>1, <2>1, SettleRests
  <2> QED  BY <2>2, OnScreenRests DEF ScreenOK, SInv
<1>4. server'.meeting = server.meeting /\ server'.next = server.next
  <2>1. server' = server \/ server' = Withdraw(id)
    BY DEF ProcessDelivery, Compensated
  <2>2. Withdraw(id).meeting = server.meeting
        /\ Withdraw(id).next = server.next
    <3>1. server \in ServerType
      BY Fields
    <3> QED  BY <3>1 DEF Withdraw, ServerType
  <2> QED  BY <2>1, <2>2
<1>5. CASE /\ Accepted(mid, at) /\ server' = server
           /\ Committed(next, at, "notification", r, signals)
  <2>1. ~RevisionExhausted(mid)
    BY <1>5 DEF Accepted
  <2>2. ScreenOK(state', rt', server', clock')
    BY <1>1, <1>2, <1>5, <2>1, CommittedScreen
  <2> QED  BY <1>4, <2>2 DEF SInv
<1>6. CASE rt' = Boot /\ state' \in {state, next}
  <2>1. ScreenOK(state', rt', server', clock')
    BY <1>3, <1>4, <1>6, StopScreen
  <2> QED  BY <1>4, <2>1 DEF SInv
<1> QED  BY <1>1, <1>5, <1>6 DEF ProcessDelivery, SaveFailed, Rejected, Stop

-----------------------------------------------------------------------------
(* The events *)

(* The state mid that an event leaves when no entry moves on, and a runtime *)
(* q with the same commands as r.                                           *)
LEMMA RestsScreen ==
  ASSUME NEW s, Sound(s), NEW mid, Sound(mid), NEW r, RuntimeOK(r),
         NEW q, SameNotifier(r, q), Calmer(r, q), NEW v, NEW now,
         \A k \in Keys : Rests(s.occurrences[k], mid.occurrences[k], now),
         ScreenOK(s, r, v, now)
  PROVE  ScreenOK(mid, q, v, now)
<1>1. OnScreen(mid, v)
  BY OnScreenRests DEF ScreenOK
<1>2. Brought(q.notifyResult, v)
  BY DEF ScreenOK, SameNotifier
<1>3. q.tick = TRUE => q.pollBusy = {}
  BY DEF ScreenOK, Calmer
<1>4. /\ r.notifySlot \in CommandType /\ CommandOK(r.notifySlot)
      /\ r.notifyResult.command \in CommandType
      /\ CommandOK(r.notifyResult.command)
  BY Commands
<1>5. Known(r.notifySlot, s, r, now) /\ Known(r.notifyResult.command, s, r, now)
  BY DEF ScreenOK
<1>6. Known(r.notifySlot, mid, q, now)
  BY <1>4, <1>5, KnownRests
<1>7. Known(r.notifyResult.command, mid, q, now)
  BY <1>4, <1>5, KnownRests
<1> QED  BY <1>1, <1>2, <1>3, <1>6, <1>7 DEF ScreenOK, SameNotifier

(* A runtime whose client is free. *)
LEMMA FreeScreen ==
  ASSUME NEW r, NEW q, Calmer(r, q), NEW s, NEW mid, NEW v, NEW now,
         ScreenOK(s, r, v, now), OnScreen(mid, v),
         q.notifySlot = NoCommand, q.notifyResult = NoResult
  PROVE  ScreenOK(mid, q, v, now)
<1>1. q.tick = TRUE => q.pollBusy = {}
  BY DEF ScreenOK, Calmer
<1> QED  BY <1>1, KnownNone DEF ScreenOK

(* An entry that is left alone rests. *)
LEMMA SameRests ==
  ASSUME NEW o, Legit(o), NEW now
  PROVE  Rests(o, o, now)
<1>1. o.notifyRevision \in Nat
  BY RevisionType
<1> QED  BY <1>1 DEF Rests

(* The tick deletes no entry that waits for a meeting that is to come.      *)
LEMMA TickRests ==
  ASSUME EndsAfterStart, NEW s, Sound(s), NEW now \in Nat, NEW k \in Keys
  PROVE  Rests(s.occurrences[k], TickEvent(s, now).occurrences[k], now)
<1>1. PICK o, n :
        o = s.occurrences[k] /\ n = TickEvent(s, now).occurrences[k]
  OBVIOUS
<1>2. Legit(o) /\ o \in OccurrenceType
  BY <1>1, LegitType DEF Sound
<1>3. NoEntry.phase = "absent"
  BY DEF NoEntry
<1>4. CASE n = o
  BY <1>1, <1>2, <1>4, SameRests
<1>5. CASE n = NoEntry /\ MeetingExpired(o, now)
           /\ o.phase \in {"scheduled", "notify-pending", "joined"}
  <2>1. ~(o.meeting.start > now)
    <3>1. CASE o.meeting = NoMeeting
      <4>1. NoMeeting.start = 0
        BY DEF NoMeeting
      <4> QED  BY <3>1, <4>1
    <3>2. CASE o.meeting \in Meetings
      <4>1. MeetingEnd(o.meeting) >= o.meeting.start
        BY <3>2 DEF EndsAfterStart
      <4>2. o.meeting.start \in Nat /\ MeetingEnd(o.meeting) \in Nat
        <5>1. o.meeting \in MeetingType
          BY <3>2, MeetingsAssumption
        <5> QED  BY <5>1, FallbackLifetimeAssumption DEF MeetingType, MeetingEnd
      <4> QED  BY <1>5, <4>1, <4>2 DEF MeetingExpired
    <3> QED  BY <1>2, <3>1, <3>2 DEF OccurrenceType
  <2> QED  BY <1>1, <1>3, <1>5, <2>1 DEF Rests, Visible
<1>6. CASE \/ o.phase \in {"notified", "join-pending"}
              /\ n.phase = "close-pending"
           \/ o.phase = "actionable-history" /\ n = NoEntry
  BY <1>1, <1>3, <1>6 DEF Rests, Visible
<1> QED  BY <1>1, <1>4, <1>5, <1>6, TickAt

LEMMA ActivityRests ==
  ASSUME NEW s, Sound(s), NEW announce \in BOOLEAN, NEW at, NEW now,
         NEW k \in Keys
  PROVE  Rests(s.occurrences[k],
               ActivityResultEvent(s, announce, at).occurrences[k], now)
<1>1. PICK o, n :
        /\ o = s.occurrences[k]
        /\ n = ActivityResultEvent(s, announce, at).occurrences[k]
  OBVIOUS
<1>2. Legit(o)
  BY <1>1 DEF Sound
<1>3. CASE n = o
  BY <1>1, <1>2, <1>3, SameRests
<1>4. CASE o.phase = "scheduled" /\ n.phase = "notify-pending"
  <2>1. Advances(o, n)
    BY <1>1, ActivityEvolves DEF StateEvolves, Evolves
  <2>2. n.notifyRevision >= o.notifyRevision
    BY <1>4, <2>1 DEF Advances
  <2> QED  BY <1>1, <1>4, <2>2 DEF Rests, Visible
<1> QED  BY <1>1, <1>3, <1>4, ActivityAt

LEMMA LaunchRests ==
  ASSUME NEW s, Sound(s), NEW key \in Keys, NEW revision, NEW ok, NEW now,
         NEW k \in Keys
  PROVE  Rests(s.occurrences[k],
               LaunchResultEvent(s, key, revision, ok).occurrences[k], now)
<1>1. PICK o, n :
        /\ o = s.occurrences[k]
        /\ n = LaunchResultEvent(s, key, revision, ok).occurrences[k]
  OBVIOUS
<1>2. Legit(o)
  BY <1>1 DEF Sound
<1>3. CASE n = o
  BY <1>1, <1>2, <1>3, SameRests
<1>4. CASE /\ o.phase = "join-pending" /\ n.meeting = o.meeting
           /\ \/ n.phase = "joined" /\ n.id = 0
              \/ n.phase \in Actionable /\ n.id = o.id
  BY <1>1, <1>4 DEF Rests, Visible, Actionable
<1> QED  BY <1>1, <1>3, <1>4, LaunchAt

LEMMA JoinRests ==
  ASSUME NEW s, Sound(s), NEW id, NEW at, NEW H, NEW now, NEW k \in Keys
  PROVE  Rests(s.occurrences[k], JoinSignal(s, id, at, H).occurrences[k], now)
<1>1. PICK o, n :
        o = s.occurrences[k] /\ n = JoinSignal(s, id, at, H).occurrences[k]
  OBVIOUS
<1>2. Legit(o)
  BY <1>1 DEF Sound
<1>3. CASE n = o
  BY <1>1, <1>2, <1>3, SameRests
<1>4. CASE /\ o.id = id /\ o.phase \in Actionable
           /\ n.phase = "join-pending" /\ n.id = id /\ n.meeting = o.meeting
  BY <1>1, <1>4 DEF Rests, Visible, Actionable
<1> QED  BY <1>1, <1>3, <1>4, JoinAt

LEMMA ClosedRests ==
  ASSUME NEW s, Sound(s), NEW id, NEW now, NEW k \in Keys
  PROVE  Rests(s.occurrences[k], ClosedSignal(s, id).occurrences[k], now)
<1>1. PICK o, n :
        o = s.occurrences[k] /\ n = ClosedSignal(s, id).occurrences[k]
  OBVIOUS
<1>2. Legit(o) /\ o.notifyRevision \in Nat
  BY <1>1, RevisionType DEF Sound
<1>3. CASE n = o
  BY <1>1, <1>2, <1>3, SameRests
<1>4. CASE o.phase = "close-pending" /\ n = Closed(o)
  <2>1. \/ n.phase = "absent"
        \/ n.phase = "scheduled" /\ n.notifyRevision = o.notifyRevision
    BY <1>2, <1>4, ClosedFields
  <2> QED  BY <1>1, <1>2, <1>4, <2>1 DEF Rests, Visible
<1>5. CASE /\ o.id = id /\ o.phase = "notified"
           /\ n.phase = "actionable-history" /\ n.id = id
           /\ n.meeting = o.meeting
  BY <1>1, <1>5 DEF Rests, Visible
<1> QED  BY <1>1, <1>3, <1>4, <1>5, ClosedAt

LEMMA NormalizeRests ==
  ASSUME NEW s, Sound(s), NEW k \in Keys
  PROVE  LET o == s.occurrences[k]  n == NormalizeLegacy(s).occurrences[k] IN
         n.phase = o.phase /\ n.id = o.id /\ n.meeting = o.meeting
<1>1. s.occurrences[k] \in OccurrenceType /\ s \in StateType
  BY LegitType DEF Sound
<1> QED  BY <1>1 DEF NormalizeLegacy, StateType, OccurrenceType

-----------------------------------------------------------------------------
(* The loop keeps the screen current *)

(* The tick comes when every poll has ended: what the client still has in   *)
(* hand is of entries that wait.                                            *)
LEMMA TickScreen ==
  ASSUME IInv, SInv, EndsAfterStart, HandleTick
  PROVE  SInv'
<1>1. PICK mid : mid = TickEvent(state, clock)
  OBVIOUS
<1>2. PICK r : r = [rt EXCEPT !.tick = FALSE, !.activityStale = TRUE]
  OBVIOUS
<1>3. Handled(mid, clock, r) /\ Process(mid, clock, "tick", r, signals)
  BY <1>1, <1>2, TickHandled
<1>4. SameNotifier(rt, r) /\ r.tick = FALSE /\ r.pollBusy = rt.pollBusy
  BY <1>2, Fields DEF SameNotifier, RuntimeType
<1>5. rt.tick = TRUE
  BY Fields DEF HandleTick, RuntimeType
<1>6. Sound(state) /\ Sound(mid) /\ clock \in Nat
  BY <1>3, Times DEF IInv, Handled
<1>7. \A k \in Keys : Rests(state.occurrences[k], mid.occurrences[k], clock)
  BY <1>1, <1>6, TickRests
<1>8. Ahead(rt.notifySlot, state, clock)
      /\ Ahead(rt.notifyResult.command, state, clock)
  BY <1>5 DEF SInv, ScreenOK, Known, Ahead
<1>9. CommandOK(rt.notifySlot) /\ CommandOK(rt.notifyResult.command)
  BY Fields, Commands
<1>10. Quiescent(r, mid, clock)
  BY <1>4, <1>7, <1>8, <1>9, AheadKnown DEF Quiescent, SameNotifier
<1>11. ScreenOK(mid, r, server, clock)
  <2>1. OnScreen(mid, server)
    BY <1>7, OnScreenRests DEF SInv, ScreenOK
  <2>2. Brought(r.notifyResult, server)
    BY <1>4 DEF SInv, ScreenOK, SameNotifier
  <2> QED  BY <1>10, <2>1, <2>2 DEF ScreenOK, Quiescent, Ahead, Known
<1> QED  BY <1>3, <1>10, <1>11, ProcessScreen

(* A check of the session, stamped now. *)
LEMMA ActivityScreen ==
  ASSUME IInv, WInv, SInv, Prompt, HandleActivity
  PROVE  SInv'
<1>1. PICK e : e = rt.activityResult
  OBVIOUS
<1>2. PICK mid : mid = ActivityResultEvent(state, e.announce, e.at)
  OBVIOUS
<1>3. PICK r : r = [rt EXCEPT !.activityBusy = FALSE,
                              !.activityResult = Boot.activityResult]
  OBVIOUS
<1>4. Handled(mid, e.at, r) /\ Process(mid, e.at, "activity", r, signals)
  BY <1>1, <1>2, <1>3, ActivityHandled
<1>5. SameNotifier(rt, r) /\ Calmer(rt, r)
  BY <1>3, Fields DEF SameNotifier, Calmer, RuntimeType
<1>6. e.at = clock
  BY <1>1, Stamped DEF WInv, Stamps, HandleActivity
<1>7. Sound(state) /\ Sound(mid) /\ RuntimeOK(rt)
  BY <1>4 DEF IInv, Handled
<1>8. e.announce \in BOOLEAN
  <2>1. rt.activityResult \in [at: Nat, announce: BOOLEAN]
    BY Fields DEF RuntimeType
  <2> QED  BY <1>1, <2>1
<1>9. \A k \in Keys : Rests(state.occurrences[k], mid.occurrences[k], clock)
  BY <1>2, <1>7, <1>8, ActivityRests
<1>10. ScreenOK(mid, r, server, clock)
  BY <1>5, <1>7, <1>9, RestsScreen DEF SInv
<1> QED  BY <1>4, <1>6, <1>10, ProcessScreen

(* The result of a launch. *)
LEMMA LaunchScreen ==
  ASSUME IInv, WInv, SInv, Prompt, HandleLaunch
  PROVE  SInv'
<1>1. PICK e : e = rt.launchResult
  OBVIOUS
<1>2. PICK key, revision : key = e.launch.key /\ revision = e.launch.revision
  OBVIOUS
<1>3. PICK mid : mid = LaunchResultEvent(state, key, revision, e.ok)
  OBVIOUS
<1>4. PICK r : r = [rt EXCEPT !.launcherBusy = FALSE,
                              !.launchResult = NoLaunchResult]
  OBVIOUS
<1>5. /\ Handled(mid, e.at, r) /\ Process(mid, e.at, "launch", r, signals)
      /\ key \in Keys
  BY <1>1, <1>2, <1>3, <1>4, LaunchHandled
<1>6. SameNotifier(rt, r) /\ Calmer(rt, r)
  BY <1>4, Fields DEF SameNotifier, Calmer, RuntimeType
<1>7. e.at = clock
  BY <1>1, Stamped DEF WInv, Stamps, HandleLaunch
<1>8. Sound(state) /\ Sound(mid) /\ RuntimeOK(rt)
  BY <1>5 DEF IInv, Handled
<1>9. \A k \in Keys : Rests(state.occurrences[k], mid.occurrences[k], clock)
  BY <1>3, <1>5, <1>8, LaunchRests
<1>10. ScreenOK(mid, r, server, clock)
  BY <1>6, <1>8, <1>9, RestsScreen DEF SInv
<1> QED  BY <1>5, <1>7, <1>10, ProcessScreen

(* A signal. *)
LEMMA SignalScreen ==
  ASSUME IInv, SInv, HandleSignal
  PROVE  SInv'
<1>1. PICK e : e = Head(signals)
  OBVIOUS
<1>2. PICK mid :
        /\ Handled(mid, clock, rt)
        /\ Process(mid, clock, "notification", rt, Tail(signals))
        /\ mid = IF e.name = "join" THEN JoinSignal(state, e.id, clock, Hosts)
                                    ELSE ClosedSignal(state, e.id)
  BY <1>1, SignalHandled
<1>3. Sound(state) /\ Sound(mid) /\ RuntimeOK(rt)
  BY <1>2 DEF IInv, Handled
<1>4. \A k \in Keys : Rests(state.occurrences[k], mid.occurrences[k], clock)
  BY <1>2, <1>3, JoinRests, ClosedRests
<1>5. SameNotifier(rt, rt) /\ Calmer(rt, rt)
  BY DEF SameNotifier, Calmer
<1>6. ScreenOK(mid, rt, server, clock)
  BY <1>3, <1>4, <1>5, RestsScreen DEF SInv
<1> QED  BY <1>2, <1>6, ProcessScreen

(* What is recorded of an account leaves the entries alone. *)
LEMMA AccountSame ==
  ASSUME NEW s, Sound(s), NEW a, NEW kind, NEW gen, NEW revision, NEW at
  PROVE  /\ ApplyPollFailure(s, a, kind, gen, at).occurrences = s.occurrences
         /\ ApplyWarningDelivery(s, a, revision, at).occurrences = s.occurrences
         /\ ApplyWarningFailure(s, a, revision, at).occurrences = s.occurrences
<1>1. s \in StateType
  BY DEF Sound
<1>2. ApplyPollFailure(s, a, kind, gen, at).occurrences = s.occurrences
  BY <1>1 DEF ApplyPollFailure, StateType
<1>3. ApplyWarningDelivery(s, a, revision, at).occurrences = s.occurrences
  BY <1>1 DEF ApplyWarningDelivery, StateType
<1>4. ApplyWarningFailure(s, a, revision, at).occurrences = s.occurrences
  BY <1>1 DEF ApplyWarningFailure, StateType
<1> QED  BY <1>2, <1>3, <1>4

(* A poll.  It is under way, so the client's commands are of entries that   *)
(* wait: it takes one of them to a later revision or leaves it alone.       *)
LEMMA PolledKnown ==
  ASSUME NEW s, Sound(s), NEW mid, Sound(mid), NEW a \in Accounts, NEW now,
         \A k \in Keys : IF AccountOf[k] = a
                           THEN Polled(s.occurrences[k], mid.occurrences[k], now)
                           ELSE mid.occurrences[k] = s.occurrences[k],
         NEW r, r.tick = FALSE, a \in r.pollBusy,
         NEW q, q.tick = FALSE, q.pollBusy = r.pollBusy \ {a},
         NEW c \in CommandType, CommandOK(c), Known(c, s, r, now)
  PROVE  Known(c, mid, q, now)
<1> SUFFICES ASSUME c.kind = "notify"
             PROVE  \/ Fresh(c, mid.occurrences[c.key], now)
                    \/ /\ Past(c, mid.occurrences[c.key])
                       /\ q.tick = FALSE /\ AccountOf[c.key] \notin q.pollBusy
  BY DEF Known
<1>1. c.key \in Keys
  BY DEF CommandOK
<1>2. PICK o, n : o = s.occurrences[c.key] /\ n = mid.occurrences[c.key]
  OBVIOUS
<1>3. \/ Fresh(c, o, now)
      \/ Past(c, o) /\ AccountOf[c.key] \notin r.pollBusy
  BY <1>2 DEF Known
<1>4. CASE AccountOf[c.key] # a
  <2>1. n = o
    BY <1>1, <1>2, <1>4
  <2> QED  BY <1>2, <1>3, <2>1
<1>5. CASE AccountOf[c.key] = a
  <2>1. Fresh(c, o, now) /\ Polled(o, n, now)
    BY <1>1, <1>2, <1>3, <1>5
  <2>2. n = o \/ Past(c, n)
    BY <2>1 DEF Polled, Fresh, Past
  <2> QED  BY <1>2, <1>5, <2>1, <2>2
<1> QED  BY <1>4, <1>5

(* The tick has been handled when the result of a poll comes. *)
LEMMA PollStep ==
  ASSUME IInv, WInv, SInv, Prompt, NEW a \in Accounts, HandlePoll(a)
  PROVE  \E mid, kind, r :
           /\ Handled(mid, clock, r) /\ Process(mid, clock, kind, r, signals)
           /\ kind # "tick" /\ SameNotifier(rt, r)
           /\ a \in rt.pollBusy /\ r.pollBusy = rt.pollBusy \ {a}
           /\ rt.tick = FALSE /\ r.tick = FALSE
           /\ \/ \A k \in Keys : IF AccountOf[k] = a
                   THEN Polled(state.occurrences[k], mid.occurrences[k], clock)
                   ELSE mid.occurrences[k] = state.occurrences[k]
              \/ mid.occurrences = state.occurrences
<1>1. PICK e : e = rt.pollResult[a]
  OBVIOUS
<1>2. PICK mid, kind, x, stale, r :
        /\ Handled(mid, e.at, r) /\ Process(mid, e.at, kind, r, signals)
        /\ r = PollFree(a, x, stale) /\ kind # "tick"
        /\ \/ /\ mid = Reconcile(state, a, e.items, e.at)
              /\ \A k \in KeysOf(a) : GoodItem(e.items[k])
           \/ \E gen : mid = ApplyPollFailure(state, a, e.kind, gen, e.at)
  BY <1>1, PollHandled
<1>3. e.at = clock /\ e.at # 0
  BY <1>1, Stamped DEF WInv, Stamps, HandlePoll
<1>4. a \in rt.pollBusy /\ rt.tick = FALSE
  <2>1. a \in rt.pollBusy
    BY <1>1, <1>3, Fields DEF RuntimeOK, PollsOK
  <2>2. rt.tick \in BOOLEAN
    BY Fields DEF RuntimeType
  <2> QED  BY <2>1, <2>2 DEF SInv, ScreenOK
<1>5. /\ SameNotifier(rt, r) /\ r.tick = FALSE
      /\ r.pollBusy = rt.pollBusy \ {a}
  <2>1. PICK p, q : /\ p = [rt.pollResult EXCEPT ![a] = NoPoll]
                    /\ q = [rt.retries EXCEPT ![a] = x]
    OBVIOUS
  <2>2. r = [rt EXCEPT !.pollBusy = rt.pollBusy \ {a}, !.pollResult = p,
                       !.retries = q, !.activityStale = stale]
    BY <1>2, <2>1, Fields DEF PollFree, RuntimeType
  <2> QED  BY <1>4, <2>2, Fields DEF SameNotifier, RuntimeType
<1>6. Sound(state)
  BY DEF IInv
<1>7. \/ \A k \in Keys : IF AccountOf[k] = a
           THEN Polled(state.occurrences[k], mid.occurrences[k], clock)
           ELSE mid.occurrences[k] = state.occurrences[k]
      \/ mid.occurrences = state.occurrences
  <2>1. CASE mid = Reconcile(state, a, e.items, e.at)
             /\ \A k \in KeysOf(a) : GoodItem(e.items[k])
    <3>1. clock \in Nat
      BY Times DEF IInv
    <3> QED  BY <1>3, <1>6, <2>1, <3>1, ReconcileAt
  <2>2. CASE \E gen : mid = ApplyPollFailure(state, a, e.kind, gen, e.at)
    <3>1. PICK gen : mid = ApplyPollFailure(state, a, e.kind, gen, e.at)
      BY <2>2
    <3> QED  BY <1>6, <3>1, AccountSame
  <2> QED  BY <1>2, <2>1, <2>2
<1> QED  BY <1>2, <1>3, <1>4, <1>5, <1>7

LEMMA PollScreen ==
  ASSUME IInv, WInv, SInv, Prompt, NEW a \in Accounts, HandlePoll(a)
  PROVE  SInv'
<1>1. PICK mid, kind, r :
        /\ Handled(mid, clock, r) /\ Process(mid, clock, kind, r, signals)
        /\ kind # "tick" /\ SameNotifier(rt, r)
        /\ a \in rt.pollBusy /\ r.pollBusy = rt.pollBusy \ {a}
        /\ rt.tick = FALSE /\ r.tick = FALSE
        /\ \/ \A k \in Keys : IF AccountOf[k] = a
                THEN Polled(state.occurrences[k], mid.occurrences[k], clock)
                ELSE mid.occurrences[k] = state.occurrences[k]
           \/ mid.occurrences = state.occurrences
  BY PollStep
<1>2. Sound(state) /\ Sound(mid) /\ RuntimeOK(rt)
  BY <1>1 DEF IInv, Handled
<1>3. ScreenOK(mid, r, server, clock)
  <2>1. CASE \A k \in Keys : IF AccountOf[k] = a
               THEN Polled(state.occurrences[k], mid.occurrences[k], clock)
               ELSE mid.occurrences[k] = state.occurrences[k]
    <3>1. OnScreen(mid, server)
      BY <2>1 DEF SInv, ScreenOK, OnScreen, Polled, Visible
    <3>2. Brought(r.notifyResult, server)
      BY <1>1 DEF SInv, ScreenOK, SameNotifier
    <3>3. /\ rt.notifySlot \in CommandType /\ CommandOK(rt.notifySlot)
          /\ rt.notifyResult.command \in CommandType
          /\ CommandOK(rt.notifyResult.command)
      BY <1>2, Commands
    <3>4. /\ Known(rt.notifySlot, state, rt, clock)
          /\ Known(rt.notifyResult.command, state, rt, clock)
      BY DEF SInv, ScreenOK
    <3>5. ASSUME NEW c \in CommandType, CommandOK(c),
                 Known(c, state, rt, clock)
          PROVE  Known(c, mid, r, clock)
      BY <1>1, <1>2, <2>1, <3>5, PolledKnown
    <3>6. /\ Known(rt.notifySlot, mid, r, clock)
          /\ Known(rt.notifyResult.command, mid, r, clock)
      BY <3>3, <3>4, <3>5
    <3> QED  BY <1>1, <3>1, <3>2, <3>6 DEF ScreenOK, SameNotifier
  <2>2. CASE mid.occurrences = state.occurrences
    <3>1. \A k \in Keys : Rests(state.occurrences[k], mid.occurrences[k], clock)
      BY <1>2, <2>2, SameRests DEF Sound
    <3>2. Calmer(rt, r)
      BY <1>1 DEF Calmer
    <3> QED  BY <1>1, <1>2, <3>1, <3>2, RestsScreen DEF SInv
  <2> QED  BY <1>1, <2>1, <2>2
<1> QED  BY <1>1, <1>3, ProcessScreen

(* A notification was shown: it is of the entry as it is, or of one that    *)
(* has moved on.                                                            *)
LEMMA FreeCalm ==
  ASSUME IInv
  PROVE  Calmer(rt, NotifierFree)
<1>1. PICK r : r = NotifierFree
  OBVIOUS
<1>2. r = [rt EXCEPT !.notifierBusy = FALSE, !.notifyResult = NoResult]
  BY <1>1 DEF NotifierFree
<1> QED  BY <1>1, <1>2, Fields DEF Calmer, RuntimeType

LEMMA FreedScreen ==
  ASSUME IInv, SInv, rt.notifyResult.event # "none",
         NEW mid, OnScreen(mid, server)
  PROVE  ScreenOK(mid, NotifierFree, server, clock)
<1>1. PICK r : r = NotifierFree
  OBVIOUS
<1>2. r.notifySlot = NoCommand /\ r.notifyResult = NoResult /\ Calmer(rt, r)
  BY <1>1, NotifierFreed, FreeCalm
<1>3. ScreenOK(mid, r, server, clock)
  BY <1>2, FreeScreen DEF SInv
<1> QED  BY <1>1, <1>3

LEMMA DeliveredScreen ==
  ASSUME IInv, SInv, HandleDelivered
  PROVE  SInv'
<1>1. PICK e, c : e = rt.notifyResult /\ c = e.command
  OBVIOUS
<1>2. PICK mid :
        /\ Handled(mid, clock, NotifierFree)
        /\ ProcessDelivery(mid, clock, e.id, NotifierFree)
        /\ \/ /\ c.kind = "warning" /\ c.account \in Accounts
              /\ mid = ApplyWarningDelivery(state, c.account, c.revision, clock)
           \/ /\ c.kind = "notify" /\ c.key \in Keys
              /\ mid = ApplyDelivery(state, c.key, c.revision, e.id, clock)
  BY <1>1, DeliveredHandled
<1>3. e.event = "delivered" /\ Sound(state)
  BY <1>1 DEF HandleDelivered, IInv
<1>4. OnScreen(state, server)
  BY DEF SInv, ScreenOK
<1>5. OnScreen(mid, server)
  <2>1. CASE c.kind = "warning"
    <3>1. mid = ApplyWarningDelivery(state, c.account, c.revision, clock)
      BY <1>2, <2>1
    <3>2. mid.occurrences = state.occurrences
      BY <1>3, <3>1, AccountSame
    <3> QED  BY <1>4, <3>2 DEF OnScreen
  <2>2. CASE c.kind = "notify" /\ c.key \in Keys
             /\ mid = ApplyDelivery(state, c.key, c.revision, e.id, clock)
    <3>1. ASSUME NEW k \in Keys, Visible(mid.occurrences[k])
          PROVE  server.meeting[mid.occurrences[k].id]
                   = mid.occurrences[k].meeting
      <4>1. PICK o, n : o = state.occurrences[k] /\ n = mid.occurrences[k]
        OBVIOUS
      <4>2. \/ n = o
            \/ /\ k = c.key /\ o.phase = "notify-pending"
               /\ o.notifyRevision = c.revision
               /\ n.phase = "notified" /\ n.id = e.id /\ n.meeting = o.meeting
        BY <1>3, <2>2, <4>1, DeliveryAt
      <4>3. CASE n = o
        BY <1>4, <3>1, <4>1, <4>3 DEF OnScreen
      <4>4. CASE /\ k = c.key /\ o.phase = "notify-pending"
                 /\ o.notifyRevision = c.revision
                 /\ n.id = e.id /\ n.meeting = o.meeting
        <5>1. Known(c, state, rt, clock)
          BY <1>1 DEF SInv, ScreenOK
        <5>2. o.notifyRevision \in Nat
          BY <1>3, <4>1, EntryFields
        <5>3. ~Past(c, o)
          BY <4>4, <5>2 DEF Past
        <5>4. o.meeting = c.meeting
          BY <2>2, <4>1, <4>4, <5>1, <5>3 DEF Known, Fresh
        <5>5. server.meeting[e.id] = c.meeting
          BY <1>1, <1>3, <2>2 DEF SInv, ScreenOK, Brought
        <5> QED  BY <4>1, <4>4, <5>4, <5>5
      <4> QED  BY <4>2, <4>3, <4>4
    <3> QED  BY <3>1 DEF OnScreen
  <2> QED  BY <1>2, <2>1, <2>2
<1>6. ScreenOK(mid, NotifierFree, server, clock)
  <2>1. rt.notifyResult.event # "none"
    BY <1>1, <1>3
  <2> QED  BY <1>5, <2>1, FreedScreen
<1> QED  BY <1>2, <1>6, ProcessDeliveryScreen

(* A call that failed or a close that was done brings nothing on screen. *)
LEMMA FailedScreen ==
  ASSUME IInv, SInv, HandleFailed
  PROVE  SInv'
<1>1. PICK c : c = rt.notifyResult.command
  OBVIOUS
<1>2. PICK id : id = IF c.kind = "close" THEN c.id ELSE 0
  OBVIOUS
<1>3. PICK mid :
        /\ Handled(mid, clock, NotifierFree)
        /\ Process(mid, clock, "notification", NotifierFree, signals)
        /\ \/ /\ c.kind = "warning" /\ c.account \in Accounts
              /\ mid = ApplyWarningFailure(state, c.account, c.revision, clock)
           \/ /\ c.kind \in {"notify", "close"} /\ c.key \in Keys
              /\ mid = ApplyNotificationFailure(state, c.key, c.revision, id,
                                                clock)
  BY <1>1, <1>2, FailedHandled
<1>4. Sound(state) /\ OnScreen(state, server)
  BY DEF IInv, SInv, ScreenOK
<1>5. OnScreen(mid, server)
  <2>1. CASE mid = ApplyWarningFailure(state, c.account, c.revision, clock)
    <3>1. mid.occurrences = state.occurrences
      BY <1>4, <2>1, AccountSame
    <3> QED  BY <1>4, <3>1 DEF OnScreen
  <2>2. CASE c.key \in Keys /\ mid = ApplyNotificationFailure(state, c.key,
                                       c.revision, id, clock)
    <3>1. ASSUME NEW k \in Keys
          PROVE  \/ mid.occurrences[k] = state.occurrences[k]
                 \/ ~Visible(mid.occurrences[k])
      BY <1>4, <2>2, FailureAt DEF Visible
    <3> QED  BY <1>4, <3>1 DEF OnScreen
  <2> QED  BY <1>3, <2>1, <2>2
<1>6. ScreenOK(mid, NotifierFree, server, clock)
  BY <1>5, FreedScreen DEF HandleFailed
<1> QED  BY <1>3, <1>6, ProcessScreen

LEMMA CompletedScreen ==
  ASSUME IInv, SInv, HandleCompleted
  PROVE  SInv'
<1>1. PICK c : c = rt.notifyResult.command
  OBVIOUS
<1>2. PICK mid :
        /\ Handled(mid, clock, NotifierFree)
        /\ Process(mid, clock, "notification", NotifierFree, signals)
        /\ mid = CompleteClose(state, c.key, c.id) /\ c.key \in Keys
  BY <1>1, CompletedHandled
<1>3. Sound(state) /\ OnScreen(state, server)
  BY DEF IInv, SInv, ScreenOK
<1>4. ASSUME NEW k \in Keys
      PROVE  \/ mid.occurrences[k] = state.occurrences[k]
             \/ ~Visible(mid.occurrences[k])
  <2>1. PICK o, n : o = state.occurrences[k] /\ n = mid.occurrences[k]
    OBVIOUS
  <2>2. n = o \/ n = Closed(o)
    BY <1>2, <1>3, <2>1, CompleteAt
  <2>3. Legit(o)
    BY <1>3, <2>1 DEF Sound
  <2> QED  BY <2>1, <2>2, <2>3, ClosedFields DEF Visible
<1>5. OnScreen(mid, server)
  BY <1>3, <1>4 DEF OnScreen
<1>6. ScreenOK(mid, NotifierFree, server, clock)
  BY <1>5, FreedScreen DEF HandleCompleted
<1> QED  BY <1>2, <1>6, ProcessScreen

-----------------------------------------------------------------------------
(* The workers, the user, the clock and the service manager *)

(* A step that leaves the entries, the tick and the polls under way alone.  *)
LEMMA WorkScreen ==
  ASSUME SInv, state' = state, clock' = clock,
         rt'.tick = rt.tick, rt'.pollBusy = rt.pollBusy,
         \/ SameNotifier(rt, rt')
         \/ rt'.notifySlot = NoCommand
            /\ rt'.notifyResult.command = rt.notifySlot,
         Brought(rt'.notifyResult, server'), OnScreen(state, server'),
         server'.next =< MaxID + 1
  PROVE  SInv'
<1>1. Known(rt.notifySlot, state, rt, clock)
      /\ Known(rt.notifyResult.command, state, rt, clock)
  BY DEF SInv, ScreenOK
<1>2. Known(rt.notifySlot, state, rt', clock)
      /\ Known(rt.notifyResult.command, state, rt', clock)
  BY <1>1 DEF Known
<1>3. Known(rt'.notifySlot, state, rt', clock)
      /\ Known(rt'.notifyResult.command, state, rt', clock)
  BY <1>2, KnownNone DEF SameNotifier
<1>4. rt'.tick = TRUE => rt'.pollBusy = {}
  BY DEF SInv, ScreenOK
<1>5. ScreenOK(state, rt', server', clock)
  BY <1>3, <1>4 DEF ScreenOK
<1> QED  BY <1>5 DEF SInv

(* One that leaves the client and what the notifications show alone too.    *)
LEMMA QuietWorkScreen ==
  ASSUME SInv, state' = state, clock' = clock,
         rt'.tick = rt.tick, rt'.pollBusy = rt.pollBusy, SameNotifier(rt, rt'),
         server'.meeting = server.meeting, server'.next = server.next
  PROVE  SInv'
<1>1. Brought(rt'.notifyResult, server')
  BY DEF SInv, ScreenOK, Brought, SameNotifier
<1>2. OnScreen(state, server')
  BY DEF SInv, ScreenOK, OnScreen
<1>3. server'.next =< MaxID + 1
  BY DEF SInv
<1> QED  BY <1>1, <1>2, <1>3, WorkScreen

LEMMA WorkersSame ==
  ASSUME IInv,
         CheckActivity \/ OpenMeeting \/ \E a \in Accounts : FetchCalendar(a)
  PROVE  rt'.tick = rt.tick /\ rt'.pollBusy = rt.pollBusy /\ SameNotifier(rt, rt')
<1>1. CASE CheckActivity
  <2>1. PICK x : rt' = [rt EXCEPT !.activitySlot = FALSE,
                                  !.activityResult = x]
    BY <1>1 DEF CheckActivity
  <2> QED  BY <2>1, Fields DEF SameNotifier, RuntimeType
<1>2. CASE OpenMeeting
  <2>1. PICK x : rt' = [rt EXCEPT !.launchSlot = NoLaunch, !.launchResult = x]
    BY <1>2 DEF OpenMeeting
  <2> QED  BY <2>1, Fields DEF SameNotifier, RuntimeType
<1>3. CASE \E a \in Accounts : FetchCalendar(a)
  <2>1. PICK a, e : rt' = [rt EXCEPT !.pollSlot = @ \ {a},
                                     !.pollResult[a] = e]
    BY <1>3 DEF FetchCalendar
  <2>2. PICK p, q : /\ p = [rt.pollResult EXCEPT ![a] = e]
                    /\ q = rt.pollSlot \ {a}
    OBVIOUS
  <2>3. rt' = [rt EXCEPT !.pollSlot = q, !.pollResult = p]
    BY <2>1, <2>2, Fields DEF RuntimeType
  <2> QED  BY <2>3, Fields DEF SameNotifier, RuntimeType
<1> QED  BY <1>1, <1>2, <1>3

LEMMA WorkersScreen ==
  ASSUME IInv, SInv,
         CheckActivity \/ OpenMeeting \/ \E a \in Accounts : FetchCalendar(a)
  PROVE  SInv'
<1>1. state' = state /\ clock' = clock /\ server' = server
  BY DEF CheckActivity, OpenMeeting, FetchCalendar
<1> QED  BY <1>1, WorkersSame, QuietWorkScreen

(* The client's report. *)
LEMMA ReportScreen ==
  ASSUME IInv, NEW event, NEW id, Reported(event, id)
  PROVE  /\ rt'.tick = rt.tick /\ rt'.pollBusy = rt.pollBusy
         /\ rt'.notifySlot = NoCommand
         /\ rt'.notifyResult
              = [event |-> event, command |-> rt.notifySlot, id |-> id]
<1>1. PICK e : e = [event |-> event, command |-> rt.notifySlot, id |-> id]
  OBVIOUS
<1>2. rt' = [rt EXCEPT !.notifySlot = NoCommand, !.notifyResult = e]
  BY <1>1 DEF Reported
<1> QED  BY <1>1, <1>2, Fields DEF RuntimeType

(* A notification is shown: its id is that of no entry a user can act on.   *)
LEMMA NotifyScreen ==
  ASSUME IInv, SInv, CallNotify
  PROVE  SInv'
<1>1. PICK c : c = rt.notifySlot
  OBVIOUS
<1>2. c.kind \in {"notify", "warning"} /\ state' = state /\ clock' = clock
  BY <1>1 DEF CallNotify
<1>3. ASSUME NEW id \in AnswerIDs(c),
             server' = [shown |-> [server.shown EXCEPT ![id] = "yes"],
                        meeting |-> [server.meeting EXCEPT ![id] = c.meeting],
                        key |-> [server.key EXCEPT ![id] = c.key],
                        next |-> IF id = server.next THEN id + 1
                                                     ELSE server.next],
             Reported("delivered", id) \/ Reported("failed", 0)
      PROVE  SInv'
  <2>1. PICK next : next = IF id = server.next THEN id + 1 ELSE server.next
    OBVIOUS
  <2>2. /\ id \in Nat /\ id # 0 /\ id < next /\ next \in Nat
        /\ c.kind = "notify" => OnlyHolder(state, c.key, id)
    BY <1>1, <1>2, <2>1, AnswerClaims
  <2>3. MaxID \in Nat /\ server.next \in Nat /\ server.next =< MaxID + 1
        /\ server.meeting \in [IDs -> Meetings \cup {NoMeeting}]
    BY BoundsAssumption, Fields DEF SInv, ServerType
  <2>4. id = server.next => id \in IDs
    <3>1. SUFFICES ASSUME id = server.next, id \notin IDs PROVE FALSE
      OBVIOUS
    <3>2. id = c.id /\ id # 0
      BY <3>1 DEF AnswerIDs
    <3>3. c.kind = "notify"
      BY <1>1, <1>2, <3>2, Fields DEF RuntimeOK, NotifierOK, CommandOK
    <3>4. c.id < server.next
      BY <1>1, <3>3, Fields DEF Claims, SlotClaim
    <3> QED  BY <2>3, <3>1, <3>2, <3>4
  <2>5. id \in IDs /\ next =< MaxID + 1
    BY <2>1, <2>2, <2>3, <2>4 DEF IDs
  <2>6. /\ server'.meeting = [server.meeting EXCEPT ![id] = c.meeting]
        /\ server'.next = next
    BY <1>3, <2>1
  <2>7. server'.meeting[id] = c.meeting
        /\ \A i \in IDs : i # id => server'.meeting[i] = server.meeting[i]
    BY <2>3, <2>5, <2>6
  <2>8. ASSUME NEW k \in Keys, Visible(state.occurrences[k])
        PROVE  state.occurrences[k].id # id
    <3>1. PICK o : o = state.occurrences[k]
      OBVIOUS
    <3>2. CASE c.kind = "notify"
      <4>1. Known(c, state, rt, clock)
        BY <1>1 DEF SInv, ScreenOK
      <4>2. ~Visible(state.occurrences[c.key])
        BY <3>2, <4>1 DEF Known, Fresh, Past, Visible
      <4>3. k # c.key
        BY <2>8, <4>2
      <4> QED  BY <2>2, <3>2, <4>3 DEF OnlyHolder
    <3>3. CASE c.kind = "warning"
      <4>1. c.id = 0
        BY <1>1, <3>3, Fields DEF RuntimeOK, NotifierOK, CommandOK
      <4>2. id = server.next
        BY <2>2, <4>1 DEF AnswerIDs
      <4>3. o.id < server.next /\ o.id \in Nat
        BY <3>1, EntryFields DEF IInv, Claims, IDsBelow
      <4> QED  BY <2>3, <3>1, <4>2, <4>3
    <3> QED  BY <1>2, <3>2, <3>3
  <2>9. OnScreen(state, server')
    <3>1. ASSUME NEW k \in Keys, Visible(state.occurrences[k])
          PROVE  state.occurrences[k].id \in IDs
      <4>1. PICK o : o = state.occurrences[k]
        OBVIOUS
      <4>2. o.id \in Nat /\ o.id < server.next
        BY <4>1, EntryFields DEF IInv, Claims, IDsBelow
      <4>3. o.id # 0
        <5>1. Legit(o)
          BY <4>1 DEF IInv, Sound
        <5> QED  BY <3>1, <4>1, <5>1, ShownHasID DEF Visible
      <4> QED  BY <2>3, <4>1, <4>2, <4>3 DEF IDs
    <3> QED  BY <2>7, <2>8, <3>1 DEF SInv, ScreenOK, OnScreen
  <2>10. /\ rt'.tick = rt.tick /\ rt'.pollBusy = rt.pollBusy
         /\ rt'.notifySlot = NoCommand
         /\ rt'.notifyResult.command = rt.notifySlot
         /\ Brought(rt'.notifyResult, server')
    <3>1. CASE Reported("delivered", id)
      <4>1. /\ rt'.tick = rt.tick /\ rt'.pollBusy = rt.pollBusy
            /\ rt'.notifySlot = NoCommand
            /\ rt'.notifyResult
                 = [event |-> "delivered", command |-> c, id |-> id]
        BY <1>1, <3>1, ReportScreen
      <4>2. rt'.notifyResult.id = id /\ rt'.notifyResult.command = c
        BY <4>1
      <4> QED  BY <1>1, <2>7, <4>1, <4>2 DEF Brought
    <3>2. CASE Reported("failed", 0)
      <4>1. /\ rt'.tick = rt.tick /\ rt'.pollBusy = rt.pollBusy
            /\ rt'.notifySlot = NoCommand
            /\ rt'.notifyResult = [event |-> "failed", command |-> c, id |-> 0]
        BY <1>1, <3>2, ReportScreen
      <4>2. rt'.notifyResult.event = "failed" /\ rt'.notifyResult.command = c
        BY <4>1
      <4> QED  BY <1>1, <4>1, <4>2 DEF Brought
    <3> QED  BY <1>3, <3>1, <3>2
  <2> QED  BY <1>2, <2>5, <2>6, <2>9, <2>10, WorkScreen
<1>4. ASSUME Reported("failed", 0), server' = server
      PROVE  SInv'
  <2>1. /\ rt'.tick = rt.tick /\ rt'.pollBusy = rt.pollBusy
        /\ rt'.notifySlot = NoCommand
        /\ rt'.notifyResult = [event |-> "failed", command |-> c, id |-> 0]
    BY <1>1, <1>4, ReportScreen
  <2>2. rt'.notifyResult.event = "failed" /\ rt'.notifyResult.command = c
    BY <2>1
  <2>3. Brought(rt'.notifyResult, server')
    BY <2>2 DEF Brought
  <2>4. OnScreen(state, server') /\ server'.next =< MaxID + 1
    BY <1>4 DEF SInv, ScreenOK
  <2> QED  BY <1>1, <1>2, <2>1, <2>2, <2>3, <2>4, WorkScreen
<1> QED  BY <1>1, <1>3, <1>4 DEF CallNotify

(* A notification leaves the screen. *)
LEMMA SameServer ==
  ASSUME IInv, NEW id
  PROVE  /\ Withdraw(id).meeting = server.meeting
         /\ Withdraw(id).next = server.next
         /\ Archive(id).meeting = server.meeting
         /\ Archive(id).next = server.next
<1>1. server \in ServerType
  BY Fields
<1> QED  BY <1>1 DEF Withdraw, Archive, ServerType

LEMMA CloseScreen ==
  ASSUME IInv, SInv, CallClose
  PROVE  SInv'
<1>1. PICK c : c = rt.notifySlot
  OBVIOUS
<1>2. state' = state /\ clock' = clock
  BY DEF CallClose
<1>3. server'.meeting = server.meeting /\ server'.next = server.next
  BY <1>1, SameServer DEF CallClose
<1>4. PICK event \in {"completed", "failed"} : Reported(event, c.id)
  BY <1>1 DEF CallClose
<1>5. /\ rt'.tick = rt.tick /\ rt'.pollBusy = rt.pollBusy
      /\ rt'.notifySlot = NoCommand
      /\ rt'.notifyResult = [event |-> event, command |-> c, id |-> c.id]
  BY <1>1, <1>4, ReportScreen
<1>6. rt'.notifyResult.event = event /\ rt'.notifyResult.command = c
  BY <1>5
<1>7. Brought(rt'.notifyResult, server')
  BY <1>4, <1>6 DEF Brought
<1>8. OnScreen(state, server') /\ server'.next =< MaxID + 1
  BY <1>3 DEF SInv, ScreenOK, OnScreen
<1> QED  BY <1>1, <1>2, <1>5, <1>6, <1>7, <1>8, WorkScreen

LEMMA UserScreen ==
  ASSUME IInv, SInv, NEW id \in IDs, Dismiss(id) \/ Click(id)
  PROVE  SInv'
<1>1. state' = state /\ clock' = clock /\ rt' = rt
      /\ (server' = Archive(id) \/ server' = server)
  BY DEF Dismiss, Click, Emit
<1>2. server'.meeting = server.meeting /\ server'.next = server.next
  BY <1>1, SameServer
<1> QED  BY <1>1, <1>2, QuietWorkScreen DEF SameNotifier

LEMMA CrashScreen ==
  ASSUME SInv, Crash
  PROVE  SInv'
<1>1. state' = state /\ server' = server /\ rt' = Boot
  BY DEF Crash, Stop
<1>2. ScreenOK(state', rt', server', clock')
  BY <1>1, StopScreen DEF SInv, ScreenOK
<1> QED  BY <1>1, <1>2 DEF SInv

(* Time passes when nothing is under way. *)
LEMMA AdvanceScreen ==
  ASSUME IInv, WInv, SInv, Prompt, Advance
  PROVE  SInv'
<1>1. Idle /\ rt' = [rt EXCEPT !.tick = up] /\ state' = state
      /\ server' = server
  BY DEF Advance
<1>2. SameNotifier(rt, rt') /\ rt'.pollBusy = rt.pollBusy
  BY <1>1, Fields DEF SameNotifier, RuntimeType
<1>3. rt.pollBusy = {}
  <2>1. rt.pollBusy \subseteq Accounts
    BY Fields DEF RuntimeType
  <2> QED  BY <1>1, <2>1 DEF Idle, WInv, Covered
<1>4. rt'.notifySlot = NoCommand /\ rt'.notifyResult = NoResult
  BY <1>1, <1>2 DEF Idle, SameNotifier
<1>5. ScreenOK(state', rt', server', clock')
  BY <1>1, <1>2, <1>3, <1>4, KnownNone DEF SInv, ScreenOK
<1> QED  BY <1>1, <1>5 DEF SInv

(* The service starts. *)
LEMMA RestartScreen ==
  ASSUME IInv, SInv, Restart
  PROVE  SInv'
<1>1. PICK t : t = NormalizeLegacy(state)
  OBVIOUS
<1>2. PICK s : s = Settle(t, clock)
  OBVIOUS
<1>3. PICK r : r = SchedulePolls(Boot, clock)
  OBVIOUS
<1>4. /\ state' = s /\ rt' = ScheduleDurable(r, s, clock, {})
      /\ clock' = clock /\ server' = server
  BY <1>1, <1>2, <1>3 DEF Restart
<1>5. Sound(state) /\ Sound(t) /\ Sound(s) /\ clock \in Nat
  <2>1. Sound(state) /\ Fits(state) /\ clock \in Nat
    BY Times DEF IInv, TypeOK, WidthsOK, Fits
  <2>2. Sound(t)
    BY <1>1, <2>1, NormalizeSound
  <2> QED  BY <1>2, <2>1, <2>2, SettleSound
<1>6. OnScreen(t, server)
  BY <1>1, <1>5, NormalizeRests DEF SInv, ScreenOK, OnScreen, Visible
<1>7. OnScreen(s, server)
  <2>1. \A k \in Keys : Rests(t.occurrences[k], s.occurrences[k], clock)
    BY <1>2, <1>5, SettleRests
  <2> QED  BY <1>6, <2>1, OnScreenRests
<1>8. /\ Boot.notifySlot = NoCommand /\ Boot.notifyResult = NoResult
      /\ Boot.tick = FALSE
  BY DEF Boot
<1>9. RuntimeOK(r) /\ r.notifySlot = NoCommand /\ r.notifyResult = NoResult
      /\ r.tick = FALSE
  <2>1. RuntimeOK(r) /\ SameNotifier(Boot, r)
    BY <1>3, BootOK, SchedulePollsOK
  <2>2. Boot \in RuntimeType
    BY BootOK DEF RuntimeOK
  <2>3. r.tick = Boot.tick
    BY <1>3, <2>2 DEF SchedulePolls, RuntimeType
  <2> QED  BY <1>8, <2>1, <2>3 DEF SameNotifier
<1>10. PICK n : n = ScheduleDurable(r, s, clock, {})
  OBVIOUS
<1>11. Follows(r, n, s, clock)
  BY <1>5, <1>9, <1>10, ScheduleDurableFollows
<1>12. n.notifyResult = NoResult /\ n.tick = FALSE
       /\ Known(n.notifySlot, s, n, clock)
  BY <1>5, <1>9, <1>11, KnownNone, GivenKnown DEF Follows, SameNotifier
<1>13. ScreenOK(s, n, server, clock)
  BY <1>7, <1>12, KnownNone DEF ScreenOK
<1> QED  BY <1>4, <1>10, <1>13 DEF SInv

-----------------------------------------------------------------------------
(* The theorem *)

LEMMA InitScreen == Init => SInv
<1> SUFFICES ASSUME Init PROVE SInv
  OBVIOUS
<1>1. rt = Boot /\ state = NewState /\ server.next = 1 /\ MaxID \in Nat
  BY BoundsAssumption DEF Init
<1>2. \A k \in Keys : ~Visible(state.occurrences[k])
  BY <1>1 DEF NewState, NoEntry, Visible
<1>3. /\ Boot.notifySlot = NoCommand /\ Boot.notifyResult = NoResult
      /\ Boot.tick = FALSE
  BY DEF Boot
<1>4. ScreenOK(state, rt, server, clock)
  BY <1>1, <1>2, <1>3, KnownNone DEF ScreenOK, OnScreen
<1> QED  BY <1>1, <1>4 DEF SInv

LEMMA NextScreen ==
  ASSUME IInv, WInv, SInv, Prompt, EndsAfterStart, [Next]_vars
  PROVE  SInv'
<1>1. CASE Handle
  <2>1. \/ HandleTick \/ HandleActivity \/ HandleLaunch
        \/ \E a \in Accounts : HandlePoll(a)
        \/ HandleDelivered \/ HandleFailed \/ HandleCompleted \/ HandleSignal
    BY <1>1 DEF Handle
  <2> QED  BY <2>1, TickScreen, ActivityScreen, LaunchScreen, PollScreen,
              DeliveredScreen, FailedScreen, CompletedScreen, SignalScreen
<1>2. CASE Work
  <2>1. \/ CheckActivity \/ OpenMeeting
        \/ \E a \in Accounts : FetchCalendar(a)
        \/ CallNotify \/ CallClose
    BY <1>2 DEF Work
  <2> QED  BY <2>1, WorkersScreen, NotifyScreen, CloseScreen
<1>3. CASE Crash
  BY <1>3, CrashScreen
<1>4. CASE Restart
  BY <1>4, RestartScreen
<1>5. CASE Advance
  BY <1>5, AdvanceScreen
<1>6. CASE \E id \in IDs : Dismiss(id) \/ Click(id)
  BY <1>6, UserScreen
<1>7. CASE Horizon \/ UNCHANGED vars
  <2>1. state' = state /\ clock' = clock /\ rt' = rt /\ server' = server
    BY <1>7 DEF Horizon, vars
  <2> QED  BY <2>1, QuietWorkScreen DEF SameNotifier
<1> QED  BY <1>1, <1>2, <1>3, <1>4, <1>5, <1>6, <1>7 DEF Next

(* What the invariant is under: calls that keep up with the clock, and      *)
(* meetings that end after they start, which no code compares.              *)
Regular == Prompt /\ EndsAfterStart

LEMMA ScreenHolds == Spec => [](IInv /\ WInv /\ (Regular => SInv))
<1>1. Init => IInv /\ WInv /\ (Regular => SInv)
  BY InitInv, InitWakes, InitScreen
<1>2. /\ IInv /\ WInv /\ (Regular => SInv)
      /\ [Next]_vars
      => (IInv /\ WInv /\ (Regular => SInv))'
  <2>1. IInv /\ WInv /\ [Next]_vars => IInv' /\ WInv'
    BY NextInv, NextWakes
  <2>2. IInv /\ WInv /\ (Regular => SInv) /\ [Next]_vars => (Regular => SInv')
    BY NextScreen DEF Regular
  <2>3. (Regular => SInv)' <=> (Regular => SInv')
    BY DEF Regular, EndsAfterStart
  <2> QED  BY <2>1, <2>2, <2>3
<1> QED  BY <1>1, <1>2, PTL DEF Spec

(* While calls keep up with the clock, an entry whose action is open shows   *)
(* its own meeting: no interleaving of polls, replacements, late deliveries, *)
(* crashes and restarts leaves another meeting's notification on screen      *)
(* under the id that Join would open.                                        *)
THEOREM ScreenIsCurrent == Spec => [](Regular => ShownIsCurrent)
<1>1. ASSUME SInv PROVE ShownIsCurrent
  BY <1>1 DEF SInv, ScreenOK, OnScreen, Visible, ShownIsCurrent
<1>2. IInv /\ WInv /\ (Regular => SInv) => (Regular => ShownIsCurrent)
  BY <1>1
<1> QED  BY <1>2, ScreenHolds, PTL

(* On screen. *)
Lit(id, v) == id \in IDs /\ v.shown[id] = "yes"

(* A notification that was acted on is off the screen; one that is to be    *)
(* replaced is replaced now, before the next tick.                          *)
Good(o, tick, v, now) ==
  /\ o.phase \in {"actionable-history", "join-pending"} => ~Lit(o.id, v)
  /\ o.phase = "notify-pending" /\ Lit(o.id, v) =>
       /\ tick = FALSE
       /\ o.notBefore =< now /\ o.meeting.start - now =< LeadTime

(* What is on screen has an owner, or is on its way to one. *)
Held(s, e, v) ==
  \A id \in IDs : Lit(id, v) /\ v.key[id] # 0 =>
    \/ \E k \in Keys : s.occurrences[k].id = id
    \/ e.event = "delivered" /\ e.id = id

(* What a report says of the screen. *)
Answered(e, v) ==
  LET c == e.command IN
  /\ e.event = "delivered" =>
       v.key[e.id] = c.key /\ (e.id # c.id => ~Lit(c.id, v))
  /\ e.event \in {"failed", "completed"} => ~Lit(c.id, v)
  /\ e.event = "failed" => c.kind # "close"

Bound(c, next) ==
  /\ c.kind = "close" => 0 < c.id /\ c.id < next
  /\ c.kind = "warning" => c.key = 0

Orderly(s, r, v, now) ==
  /\ \A k \in Keys : Good(s.occurrences[k], r.tick, v, now)
  /\ Held(s, r.notifyResult, v) /\ Answered(r.notifyResult, v)
  /\ Bound(r.notifySlot, v.next) /\ Bound(r.notifyResult.command, v.next)

(* The signals of notifications that left the screen. *)
Gone(v) ==
  {e \in [name: {"join", "closed"}, id: Nat] : e.id < v.next /\ ~Lit(e.id, v)}

Unused(v) == \A id \in IDs : id >= v.next => v.shown[id] = "no"

Quiet == faults = 0 /\ exit # "exhausted"

Serving ==
  /\ Unused(server) /\ signals \in Seq(Gone(server))
  /\ /\ up = TRUE
     /\ \/ rt.tick = FALSE \/ rt.notifySlot # NoCommand
        \/ rt.notifyResult # NoResult
     => Settle(state, clock) = state
  /\ Orderly(state, rt, server, clock)

OInv ==
  /\ exit = "exhausted" => up = FALSE
  /\ up = FALSE => rt.notifySlot = NoCommand /\ rt.notifyResult = NoResult
  /\ Quiet => Serving

-----------------------------------------------------------------------------
(* Settle, once more *)

LEMMA SettleTwice ==
  ASSUME NEW s, Sound(s), NEW at
  PROVE  Settle(Settle(s, at), at) = Settle(s, at)
<1>1. PICK f : f = [k \in Keys |-> ExpireNotifyPending(s.occurrences[k], at)]
  OBVIOUS
<1>2. PICK t : t = Settle(s, at)
  OBVIOUS
<1>3. s \in StateType /\ t = [s EXCEPT !.occurrences = f]
  BY <1>1, <1>2 DEF Sound, Settle
<1>4. t.occurrences = f
  BY <1>3 DEF StateType
<1>5. ASSUME NEW k \in Keys
      PROVE  ExpireNotifyPending(f[k], at) = f[k]
  <2>1. PICK o : o = s.occurrences[k]
    OBVIOUS
  <2>2. f[k] = ExpireNotifyPending(o, at)
    BY <1>1, <2>1
  <2>3. f[k] = t.occurrences[k]
    BY <1>4
  <2>4. f[k] = o \/ Expired(o, f[k], at)
    BY <1>2, <2>1, <2>3, SettleAt
  <2>5. CASE f[k] = o
    BY <2>2, <2>5
  <2>6. CASE f[k].phase # "notify-pending"
    BY <2>6 DEF ExpireNotifyPending
  <2> QED  BY <2>4, <2>5, <2>6 DEF Expired
<1>6. [k \in Keys |-> ExpireNotifyPending(t.occurrences[k], at)] = f
  BY <1>1, <1>4, <1>5
<1>7. Settle(t, at) = [t EXCEPT !.occurrences = f]
  BY <1>6 DEF Settle
<1>8. [t EXCEPT !.occurrences = f] = t
  BY <1>3 DEF StateType
<1> QED  BY <1>2, <1>7, <1>8

(* What an event leaves of an entry: its notification, unless that is off   *)
(* the screen.                                                              *)
Stays(o, n, v) == Lit(o.id, v) => n.id = o.id

LEMMA SettleOrderly ==
  ASSUME NEW s, Sound(s), NEW now \in Nat, NEW tick, NEW v, NEW k \in Keys,
         NEW o, o = s.occurrences[k],
         NEW n, n = Settle(s, now).occurrences[k], Good(o, tick, v, now)
  PROVE  Stays(o, n, v) /\ Good(n, tick, v, now)
<1>1. n = o \/ Expired(o, n, now)
  BY SettleAt
<1>2. ~Lit(0, v)
  BY BoundsAssumption DEF Lit, IDs
<1> QED  BY <1>1, <1>2 DEF Stays, Good, Expired

LEMMA HeldStays ==
  ASSUME NEW s, NEW t, NEW e, NEW v, Held(s, e, v),
         \A k \in Keys : Stays(s.occurrences[k], t.occurrences[k], v)
  PROVE  Held(t, e, v)
BY DEF Held, Stays

(* Nothing has been reported. *)
LEMMA AnsweredNone ==
  ASSUME NEW v
  PROVE  /\ Answered(NoResult, v) /\ NoResult.event = "none"
         /\ \A next : Bound(NoCommand, next) /\ Bound(NoResult.command, next)
BY DEF Answered, NoResult, NoCommand, Bound

(* The command of an event. *)
LEMMA GivenBound ==
  ASSUME NEW s, NEW c, NEW at, Given(c, s, at), NEW next, IDsBelow(s, next)
  PROVE  Bound(c, next)
<1>1. c.id \in Nat
  BY DEF Given, CommandType
<1>2. c.kind = "close" => c.key \in Keys
  BY DEF Given, CommandOK
<1>3. c.kind = "close" => c.id < next
  BY <1>2 DEF Given, IDsBelow
<1> QED  BY <1>1, <1>3 DEF Given, Bound

-----------------------------------------------------------------------------
(* Loop.process *)

(* What the scheduler adds to a state that is in order. *)
LEMMA FollowsOrderly ==
  ASSUME NEW s, NEW r, NEW q, NEW now, NEW v, Orderly(s, r, v, now),
         IDsBelow(s, v.next), Follows(r, q, s, now)
  PROVE  Orderly(s, q, v, now)
<1>1. \A k \in Keys : Good(s.occurrences[k], q.tick, v, now)
  BY DEF Orderly, Follows
<1>2. q.notifyResult = r.notifyResult
  BY DEF Follows, SameNotifier
<1>3. Bound(q.notifySlot, v.next)
  <2>1. CASE SameNotifier(r, q)
    BY <2>1 DEF SameNotifier, Orderly
  <2>2. CASE Given(q.notifySlot, s, now)
    BY <2>2, GivenBound
  <2> QED  BY <2>1, <2>2 DEF Follows
<1> QED  BY <1>1, <1>2, <1>3 DEF Orderly

(* The state and the runtime that an event leaves. *)
LEMMA CommittedOrderly ==
  ASSUME IInv, NEW mid, NEW at, at = clock, NEW r, Handled(mid, at, r),
         NEW next, next = Settle(mid, at), ~RevisionExhausted(mid),
         NEW kind, NEW rest, Committed(next, at, kind, r, rest),
         rest \in Seq(Gone(server)), Unused(server),
         clock' = clock, server' = server, up = TRUE,
         Orderly(mid, r, server, clock), OInv
  PROVE  OInv'
<1>1. /\ Sound(mid) /\ at \in Nat /\ Sound(next) /\ RuntimeOK(r)
      /\ Claims(next, r, server.next)
  BY SavedOK DEF Handled
<1>2. PICK q : q = AfterCommit(r, next, at, kind)
  OBVIOUS
<1>3. q.full = FALSE
  <2>1. RuntimeOK(q)
    BY <1>1, <1>2, AfterCommitOK
  <2> QED  BY <2>1 DEF RuntimeOK
<1>4. /\ state' = next /\ rt' = q /\ signals' = rest
      /\ up' = up /\ exit' = exit
  BY <1>2, <1>3 DEF Committed
<1>5. Follows(r, q, next, clock)
  BY <1>1, <1>2, AfterCommitFollows
<1>6. ASSUME NEW k \in Keys
      PROVE  /\ Stays(mid.occurrences[k], next.occurrences[k], server)
             /\ Good(next.occurrences[k], r.tick, server, clock)
  <2>1. Good(mid.occurrences[k], r.tick, server, clock)
    BY DEF Orderly
  <2> QED  BY <1>1, <2>1, SettleOrderly
<1>7. Orderly(next, r, server, clock)
  <2>1. Held(next, r.notifyResult, server)
    BY <1>6, HeldStays DEF Orderly
  <2> QED  BY <1>6, <2>1 DEF Orderly
<1>8. Orderly(next, q, server, clock)
  BY <1>1, <1>5, <1>7, FollowsOrderly DEF Claims
<1>9. Settle(next, clock) = next
  BY <1>1, SettleTwice
<1>10. Unused(server') /\ signals' \in Seq(Gone(server'))
  BY <1>4
<1>11. Settle(state', clock') = state' /\ Orderly(state', rt', server', clock')
  BY <1>4, <1>8, <1>9
<1>12. Serving'
  BY <1>10, <1>11 DEF Serving
<1> QED  BY <1>4, <1>12 DEF OInv

(* A stop that is no fault is not quiet. *)
LEMMA FaultLoud ==
  ASSUME IInv, Fault
  PROVE  faults' # 0
<1>1. faults \in 0..MaxFaults /\ MaxFaults \in Nat
  BY BoundsAssumption, Fields
<1> QED  BY <1>1 DEF Fault

LEMMA StopLoud ==
  ASSUME NEW reason, Stop(reason), ~Quiet'
  PROVE  OInv'
<1>1. /\ Boot.notifySlot = NoCommand /\ Boot.notifyResult = NoResult
  BY DEF Boot
<1> QED  BY <1>1 DEF Stop, OInv

LEMMA CommittedLoud ==
  ASSUME OInv, up = TRUE, ~Quiet,
         NEW next, NEW at, NEW kind, NEW r, NEW rest,
         Committed(next, at, kind, r, rest)
  PROVE  OInv'
<1>1. PICK q : q = AfterCommit(r, next, at, kind)
  OBVIOUS
<1>2. CASE q.full
  <2>1. Stop("slot-full") /\ faults' = faults
    BY <1>1, <1>2 DEF Committed
  <2>2. exit # "exhausted"
    BY DEF OInv
  <2>3. ~Quiet'
    BY <2>1, <2>2 DEF Quiet
  <2> QED  BY <2>1, <2>3, StopLoud
<1>3. CASE ~q.full
  <2>1. up' = up /\ exit' = exit /\ faults' = faults
    BY <1>1, <1>3 DEF Committed
  <2>2. ~Quiet'
    BY <2>1 DEF Quiet
  <2> QED  BY <2>1, <2>2 DEF OInv
<1> QED  BY <1>2, <1>3

(* Every event but a delivery. *)
LEMMA ProcessOrderly ==
  ASSUME IInv, IInv', OInv, NEW mid, NEW at, at = clock,
         NEW r, Handled(mid, at, r),
         NEW kind, NEW rest, Process(mid, at, kind, r, rest),
         Quiet => /\ rest \in Seq(Gone(server))
                  /\ Orderly(mid, r, server, clock)
  PROVE  OInv'
<1>1. PICK next : next = Settle(mid, at)
  OBVIOUS
<1>2. up = TRUE /\ clock' = clock /\ server' = server
  BY DEF Process, IInv, TypeOK
<1>3. CASE Accepted(mid, at) /\ Committed(next, at, kind, r, rest)
  <2>1. ~RevisionExhausted(mid)
    BY <1>3 DEF Accepted
  <2>2. Quiet => Unused(server)
    BY DEF OInv, Serving
  <2> QED  BY <1>1, <1>2, <1>3, <2>1, <2>2, CommittedOrderly, CommittedLoud
<1>4. CASE SaveFailed(next, kind)
  <2>1. Stop("save") /\ faults' # 0
    BY <1>4, FaultLoud DEF SaveFailed
  <2> QED  BY <2>1, StopLoud DEF Quiet
<1>5. CASE Rejected(mid)
  <2>1. PICK reason \in {"exhausted", "rejected"} : Stop(reason)
    BY <1>5 DEF Rejected
  <2>2. exit' = "exhausted"
    BY <2>1 DEF Stop, IInv
  <2> QED  BY <2>1, <2>2, StopLoud DEF Quiet
<1> QED  BY <1>1, <1>3, <1>4, <1>5 DEF Process

-----------------------------------------------------------------------------
(* The screen grows darker *)

(* Notifications leave the screen and none comes. *)
Darker(v, w) ==
  /\ w.key = v.key /\ w.next = v.next
  /\ \A id : Lit(id, w) => Lit(id, v)
  /\ \A id \in IDs : v.shown[id] = "no" => w.shown[id] = "no"

LEMMA DarkerOff ==
  ASSUME IInv, NEW id
  PROVE  /\ Darker(server, Withdraw(id)) /\ ~Lit(id, Withdraw(id))
         /\ \A i \in IDs : i # id => (Lit(i, server) => Lit(i, Withdraw(id)))
<1>1. PICK s : s = [server.shown EXCEPT ![id] = "no"]
  OBVIOUS
<1>2. server.shown \in [IDs -> {"no", "yes", "history"}]
      /\ server \in ServerType
  BY Fields DEF ServerType
<1>3. Withdraw(id) = [server EXCEPT !.shown = s]
  BY <1>1, <1>2 DEF Withdraw, ServerType
<1>4. /\ Withdraw(id).shown = s /\ Withdraw(id).key = server.key
      /\ Withdraw(id).next = server.next
  BY <1>2, <1>3 DEF ServerType
<1>5. \A i \in IDs : s[i] = IF i = id THEN "no" ELSE server.shown[i]
  BY <1>1, <1>2
<1> QED  BY <1>4, <1>5 DEF Darker, Lit

LEMMA DarkerHistory ==
  ASSUME IInv, NEW id \in IDs, server.shown[id] # "no"
  PROVE  Darker(server, Archive(id)) /\ ~Lit(id, Archive(id))
<1>1. PICK s : s = [server.shown EXCEPT ![id] = "history"]
  OBVIOUS
<1>2. server.shown \in [IDs -> {"no", "yes", "history"}]
      /\ server \in ServerType
  BY Fields DEF ServerType
<1>3. Archive(id) = [server EXCEPT !.shown = s]
  BY <1>1, <1>2 DEF Archive, ServerType
<1>4. /\ Archive(id).shown = s /\ Archive(id).key = server.key
      /\ Archive(id).next = server.next
  BY <1>2, <1>3 DEF ServerType
<1>5. \A i \in IDs : s[i] = IF i = id THEN "history" ELSE server.shown[i]
  BY <1>1, <1>2
<1> QED  BY <1>4, <1>5 DEF Darker, Lit

LEMMA DarkerUnused ==
  ASSUME NEW v, NEW w, Darker(v, w), Unused(v)
  PROVE  Unused(w) /\ Gone(v) \subseteq Gone(w)
<1>1. Unused(w)
  BY DEF Unused, Darker
<1>2. Gone(v) \subseteq Gone(w)
  BY DEF Gone, Darker
<1> QED  BY <1>1, <1>2

LEMMA DarkerOrderly ==
  ASSUME NEW v, NEW w, Darker(v, w), NEW s, NEW r, NEW now,
         Orderly(s, r, v, now)
  PROVE  Orderly(s, r, w, now)
<1>1. \A k \in Keys : Good(s.occurrences[k], r.tick, w, now)
  BY DEF Orderly, Good, Darker
<1>2. Held(s, r.notifyResult, w)
  BY DEF Orderly, Held, Darker
<1>3. Answered(r.notifyResult, w)
  BY DEF Orderly, Answered, Darker
<1> QED  BY <1>1, <1>2, <1>3 DEF Orderly, Darker

LEMMA GoneSignals ==
  ASSUME NEW v, NEW w, Gone(v) \subseteq Gone(w), NEW q \in Seq(Gone(v))
  PROVE  q \in Seq(Gone(w))
OBVIOUS

LEMMA BothSignals ==
  ASSUME NEW G, NEW p \in Seq(G), NEW q \in Seq(G)
  PROVE  p \o q \in Seq(G)
OBVIOUS

(* A delivery.  One that changes nothing is stale: the service stops, and   *)
(* withdraws what it brought.                                               *)
LEMMA StaleOrderly ==
  ASSUME IInv, OInv, up = TRUE, NEW id, id = rt.notifyResult.id,
         Stop("stale-delivery"), state' = state, clock' = clock,
         server' = Withdraw(id), faults' = faults
  PROVE  OInv'
<1>1. /\ up' = FALSE /\ exit' = "stale-delivery"
      /\ rt' = Boot /\ signals' = <<>>
  BY DEF Stop
<1>2. /\ Boot.notifySlot = NoCommand /\ Boot.notifyResult = NoResult
      /\ Boot.tick = FALSE
  BY DEF Boot
<1>3. Quiet' => Serving'
  <2>1. SUFFICES ASSUME Quiet' PROVE Serving'
    OBVIOUS
  <2>2. Serving
    BY <2>1 DEF Quiet, OInv
  <2>3. /\ Darker(server, server')
        /\ \A i \in IDs : Lit(i, server') => Lit(i, server) /\ i # id
    BY DarkerOff DEF Darker
  <2>4. Unused(server') /\ signals' \in Seq(Gone(server'))
    BY <1>1, <2>2, <2>3, DarkerUnused DEF Serving
  <2>5. Orderly(state, rt, server', clock)
    BY <2>2, <2>3, DarkerOrderly DEF Serving
  <2>6. \A k \in Keys : Good(state.occurrences[k], FALSE, server', clock)
    BY <2>5 DEF Orderly, Good
  <2>7. Held(state, NoResult, server')
    BY <2>3, <2>5 DEF Orderly, Held
  <2>8. Orderly(state, Boot, server', clock)
    BY <1>2, <2>6, <2>7, AnsweredNone DEF Orderly
  <2> QED  BY <1>1, <2>4, <2>8 DEF Serving
<1> QED  BY <1>1, <1>2, <1>3 DEF OInv

LEMMA ProcessDeliveryOrderly ==
  ASSUME IInv, IInv', OInv, NEW mid, NEW at, at = clock,
         NEW r, Handled(mid, at, r), NEW id, id = rt.notifyResult.id,
         ProcessDelivery(mid, at, id, r),
         Quiet /\ Settle(mid, at) # state => Orderly(mid, r, server, clock)
  PROVE  OInv'
<1>1. PICK next : next = Settle(mid, at)
  OBVIOUS
<1>2. up = TRUE /\ clock' = clock
  BY DEF ProcessDelivery, IInv, TypeOK
<1>3. CASE /\ Accepted(mid, at) /\ next # state /\ server' = server
           /\ Committed(next, at, "notification", r, signals)
  <2>1. ~RevisionExhausted(mid)
    BY <1>3 DEF Accepted
  <2>2. Quiet => Unused(server) /\ signals \in Seq(Gone(server))
    BY DEF OInv, Serving
  <2>3. Quiet => Orderly(mid, r, server, clock)
    BY <1>1, <1>3
  <2> QED  BY <1>1, <1>2, <1>3, <2>1, <2>2, <2>3, CommittedOrderly,
              CommittedLoud
<1>4. CASE SaveFailed(next, "notification")
  <2>1. Stop("save") /\ faults' # 0
    BY <1>4, FaultLoud DEF SaveFailed
  <2> QED  BY <2>1, StopLoud DEF Quiet
<1>5. CASE /\ Stop("stale-delivery") /\ state' = state
           /\ server' = Withdraw(id) /\ UNCHANGED faults
  BY <1>2, <1>5, StaleOrderly
<1>6. CASE Stop("stale-delivery") /\ Fault
  BY <1>6, FaultLoud, StopLoud DEF Quiet
<1>7. CASE Rejected(mid)
  <2>1. PICK reason \in {"exhausted", "rejected"} : Stop(reason)
    BY <1>7 DEF Rejected
  <2>2. exit' = "exhausted"
    BY <2>1 DEF Stop, IInv
  <2> QED  BY <2>1, <2>2, StopLoud DEF Quiet
<1> QED  BY <1>1, <1>3, <1>4, <1>5, <1>6, <1>7 DEF ProcessDelivery

-----------------------------------------------------------------------------
(* The events *)

(* The state mid that an event leaves, entry by entry, and a runtime q with *)
(* the same commands as r and no tick that r had not.                       *)
LEMMA StaysOrderly ==
  ASSUME NEW s, NEW mid, NEW r, NEW q, SameNotifier(r, q), NEW v, NEW now,
         Orderly(s, r, v, now),
         \A k \in Keys : /\ Stays(s.occurrences[k], mid.occurrences[k], v)
                         /\ Good(mid.occurrences[k], q.tick, v, now)
  PROVE  Orderly(mid, q, v, now)
<1>1. Held(mid, r.notifyResult, v)
  BY HeldStays DEF Orderly
<1> QED  BY <1>1 DEF Orderly, SameNotifier

(* An entry without a notification. *)
LEMMA NoneGood ==
  ASSUME NEW v
  PROVE  /\ ~Lit(0, v)
         /\ \A n, tick, now : n.id = 0 => Good(n, tick, v, now)
<1>1. ~Lit(0, v)
  BY BoundsAssumption DEF Lit, IDs
<1> QED  BY <1>1 DEF Good

LEMMA TickGood ==
  ASSUME NEW s, Sound(s), NEW at, NEW k \in Keys, NEW v, NEW now,
         NEW o, o = s.occurrences[k],
         NEW n, n = TickEvent(s, at).occurrences[k],
         Good(o, TRUE, v, now)
  PROVE  Stays(o, n, v) /\ Good(n, FALSE, v, now)
<1>1. NoEntry.id = 0 /\ ~Lit(0, v) /\ Good(NoEntry, FALSE, v, now)
  <2>1. NoEntry.id = 0
    BY DEF NoEntry
  <2> QED  BY <2>1, NoneGood
<1>2. Legit(o)
  BY DEF Sound
<1>3. CASE n = o
  BY <1>3 DEF Stays, Good
<1>4. CASE o.phase \in {"scheduled", "notify-pending", "joined"} /\ n = NoEntry
  <2>1. ~Lit(o.id, v)
    <3>1. CASE o.phase = "notify-pending"
      BY <3>1 DEF Good
    <3>2. CASE o.phase \in {"scheduled", "joined"}
      BY <1>1, <1>2, <3>2, HiddenHasNone
    <3> QED  BY <1>4, <3>1, <3>2
  <2> QED  BY <1>1, <1>4, <2>1 DEF Stays
<1>5. CASE n.phase = "close-pending" /\ n.id = o.id
  BY <1>5 DEF Stays, Good
<1>6. CASE o.phase = "actionable-history" /\ n = NoEntry
  BY <1>1, <1>6 DEF Stays, Good
<1>7. \/ n = o
      \/ o.phase \in {"scheduled", "notify-pending", "joined"} /\ n = NoEntry
      \/ n.phase = "close-pending" /\ n.id = o.id
      \/ o.phase = "actionable-history" /\ n = NoEntry
  BY TickAt
<1> QED  BY <1>3, <1>4, <1>5, <1>6, <1>7

LEMMA ActivityGood ==
  ASSUME NEW s, Sound(s), NEW announce, NEW at, NEW k \in Keys,
         NEW v, NEW now, NEW tick, NEW o, o = s.occurrences[k],
         NEW n, n = ActivityResultEvent(s, announce, at).occurrences[k],
         Good(o, tick, v, now)
  PROVE  Stays(o, n, v) /\ Good(n, tick, v, now)
<1>1. CASE n = o
  BY <1>1 DEF Stays
<1>2. CASE o.phase = "scheduled" /\ n.id = 0
  <2>1. o.id = 0
    BY <1>2, HiddenHasNone DEF Sound
  <2> QED  BY <1>2, <2>1, NoneGood DEF Stays
<1> QED  BY <1>1, <1>2, ActivityAt

LEMMA LaunchGood ==
  ASSUME NEW s, Sound(s), NEW key \in Keys, NEW revision, NEW ok,
         NEW k \in Keys, NEW v, NEW now, NEW tick, NEW o, o = s.occurrences[k],
         NEW n, n = LaunchResultEvent(s, key, revision, ok).occurrences[k],
         Good(o, tick, v, now)
  PROVE  Stays(o, n, v) /\ Good(n, tick, v, now)
<1>1. CASE n = o
  BY <1>1 DEF Stays
<1>2. CASE o.phase = "join-pending" /\ n.id = 0
  BY <1>2, NoneGood DEF Stays, Good
<1>3. CASE o.phase = "join-pending" /\ n.phase \in Actionable /\ n.id = o.id
  BY <1>3 DEF Stays, Good, Actionable
<1> QED  BY <1>1, <1>2, <1>3, LaunchAt

(* A click on a notification that left the screen, and its end. *)
LEMMA SignalGood ==
  ASSUME NEW s, Sound(s), NEW id, NEW at, NEW k \in Keys,
         NEW v, NEW now, NEW tick, NEW o, o = s.occurrences[k], ~Lit(id, v),
         NEW n, \/ n = JoinSignal(s, id, at, Hosts).occurrences[k]
                \/ n = ClosedSignal(s, id).occurrences[k],
         Good(o, tick, v, now)
  PROVE  Stays(o, n, v) /\ Good(n, tick, v, now)
<1>1. Legit(o)
  BY DEF Sound
<1>2. CASE n = o
  BY <1>2 DEF Stays
<1>3. CASE /\ o.id = id /\ n.id = id
           /\ n.phase \in {"join-pending", "actionable-history"}
  BY <1>3 DEF Stays, Good
<1>4. CASE o.id = id /\ n = Closed(o)
  <2>1. n.id = 0
    BY <1>1, <1>4, ClosedFields
  <2> QED  BY <1>4, <2>1, NoneGood DEF Stays
<1>5. CASE n = JoinSignal(s, id, at, Hosts).occurrences[k]
  BY <1>2, <1>3, <1>5, JoinAt
<1>6. CASE n = ClosedSignal(s, id).occurrences[k]
  BY <1>2, <1>3, <1>4, <1>6, ClosedAt
<1> QED  BY <1>5, <1>6

LEMMA PolledGood ==
  ASSUME NEW o, NEW n, NEW now, Polled(o, n, now), now \in Nat,
         NEW v, Good(o, FALSE, v, now)
  PROVE  Stays(o, n, v) /\ Good(n, FALSE, v, now)
<1>1. Stays(o, n, v)
  BY DEF Polled, Stays
<1>2. n.phase \in {"actionable-history", "join-pending"} => ~Lit(n.id, v)
  BY DEF Polled, Visible, Good
<1>3. n.phase = "notify-pending" /\ Lit(n.id, v) =>
        n.notBefore =< now /\ n.meeting.start - now =< LeadTime
  BY DEF Polled, Good, Due
<1> QED  BY <1>1, <1>2, <1>3 DEF Good

-----------------------------------------------------------------------------
(* The loop loses no notification *)

(* What a handler starts from. *)
LEMMA Served ==
  ASSUME OInv, Quiet
  PROVE  /\ Unused(server) /\ signals \in Seq(Gone(server))
         /\ Orderly(state, rt, server, clock)
  BY DEF OInv, Serving

LEMMA TickOrderly ==
  ASSUME IInv, IInv', OInv, HandleTick
  PROVE  OInv'
<1>1. PICK mid : mid = TickEvent(state, clock)
  OBVIOUS
<1>2. PICK r : r = [rt EXCEPT !.tick = FALSE, !.activityStale = TRUE]
  OBVIOUS
<1>3. Handled(mid, clock, r) /\ Process(mid, clock, "tick", r, signals)
  BY <1>1, <1>2, TickHandled
<1>4. SameNotifier(rt, r) /\ r.tick = FALSE /\ rt.tick = TRUE
  BY <1>2, Fields DEF SameNotifier, RuntimeType, HandleTick
<1>5. ASSUME Quiet
      PROVE  Orderly(mid, r, server, clock)
  <2>1. Orderly(state, rt, server, clock) /\ Sound(state)
    BY <1>5, Served DEF IInv
  <2>2. ASSUME NEW k \in Keys
        PROVE  /\ Stays(state.occurrences[k], mid.occurrences[k], server)
               /\ Good(mid.occurrences[k], r.tick, server, clock)
    <3>1. Good(state.occurrences[k], TRUE, server, clock)
      BY <1>4, <2>1 DEF Orderly
    <3> QED  BY <1>1, <1>4, <2>1, <3>1, TickGood
  <2> QED  BY <1>4, <2>1, <2>2, StaysOrderly
<1> QED  BY <1>3, <1>5, Served, ProcessOrderly

LEMMA ActivityOrderly ==
  ASSUME IInv, IInv', WInv, Prompt, OInv, HandleActivity
  PROVE  OInv'
<1>1. PICK e : e = rt.activityResult
  OBVIOUS
<1>2. PICK mid : mid = ActivityResultEvent(state, e.announce, e.at)
  OBVIOUS
<1>3. PICK r : r = [rt EXCEPT !.activityBusy = FALSE,
                              !.activityResult = Boot.activityResult]
  OBVIOUS
<1>4. Handled(mid, e.at, r) /\ Process(mid, e.at, "activity", r, signals)
  BY <1>1, <1>2, <1>3, ActivityHandled
<1>5. SameNotifier(rt, r) /\ r.tick = rt.tick
  BY <1>3, Fields DEF SameNotifier, RuntimeType
<1>6. e.at = clock
  BY <1>1, Stamped DEF WInv, Stamps, HandleActivity
<1>7. ASSUME Quiet
      PROVE  Orderly(mid, r, server, clock)
  <2>1. Orderly(state, rt, server, clock) /\ Sound(state)
    BY <1>7, Served DEF IInv
  <2>2. ASSUME NEW k \in Keys
        PROVE  /\ Stays(state.occurrences[k], mid.occurrences[k], server)
               /\ Good(mid.occurrences[k], rt.tick, server, clock)
    <3>1. Good(state.occurrences[k], rt.tick, server, clock)
      BY <2>1 DEF Orderly
    <3> QED  BY <1>2, <2>1, <3>1, ActivityGood
  <2> QED  BY <1>5, <2>1, <2>2, StaysOrderly
<1> QED  BY <1>4, <1>6, <1>7, Served, ProcessOrderly

LEMMA LaunchOrderly ==
  ASSUME IInv, IInv', WInv, Prompt, OInv, HandleLaunch
  PROVE  OInv'
<1>1. PICK e : e = rt.launchResult
  OBVIOUS
<1>2. PICK key, revision : key = e.launch.key /\ revision = e.launch.revision
  OBVIOUS
<1>3. PICK mid : mid = LaunchResultEvent(state, key, revision, e.ok)
  OBVIOUS
<1>4. PICK r : r = [rt EXCEPT !.launcherBusy = FALSE,
                              !.launchResult = NoLaunchResult]
  OBVIOUS
<1>5. /\ Handled(mid, e.at, r) /\ Process(mid, e.at, "launch", r, signals)
      /\ key \in Keys
  BY <1>1, <1>2, <1>3, <1>4, LaunchHandled
<1>6. SameNotifier(rt, r) /\ r.tick = rt.tick
  BY <1>4, Fields DEF SameNotifier, RuntimeType
<1>7. e.at = clock
  BY <1>1, Stamped DEF WInv, Stamps, HandleLaunch
<1>8. ASSUME Quiet
      PROVE  Orderly(mid, r, server, clock)
  <2>1. Orderly(state, rt, server, clock) /\ Sound(state)
    BY <1>8, Served DEF IInv
  <2>2. ASSUME NEW k \in Keys
        PROVE  /\ Stays(state.occurrences[k], mid.occurrences[k], server)
               /\ Good(mid.occurrences[k], rt.tick, server, clock)
    <3>1. Good(state.occurrences[k], rt.tick, server, clock)
      BY <2>1 DEF Orderly
    <3> QED  BY <1>3, <1>5, <2>1, <3>1, LaunchGood
  <2> QED  BY <1>6, <2>1, <2>2, StaysOrderly
<1> QED  BY <1>5, <1>7, <1>8, Served, ProcessOrderly

LEMMA SignalOrderly ==
  ASSUME IInv, IInv', OInv, HandleSignal
  PROVE  OInv'
<1>1. PICK e : e = Head(signals)
  OBVIOUS
<1>2. PICK mid :
        /\ Handled(mid, clock, rt)
        /\ Process(mid, clock, "notification", rt, Tail(signals))
        /\ mid = IF e.name = "join" THEN JoinSignal(state, e.id, clock, Hosts)
                                    ELSE ClosedSignal(state, e.id)
  BY <1>1, SignalHandled
<1>3. ASSUME Quiet
      PROVE  /\ Orderly(mid, rt, server, clock)
             /\ Tail(signals) \in Seq(Gone(server))
  <2>1. /\ Orderly(state, rt, server, clock) /\ Sound(state)
        /\ signals \in Seq(Gone(server)) /\ signals # <<>>
    BY <1>3, Served DEF IInv, HandleSignal
  <2>2. e \in Gone(server) /\ Tail(signals) \in Seq(Gone(server))
    BY <1>1, <2>1
  <2>3. ~Lit(e.id, server)
    BY <2>2 DEF Gone
  <2>4. ASSUME NEW k \in Keys
        PROVE  /\ Stays(state.occurrences[k], mid.occurrences[k], server)
               /\ Good(mid.occurrences[k], rt.tick, server, clock)
    <3>1. Good(state.occurrences[k], rt.tick, server, clock)
      BY <2>1 DEF Orderly
    <3>2. \/ mid.occurrences[k]
               = JoinSignal(state, e.id, clock, Hosts).occurrences[k]
          \/ mid.occurrences[k] = ClosedSignal(state, e.id).occurrences[k]
      BY <1>2
    <3> QED  BY <2>1, <2>3, <3>1, <3>2, SignalGood
  <2>5. SameNotifier(rt, rt)
    BY DEF SameNotifier
  <2> QED  BY <2>1, <2>2, <2>4, <2>5, StaysOrderly
<1> QED  BY <1>2, <1>3, ProcessOrderly

(* A poll. *)
LEMMA SameGood ==
  ASSUME NEW s, NEW mid, mid.occurrences = s.occurrences, NEW r, NEW q,
         SameNotifier(r, q), q.tick = r.tick, NEW v, NEW now,
         Orderly(s, r, v, now)
  PROVE  Orderly(mid, q, v, now)
  BY DEF Orderly, Held, SameNotifier

LEMMA PollOrderly ==
  ASSUME IInv, IInv', WInv, SInv, Prompt, OInv,
         NEW a \in Accounts, HandlePoll(a)
  PROVE  OInv'
<1>1. PICK mid, kind, r :
        /\ Handled(mid, clock, r) /\ Process(mid, clock, kind, r, signals)
        /\ kind # "tick" /\ SameNotifier(rt, r)
        /\ a \in rt.pollBusy /\ r.pollBusy = rt.pollBusy \ {a}
        /\ rt.tick = FALSE /\ r.tick = FALSE
        /\ \/ \A k \in Keys : IF AccountOf[k] = a
                THEN Polled(state.occurrences[k], mid.occurrences[k], clock)
                ELSE mid.occurrences[k] = state.occurrences[k]
           \/ mid.occurrences = state.occurrences
  BY PollStep
<1>2. ASSUME Quiet
      PROVE  Orderly(mid, r, server, clock)
  <2>1. Orderly(state, rt, server, clock) /\ clock \in Nat
    BY <1>2, Served, Times
  <2>2. CASE mid.occurrences = state.occurrences
    BY <1>1, <2>1, <2>2, SameGood
  <2>3. CASE \A k \in Keys : IF AccountOf[k] = a
               THEN Polled(state.occurrences[k], mid.occurrences[k], clock)
               ELSE mid.occurrences[k] = state.occurrences[k]
    <3>1. ASSUME NEW k \in Keys
          PROVE  /\ Stays(state.occurrences[k], mid.occurrences[k], server)
                 /\ Good(mid.occurrences[k], FALSE, server, clock)
      <4>1. Good(state.occurrences[k], FALSE, server, clock)
        BY <1>1, <2>1 DEF Orderly
      <4>2. CASE AccountOf[k] = a
        BY <2>1, <2>3, <4>1, <4>2, PolledGood
      <4>3. CASE AccountOf[k] # a
        BY <2>3, <4>1, <4>3 DEF Stays
      <4> QED  BY <4>2, <4>3
    <3>2. SameNotifier(rt, r) /\ r.tick = FALSE
      BY <1>1
    <3> QED  BY <2>1, <3>1, <3>2, StaysOrderly
  <2> QED  BY <1>1, <2>2, <2>3
<1> QED  BY <1>1, <1>2, Served, ProcessOrderly

(* The client's reports.  What was shown is the entry's now; what was not,  *)
(* or was closed, is off the screen.                                        *)
LEMMA FreedOrderly ==
  ASSUME IInv, OInv, Quiet, rt.notifyResult.event # "none", NEW mid,
         \A k \in Keys : Good(mid.occurrences[k], rt.tick, server, clock),
         Held(mid, NoResult, server)
  PROVE  Orderly(mid, NotifierFree, server, clock)
<1>1. PICK r : r = NotifierFree
  OBVIOUS
<1>2. r.notifySlot = NoCommand /\ r.notifyResult = NoResult
  BY <1>1, NotifierFreed
<1>3. r.tick = rt.tick
  <2>1. r = [rt EXCEPT !.notifierBusy = FALSE, !.notifyResult = NoResult]
    BY <1>1 DEF NotifierFree
  <2> QED  BY <2>1, Fields DEF RuntimeType
<1>4. Orderly(mid, r, server, clock)
  BY <1>2, <1>3, AnsweredNone DEF Orderly
<1> QED  BY <1>1, <1>4

LEMMA DeliveryTakes ==
  ASSUME NEW s, Sound(s), NEW key \in Keys, NEW revision, NEW id, NEW at,
         NEW o, o = s.occurrences[key],
         NEW mid, mid = ApplyDelivery(s, key, revision, id, at)
  PROVE  IF o.phase = "notify-pending" /\ o.notifyRevision = revision
           THEN mid.occurrences[key].id = id ELSE mid = s
<1>1. s \in StateType /\ o \in OccurrenceType
  BY LegitType DEF Sound
<1>2. CASE o.phase = "notify-pending" /\ o.notifyRevision = revision
  <2>1. mid.occurrences[key]
          = [o EXCEPT !.phase = "notified", !.id = id, !.notifiedAt = TRUE,
               !.actionExpiresAt = at + ActionLifetime,
               !.notBefore = 0, !.attempt = 0]
    BY <1>1, <1>2 DEF ApplyDelivery, Update, StateType
  <2> QED  BY <1>1, <1>2, <2>1 DEF OccurrenceType
<1>3. CASE ~(o.phase = "notify-pending" /\ o.notifyRevision = revision)
  <2>1. mid = s
    BY <1>1, <1>3 DEF ApplyDelivery, Update, StateType
  <2> QED  BY <1>3, <2>1
<1> QED  BY <1>2, <1>3

(* A warning is no meeting's notification. *)
LEMMA WarnedOrderly ==
  ASSUME IInv, OInv, Quiet, rt.notifyResult.event \in {"delivered", "failed"},
         rt.notifyResult.command.kind = "warning",
         NEW mid, mid.occurrences = state.occurrences
  PROVE  Orderly(mid, NotifierFree, server, clock)
<1>1. PICK e, c : e = rt.notifyResult /\ c = e.command
  OBVIOUS
<1>2. /\ Held(state, e, server) /\ Answered(e, server)
      /\ Bound(c, server.next)
      /\ \A k \in Keys : Good(state.occurrences[k], rt.tick, server, clock)
  BY <1>1, Served DEF Orderly
<1>3. ASSUME NEW id \in IDs, Lit(id, server), server.key[id] # 0
      PROVE  \E k \in Keys : mid.occurrences[k].id = id
  <2>1. c.key = 0
    BY <1>1, <1>2 DEF Bound
  <2>2. ~(e.event = "delivered" /\ e.id = id)
    BY <1>1, <1>2, <1>3, <2>1 DEF Answered
  <2> QED  BY <1>2, <1>3, <2>2 DEF Held
<1>4. Held(mid, NoResult, server)
  BY <1>3 DEF Held
<1> QED  BY <1>2, <1>4, FreedOrderly

LEMMA DeliveredOrderly ==
  ASSUME IInv, IInv', SInv, OInv, HandleDelivered
  PROVE  OInv'
<1>1. PICK e, c : e = rt.notifyResult /\ c = e.command
  OBVIOUS
<1>2. PICK mid :
        /\ Handled(mid, clock, NotifierFree)
        /\ ProcessDelivery(mid, clock, e.id, NotifierFree)
        /\ \/ /\ c.kind = "warning" /\ c.account \in Accounts
              /\ mid = ApplyWarningDelivery(state, c.account, c.revision, clock)
           \/ /\ c.kind = "notify" /\ c.key \in Keys
              /\ mid = ApplyDelivery(state, c.key, c.revision, e.id, clock)
  BY <1>1, DeliveredHandled
<1>3. e.event = "delivered" /\ Sound(state) /\ clock \in Nat
  BY <1>1, Times DEF HandleDelivered, IInv
<1>4. CASE c.kind = "warning"
  <2>1. mid.occurrences = state.occurrences
    <3>1. mid = ApplyWarningDelivery(state, c.account, c.revision, clock)
      BY <1>2, <1>4
    <3> QED  BY <1>3, <3>1, AccountSame
  <2>2. Quiet => Orderly(mid, NotifierFree, server, clock)
    BY <1>1, <1>3, <1>4, <2>1, WarnedOrderly
  <2> QED  BY <1>1, <1>2, <2>2, ProcessDeliveryOrderly
<1>5. CASE c.kind = "notify" /\ c.key \in Keys
           /\ mid = ApplyDelivery(state, c.key, c.revision, e.id, clock)
  <2>1. ASSUME Quiet, Settle(mid, clock) # state
        PROVE  Orderly(mid, NotifierFree, server, clock)
    <3>1. PICK o : o = state.occurrences[c.key]
      OBVIOUS
    <3>2. /\ Held(state, e, server) /\ Answered(e, server)
          /\ \A k \in Keys : Good(state.occurrences[k], rt.tick, server, clock)
      BY <1>1, <2>1, Served DEF Orderly
    <3>3. o.phase = "notify-pending" /\ o.notifyRevision = c.revision
      <4>1. SUFFICES ASSUME ~(o.phase = "notify-pending"
                              /\ o.notifyRevision = c.revision)
                     PROVE  FALSE
        OBVIOUS
      <4>2. mid = state
        BY <1>3, <1>5, <3>1, <4>1, DeliveryTakes
      <4>3. up = TRUE /\ rt.notifyResult # NoResult
        BY <1>1, <1>3, AnsweredNone DEF OInv, IInv, TypeOK
      <4>4. Settle(state, clock) = state
        BY <2>1, <4>3 DEF OInv, Serving
      <4> QED  BY <2>1, <4>2, <4>4
    <3>4. o.id = c.id
      <4>1. Known(c, state, rt, clock)
        BY <1>1 DEF SInv, ScreenOK
      <4>2. o.notifyRevision \in Nat
        BY <1>3, <1>5, <3>1, EntryFields
      <4>3. ~Past(c, o)
        BY <3>3, <4>2 DEF Past
      <4> QED  BY <1>5, <3>1, <4>1, <4>3 DEF Known, Fresh
    <3>5. mid.occurrences[c.key].id = e.id
      BY <1>3, <1>5, <3>1, <3>3, DeliveryTakes
    <3>6. ASSUME NEW k \in Keys
          PROVE  /\ Good(mid.occurrences[k], rt.tick, server, clock)
                 /\ \/ Stays(state.occurrences[k], mid.occurrences[k], server)
                    \/ mid.occurrences[k].id = e.id
                       /\ state.occurrences[k].id = e.id
      <4>1. PICK p, n : p = state.occurrences[k] /\ n = mid.occurrences[k]
        OBVIOUS
      <4>2. \/ n = p
            \/ k = c.key /\ n.phase = "notified" /\ n.id = e.id
        BY <1>3, <1>5, <4>1, DeliveryAt
      <4>3. CASE n = p
        BY <3>2, <4>1, <4>3 DEF Stays
      <4>4. CASE k = c.key /\ n.phase = "notified" /\ n.id = e.id
        <5>1. Good(n, rt.tick, server, clock)
          BY <4>4 DEF Good
        <5>2. p.id = c.id
          BY <3>1, <3>4, <4>1, <4>4
        <5>3. e.id = c.id \/ ~Lit(c.id, server)
          BY <1>3, <3>2, <1>1 DEF Answered
        <5> QED  BY <4>1, <4>4, <5>1, <5>2, <5>3 DEF Stays
      <4> QED  BY <4>2, <4>3, <4>4
    <3>7. ASSUME NEW id \in IDs, Lit(id, server), server.key[id] # 0
          PROVE  \E k \in Keys : mid.occurrences[k].id = id
      <4>1. CASE e.id = id
        BY <1>5, <3>5, <4>1
      <4>2. CASE \E k \in Keys : state.occurrences[k].id = id
        BY <3>6, <3>7, <4>2 DEF Stays
      <4> QED  BY <3>2, <3>7, <4>1, <4>2 DEF Held
    <3>8. Held(mid, NoResult, server)
      BY <3>7 DEF Held
    <3>9. rt.notifyResult.event # "none"
      BY <1>1, <1>3
    <3> QED  BY <2>1, <3>6, <3>8, <3>9, FreedOrderly
  <2> QED  BY <1>1, <1>2, <2>1, ProcessDeliveryOrderly
<1> QED  BY <1>2, <1>4, <1>5

LEMMA FailedOrderly ==
  ASSUME IInv, IInv', SInv, OInv, HandleFailed
  PROVE  OInv'
<1>1. PICK e, c : e = rt.notifyResult /\ c = e.command
  OBVIOUS
<1>2. PICK id : id = IF c.kind = "close" THEN c.id ELSE 0
  OBVIOUS
<1>3. PICK mid :
        /\ Handled(mid, clock, NotifierFree)
        /\ Process(mid, clock, "notification", NotifierFree, signals)
        /\ \/ /\ c.kind = "warning" /\ c.account \in Accounts
              /\ mid = ApplyWarningFailure(state, c.account, c.revision, clock)
           \/ /\ c.kind \in {"notify", "close"} /\ c.key \in Keys
              /\ mid = ApplyNotificationFailure(state, c.key, c.revision, id,
                                                clock)
  BY <1>1, <1>2, FailedHandled
<1>4. e.event = "failed" /\ Sound(state)
  BY <1>1 DEF HandleFailed, IInv
<1>5. ASSUME Quiet
      PROVE  Orderly(mid, NotifierFree, server, clock)
  <2>1. CASE c.kind = "warning"
    <3>1. mid = ApplyWarningFailure(state, c.account, c.revision, clock)
      BY <1>3, <2>1
    <3>2. mid.occurrences = state.occurrences
      BY <1>4, <3>1, AccountSame
    <3> QED  BY <1>1, <1>4, <1>5, <2>1, <3>2, WarnedOrderly
  <2>2. CASE c.kind \in {"notify", "close"} /\ c.key \in Keys
             /\ mid = ApplyNotificationFailure(state, c.key, c.revision, id,
                                               clock)
    <3>1. /\ Held(state, e, server) /\ Answered(e, server)
          /\ \A k \in Keys : Good(state.occurrences[k], rt.tick, server, clock)
      BY <1>1, <1>5, Served DEF Orderly
    <3>2. c.kind = "notify" /\ ~Lit(c.id, server)
      BY <1>1, <1>4, <2>2, <3>1 DEF Answered
    <3>3. id = 0
      BY <1>2, <3>2
    <3>4. ASSUME NEW k \in Keys
          PROVE  /\ Good(mid.occurrences[k], rt.tick, server, clock)
                 /\ Stays(state.occurrences[k], mid.occurrences[k], server)
      <4>1. PICK o, n : o = state.occurrences[k] /\ n = mid.occurrences[k]
        OBVIOUS
      <4>2. \/ n = o
            \/ /\ k = c.key /\ o.phase = "notify-pending"
               /\ o.notifyRevision = c.revision
               /\ n.phase = "notify-pending" /\ n.id = o.id
        BY <1>4, <2>2, <3>3, <4>1, FailureAt
      <4>3. CASE n = o
        BY <3>1, <4>1, <4>3 DEF Stays
      <4>4. CASE /\ k = c.key /\ o.phase = "notify-pending"
                 /\ o.notifyRevision = c.revision
                 /\ n.phase = "notify-pending" /\ n.id = o.id
        <5>1. Known(c, state, rt, clock)
          BY <1>1 DEF SInv, ScreenOK
        <5>2. o.notifyRevision \in Nat
          BY <1>4, <4>1, EntryFields
        <5>3. ~Past(c, o)
          BY <4>4, <5>2 DEF Past
        <5>4. o.id = c.id
          BY <3>2, <4>1, <4>4, <5>1, <5>3 DEF Known, Fresh
        <5> QED  BY <3>2, <4>1, <4>4, <5>4 DEF Good, Stays
      <4> QED  BY <4>2, <4>3, <4>4
    <3>5. Held(mid, NoResult, server)
      <4>1. Held(mid, e, server)
        BY <3>1, <3>4, HeldStays
      <4> QED  BY <1>4, <4>1 DEF Held
    <3>6. rt.notifyResult.event # "none"
      BY <1>1, <1>4
    <3> QED  BY <1>5, <3>4, <3>5, <3>6, FreedOrderly
  <2> QED  BY <1>3, <2>1, <2>2
<1> QED  BY <1>3, <1>5, Served, ProcessOrderly

LEMMA CompletedOrderly ==
  ASSUME IInv, IInv', OInv, HandleCompleted
  PROVE  OInv'
<1>1. PICK e, c : e = rt.notifyResult /\ c = e.command
  OBVIOUS
<1>2. PICK mid :
        /\ Handled(mid, clock, NotifierFree)
        /\ Process(mid, clock, "notification", NotifierFree, signals)
        /\ mid = CompleteClose(state, c.key, c.id)
        /\ c.kind = "close" /\ c.key \in Keys
  BY <1>1, CompletedHandled
<1>3. e.event = "completed" /\ Sound(state)
  BY <1>1 DEF HandleCompleted, IInv
<1>4. ASSUME Quiet
      PROVE  Orderly(mid, NotifierFree, server, clock)
  <2>1. /\ Held(state, e, server) /\ Answered(e, server)
        /\ Bound(c, server.next)
        /\ \A k \in Keys : Good(state.occurrences[k], rt.tick, server, clock)
    BY <1>1, <1>4, Served DEF Orderly
  <2>2. c.id # 0 /\ ~Lit(c.id, server)
    BY <1>1, <1>2, <1>3, <2>1 DEF Answered, Bound
  <2>3. ASSUME NEW k \in Keys
        PROVE  /\ Good(mid.occurrences[k], rt.tick, server, clock)
               /\ Stays(state.occurrences[k], mid.occurrences[k], server)
    <3>1. PICK o, n : o = state.occurrences[k] /\ n = mid.occurrences[k]
      OBVIOUS
    <3>2. n = o \/ (c.id = o.id /\ n = Closed(o))
      BY <1>2, <1>3, <2>2, <3>1, CompleteAt
    <3>3. CASE n = o
      BY <2>1, <3>1, <3>3 DEF Stays
    <3>4. CASE c.id = o.id /\ n = Closed(o)
      <4>1. n.id = 0
        BY <1>3, <3>1, <3>4, ClosedFields DEF Sound
      <4> QED  BY <2>2, <3>1, <3>4, <4>1, NoneGood DEF Stays
    <3> QED  BY <3>2, <3>3, <3>4
  <2>4. Held(mid, NoResult, server)
    <3>1. Held(mid, e, server)
      BY <2>1, <2>3, HeldStays
    <3> QED  BY <1>3, <3>1 DEF Held
  <2>5. rt.notifyResult.event # "none"
    BY <1>1, <1>3
  <2> QED  BY <1>4, <2>3, <2>4, <2>5, FreedOrderly
<1> QED  BY <1>2, <1>4, Served, ProcessOrderly

-----------------------------------------------------------------------------
(* The workers, the user, the clock and the service manager lose none *)

(* A step that leaves the entries, the tick and the service alone.          *)
LEMMA WorkOrderly ==
  ASSUME OInv, state' = state, clock' = clock, up' = up, exit' = exit,
         rt'.tick = rt.tick,
         \/ SameNotifier(rt, rt')
         \/ up = TRUE /\ rt.notifySlot # NoCommand,
         Quiet' => /\ Quiet /\ Unused(server')
                   /\ signals' \in Seq(Gone(server'))
                   /\ Orderly(state, rt', server', clock)
  PROVE  OInv'
<1>1. up' = FALSE => rt'.notifySlot = NoCommand /\ rt'.notifyResult = NoResult
  BY DEF OInv, SameNotifier
<1>2. ASSUME Quiet'
      PROVE  Serving'
  <2>1. Serving
    BY <1>2 DEF OInv
  <2>2. ASSUME up' = TRUE,
               \/ rt'.tick = FALSE \/ rt'.notifySlot # NoCommand
               \/ rt'.notifyResult # NoResult
        PROVE  Settle(state', clock') = state'
    BY <2>1, <2>2 DEF Serving, SameNotifier
  <2>3. Orderly(state', rt', server', clock')
    BY <1>2
  <2> QED  BY <1>2, <2>2, <2>3 DEF Serving
<1> QED  BY <1>1, <1>2 DEF OInv

LEMMA WorkersOrderly ==
  ASSUME IInv, OInv,
         CheckActivity \/ OpenMeeting \/ \E a \in Accounts : FetchCalendar(a)
  PROVE  OInv'
<1>1. /\ state' = state /\ clock' = clock /\ server' = server /\ up' = up
      /\ exit' = exit /\ signals' = signals /\ faults' = faults
  BY DEF CheckActivity, OpenMeeting, FetchCalendar
<1>2. rt'.tick = rt.tick /\ SameNotifier(rt, rt')
  BY WorkersSame
<1>3. Quiet' => /\ Quiet /\ Unused(server')
                /\ signals' \in Seq(Gone(server'))
                /\ Orderly(state, rt', server', clock)
  <2>1. SUFFICES ASSUME Quiet'
                 PROVE  /\ Quiet /\ Unused(server)
                        /\ signals \in Seq(Gone(server))
                        /\ Orderly(state, rt', server, clock)
    BY <1>1
  <2>2. Quiet
    BY <1>1, <2>1 DEF Quiet
  <2> QED  BY <1>2, <2>2, Served, SameGood
<1> QED  BY <1>1, <1>2, <1>3, WorkOrderly

(* A notification is shown: it replaces the one on screen, or its id is     *)
(* new.                                                                     *)
LEMMA AnswerShown ==
  ASSUME IInv, server.next =< MaxID + 1, ~ReusesID,
         NEW c, c = rt.notifySlot, c.kind \in {"notify", "warning"},
         NEW id \in AnswerIDs(c)
  PROVE  /\ id \in IDs
         /\ \/ id = server.next /\ ~Lit(c.id, server)
            \/ id = c.id /\ Lit(id, server)
<1>1. c.id # 0 => c.id \in IDs
  <2>1. SUFFICES ASSUME c.id # 0 PROVE c.id \in IDs
    OBVIOUS
  <2>2. c.kind = "notify"
    BY <2>1, Fields DEF RuntimeOK, NotifierOK, CommandOK
  <2>3. c.id < server.next /\ c.id \in Nat
    BY <2>2, Fields, Commands DEF Claims, SlotClaim, CommandType
  <2>4. server.next \in Nat /\ MaxID \in Nat
    BY BoundsAssumption, Fields DEF ServerType
  <2> QED  BY <2>1, <2>3, <2>4 DEF IDs
<1>2. CASE c.id # 0 /\ server.shown[c.id] = "yes"
  <2>1. id = c.id
    BY <1>2 DEF AnswerIDs
  <2> QED  BY <1>1, <1>2, <2>1 DEF Lit
<1>3. CASE ~(c.id # 0 /\ server.shown[c.id] = "yes")
  <2>1. id = server.next /\ id \in IDs
    BY <1>3 DEF AnswerIDs
  <2>2. ~Lit(c.id, server)
    BY <1>3, NoneGood DEF Lit
  <2> QED  BY <2>1, <2>2
<1> QED  BY <1>2, <1>3

LEMMA NotifyOrderly ==
  ASSUME IInv, SInv, OInv, ~ReusesID, CallNotify
  PROVE  OInv'
<1>1. PICK c : c = rt.notifySlot
  OBVIOUS
<1>2. /\ c.kind \in {"notify", "warning"} /\ state' = state /\ clock' = clock
      /\ up' = up /\ up = TRUE /\ exit' = exit /\ signals' = signals
  BY <1>1 DEF CallNotify, IInv, TypeOK
<1>3. rt.notifySlot # NoCommand /\ rt.notifyResult = NoResult
  <2>1. c # NoCommand
    BY <1>2 DEF NoCommand
  <2> QED  BY <1>1, <2>1, Fields DEF RuntimeOK, NotifierOK
<1>4. ASSUME Fault
      PROVE  ~Quiet'
  BY <1>4, FaultLoud DEF Quiet
<1>5. ASSUME NEW id \in AnswerIDs(c), Quiet', faults' = faults,
             server' = [shown |-> [server.shown EXCEPT ![id] = "yes"],
                        meeting |-> [server.meeting EXCEPT ![id] = c.meeting],
                        key |-> [server.key EXCEPT ![id] = c.key],
                        next |-> IF id = server.next THEN id + 1
                                                     ELSE server.next],
             Reported("delivered", id)
      PROVE  OInv'
  <2>1. /\ Quiet /\ Unused(server) /\ signals \in Seq(Gone(server))
        /\ Orderly(state, rt, server, clock)
    <3>1. Quiet
      BY <1>2, <1>5 DEF Quiet
    <3> QED  BY <3>1, Served
  <2>2. /\ id \in IDs
        /\ \/ id = server.next /\ ~Lit(c.id, server)
           \/ id = c.id /\ Lit(id, server)
    BY <1>1, <1>2, AnswerShown DEF SInv
  <2>3. PICK v : v = server'
    OBVIOUS
  <2>4. PICK next : next = IF id = server.next THEN id + 1 ELSE server.next
    OBVIOUS
  <2>5. /\ v.shown = [server.shown EXCEPT ![id] = "yes"]
        /\ v.key = [server.key EXCEPT ![id] = c.key] /\ v.next = next
    BY <1>5, <2>3, <2>4
  <2>6. /\ server.shown \in [IDs -> {"no", "yes", "history"}]
        /\ server.key \in [IDs -> Keys \cup {0}] /\ server.next \in Nat
    BY Fields DEF ServerType
  <2>7. /\ v.shown[id] = "yes" /\ v.key[id] = c.key
        /\ \A i \in IDs : i # id =>
             v.shown[i] = server.shown[i] /\ v.key[i] = server.key[i]
    BY <2>2, <2>5, <2>6
  <2>8. /\ next \in Nat /\ next >= server.next /\ id < next
    BY <1>1, <1>2, <2>4, AnswerClaims
  <2>9. Lit(id, v) /\ \A i : i # id => (Lit(i, v) <=> Lit(i, server))
    BY <2>2, <2>7 DEF Lit
  <2>10. Unused(v)
    <3>1. ASSUME NEW i \in IDs, i >= v.next
          PROVE  v.shown[i] = "no"
      <4>1. i \in Nat /\ id \in Nat
        BY <2>2, BoundsAssumption DEF IDs
      <4>2. i # id /\ i >= server.next
        BY <2>5, <2>6, <2>8, <3>1, <4>1
      <4> QED  BY <2>1, <2>7, <4>2 DEF Unused
    <3> QED  BY <3>1 DEF Unused
  <2>11. signals \in Seq(Gone(v))
    <3>1. ASSUME NEW e \in Gone(server)
          PROVE  e \in Gone(v)
      <4>1. /\ e \in [name: {"join", "closed"}, id: Nat]
            /\ e.id < server.next /\ ~Lit(e.id, server)
        BY <3>1 DEF Gone
      <4>2. e.id # id
        BY <2>2, <2>6, <4>1
      <4>3. ~Lit(e.id, v)
        BY <2>9, <4>1, <4>2
      <4>4. e.id < v.next
        BY <2>5, <2>6, <2>8, <4>1
      <4> QED  BY <4>1, <4>3, <4>4 DEF Gone
    <3> QED  BY <2>1, <3>1, GoneSignals
  <2>12. /\ rt'.tick = rt.tick /\ rt'.notifySlot = NoCommand
         /\ rt'.notifyResult.event = "delivered" /\ rt'.notifyResult.id = id
         /\ rt'.notifyResult.command = c
    <3>1. rt'.tick = rt.tick /\ rt'.notifySlot = NoCommand
          /\ rt'.notifyResult
               = [event |-> "delivered", command |-> c, id |-> id]
      BY <1>1, <1>5, ReportScreen
    <3> QED  BY <3>1
  <2>13. \A k \in Keys : Good(state.occurrences[k], rt'.tick, v, clock)
    <3>1. ASSUME NEW k \in Keys
          PROVE  Good(state.occurrences[k], rt.tick, v, clock)
      <4>1. PICK o : o = state.occurrences[k]
        OBVIOUS
      <4>2. Good(o, rt.tick, server, clock)
        BY <2>1, <4>1 DEF Orderly
      <4>3. o.id \in Nat /\ o.id < server.next
        BY <4>1, EntryFields DEF IInv, Claims, IDsBelow
      <4>4. Lit(o.id, v) => Lit(o.id, server)
        BY <2>2, <2>6, <2>9, <4>3
      <4> QED  BY <4>1, <4>2, <4>4 DEF Good
    <3> QED  BY <2>12, <3>1
  <2>14. Held(state, rt'.notifyResult, v)
    <3>1. ASSUME NEW i \in IDs, Lit(i, v), v.key[i] # 0, i # id
          PROVE  \E k \in Keys : state.occurrences[k].id = i
      <4>1. Lit(i, server) /\ server.key[i] # 0
        BY <2>7, <2>9, <3>1
      <4>2. Held(state, NoResult, server) /\ NoResult.event = "none"
        BY <1>3, <2>1, AnsweredNone DEF Orderly
      <4> QED  BY <4>1, <4>2 DEF Held
    <3> QED  BY <2>12, <3>1 DEF Held
  <2>15. Answered(rt'.notifyResult, v)
    <3>1. id # c.id => ~Lit(c.id, v)
      BY <2>2, <2>9
    <3> QED  BY <2>7, <2>12, <3>1 DEF Answered
  <2>16. Bound(rt'.notifySlot, v.next) /\ Bound(rt'.notifyResult.command, v.next)
    <3>1. Bound(c, v.next)
      BY <1>1, <1>2, <2>1 DEF Orderly, Bound
    <3> QED  BY <2>12, <3>1, AnsweredNone
  <2>17. Orderly(state, rt', v, clock)
    BY <2>13, <2>14, <2>15, <2>16 DEF Orderly
  <2> QED  BY <1>2, <1>3, <2>1, <2>3, <2>10, <2>11, <2>12, <2>17, WorkOrderly
<1>6. ASSUME Quiet', faults' = faults, server' = server, AnswerIDs(c) = {},
             Reported("failed", 0)
      PROVE  OInv'
  <2>1. /\ Quiet /\ Unused(server) /\ signals \in Seq(Gone(server))
        /\ Orderly(state, rt, server, clock)
    <3>1. Quiet
      BY <1>2, <1>6 DEF Quiet
    <3> QED  BY <3>1, Served
  <2>2. /\ rt'.tick = rt.tick /\ rt'.notifySlot = NoCommand
        /\ rt'.notifyResult.event = "failed" /\ rt'.notifyResult.command = c
    <3>1. rt'.tick = rt.tick /\ rt'.notifySlot = NoCommand
          /\ rt'.notifyResult = [event |-> "failed", command |-> c, id |-> 0]
      BY <1>1, <1>6, ReportScreen
    <3> QED  BY <3>1
  <2>3. ~Lit(c.id, server)
    BY <1>6, NoneGood DEF AnswerIDs, Lit
  <2>4. Held(state, rt'.notifyResult, server)
    <3>1. Held(state, NoResult, server) /\ NoResult.event = "none"
      BY <1>3, <2>1, AnsweredNone DEF Orderly
    <3> QED  BY <3>1 DEF Held
  <2>5. Answered(rt'.notifyResult, server)
    BY <1>2, <2>2, <2>3 DEF Answered
  <2>6. /\ Bound(rt'.notifySlot, server.next)
        /\ Bound(rt'.notifyResult.command, server.next)
    <3>1. Bound(c, server.next)
      BY <1>1, <2>1 DEF Orderly
    <3> QED  BY <2>2, <3>1, AnsweredNone
  <2>7. Orderly(state, rt', server, clock)
    BY <2>1, <2>2, <2>4, <2>5, <2>6 DEF Orderly
  <2> QED  BY <1>2, <1>3, <1>6, <2>1, <2>2, <2>7, WorkOrderly
<1>7. CASE ~Quiet'
  <2>1. rt'.tick = rt.tick
    BY ReportScreen DEF CallNotify
  <2> QED  BY <1>2, <1>3, <1>7, <2>1, WorkOrderly
<1> QED  BY <1>1, <1>4, <1>5, <1>6, <1>7 DEF CallNotify

LEMMA CloseOrderly ==
  ASSUME IInv, OInv, CallClose
  PROVE  OInv'
<1>1. PICK c : c = rt.notifySlot
  OBVIOUS
<1>2. /\ c.kind = "close" /\ state' = state /\ clock' = clock
      /\ up' = up /\ up = TRUE /\ exit' = exit
  BY <1>1 DEF CallClose, IInv, TypeOK
<1>3. rt.notifySlot # NoCommand /\ rt.notifyResult = NoResult
  <2>1. c # NoCommand
    BY <1>2 DEF NoCommand
  <2> QED  BY <1>1, <2>1, Fields DEF RuntimeOK, NotifierOK
<1>4. rt'.tick = rt.tick
  BY ReportScreen DEF CallClose
<1>5. ASSUME Quiet'
      PROVE  /\ Quiet /\ Unused(server') /\ signals' \in Seq(Gone(server'))
             /\ Orderly(state, rt', server', clock)
  <2>1. ~Fault
    BY <1>5, FaultLoud DEF Quiet
  <2>2. /\ Reported("completed", c.id) /\ faults' = faults
        /\ server' = Withdraw(c.id)
        /\ \/ signals' = signals
           \/ signals' = Append(signals, Signal("closed", c.id))
    BY <1>1, <2>1 DEF CallClose
  <2>3. /\ Quiet /\ Unused(server) /\ signals \in Seq(Gone(server))
        /\ Orderly(state, rt, server, clock)
    <3>1. Quiet
      BY <1>2, <1>5, <2>2 DEF Quiet
    <3> QED  BY <3>1, Served
  <2>4. Darker(server, server') /\ ~Lit(c.id, server')
    BY <2>2, DarkerOff
  <2>5. Bound(c, server'.next)
    BY <1>1, <2>3, <2>4 DEF Orderly, Darker
  <2>6. Unused(server') /\ signals \in Seq(Gone(server'))
    BY <2>3, <2>4, DarkerUnused, GoneSignals
  <2>7. signals' \in Seq(Gone(server'))
    <3>1. c.id \in Nat /\ c.id < server'.next
      BY <1>1, <1>2, <2>5, Fields, Commands DEF Bound, CommandType
    <3>2. Signal("closed", c.id) \in Gone(server')
      BY <2>4, <3>1 DEF Signal, Gone
    <3> QED  BY <2>2, <2>6, <3>2
  <2>8. /\ rt'.notifySlot = NoCommand
        /\ rt'.notifyResult.event = "completed" /\ rt'.notifyResult.command = c
    <3>1. /\ rt'.notifySlot = NoCommand
          /\ rt'.notifyResult
               = [event |-> "completed", command |-> c, id |-> c.id]
      BY <1>1, <2>2, ReportScreen
    <3> QED  BY <3>1
  <2>9. Orderly(state, rt, server', clock)
    BY <2>3, <2>4, DarkerOrderly
  <2>10. Held(state, rt'.notifyResult, server')
    <3>1. Held(state, NoResult, server') /\ NoResult.event = "none"
      BY <1>3, <2>9, AnsweredNone DEF Orderly
    <3> QED  BY <3>1 DEF Held
  <2>11. Answered(rt'.notifyResult, server')
    BY <2>4, <2>8 DEF Answered
  <2>12. Orderly(state, rt', server', clock)
    BY <1>4, <2>5, <2>8, <2>9, <2>10, <2>11, AnsweredNone DEF Orderly
  <2> QED  BY <2>3, <2>6, <2>7, <2>12
<1> QED  BY <1>2, <1>3, <1>4, <1>5, WorkOrderly

(* An entry that waits, and does not expire, is for a meeting to come.      *)
LEMMA ExpireMoves ==
  ASSUME NEW o, Legit(o), o.phase = "notify-pending", NEW at,
         o = ExpireNotifyPending(o, at)
  PROVE  o.meeting.start > at
<1>1. SUFFICES ASSUME ~(o.meeting.start > at) PROVE FALSE
  OBVIOUS
<1>2. o \in OccurrenceType
  BY LegitType
<1>3. CASE o.id = 0
  <2>1. o = NoEntry
    BY <1>1, <1>3 DEF ExpireNotifyPending
  <2>2. NoEntry.phase = "absent"
    BY DEF NoEntry
  <2> QED  BY <2>1, <2>2
<1>4. CASE o.id # 0
  <2>1. o = BeginClose(o, "expired", "")
    BY <1>1, <1>4 DEF ExpireNotifyPending
  <2>2. BeginClose(o, "expired", "").phase = "close-pending"
    BY <1>2 DEF BeginClose, OccurrenceType
  <2> QED  BY <2>1, <2>2
<1> QED  BY <1>3, <1>4

LEMMA NotifyTimes ==
  ASSUME NEW o, Legit(o)
  PROVE  o.meeting.start \in Nat /\ o.notBefore \in Nat
<1>1. /\ o.meeting \in Meetings \cup {NoMeeting} /\ o.notBefore \in Nat
  <2>1. o \in OccurrenceType
    BY LegitType
  <2> QED  BY <2>1 DEF OccurrenceType
<1>2. NoMeeting.start = 0
  BY DEF NoMeeting
<1>3. \A m \in Meetings : m.start \in Nat
  BY MeetingsAssumption DEF MeetingType
<1> QED  BY <1>1, <1>2, <1>3

(* The user, who takes a notification off the screen or acts on one that    *)
(* has left it.                                                             *)
LEMMA UserOrderly ==
  ASSUME IInv, OInv, NEW id \in IDs, Dismiss(id) \/ Click(id)
  PROVE  OInv'
<1>1. /\ state' = state /\ clock' = clock /\ up' = up /\ exit' = exit
      /\ rt' = rt /\ faults' = faults
  BY DEF Dismiss, Click, Emit
<1>2. PICK sent \in {<<Signal("closed", id)>>, <<Signal("join", id)>>,
                     <<Signal("join", id), Signal("closed", id)>>} :
        signals' = signals \o sent \/ signals' = signals
  BY DEF Dismiss, Click, Emit
<1>3. /\ server.shown[id] # "no"
      /\ Darker(server, server') /\ ~Lit(id, server')
  <2>1. CASE server.shown[id] = "yes" /\ server' = Archive(id)
    BY <2>1, DarkerHistory
  <2>2. CASE server.shown[id] = "history" /\ server' = server
    BY <2>2 DEF Darker, Lit
  <2> QED  BY <2>1, <2>2 DEF Dismiss, Click
<1>4. ASSUME Quiet'
      PROVE  /\ Quiet /\ Unused(server') /\ signals' \in Seq(Gone(server'))
             /\ Orderly(state, rt', server', clock)
  <2>1. /\ Quiet /\ Unused(server) /\ signals \in Seq(Gone(server))
        /\ Orderly(state, rt, server, clock)
    <3>1. Quiet
      BY <1>1, <1>4 DEF Quiet
    <3> QED  BY <3>1, Served
  <2>2. Unused(server') /\ signals \in Seq(Gone(server'))
    BY <1>3, <2>1, DarkerUnused, GoneSignals
  <2>3. sent \in Seq(Gone(server'))
    <3>1. id \in Nat /\ server.next \in Nat
      BY BoundsAssumption, Fields DEF IDs, ServerType
    <3>2. id < server'.next
      BY <1>3, <2>1, <3>1 DEF Unused, Darker
    <3>3. PICK a, b : a = Signal("closed", id) /\ b = Signal("join", id)
      OBVIOUS
    <3>4. a \in Gone(server') /\ b \in Gone(server')
      BY <1>3, <3>1, <3>2, <3>3 DEF Signal, Gone
    <3>5. sent = <<a>> \/ sent = <<b>> \/ sent = <<b, a>>
      BY <1>2, <3>3
    <3>6. /\ <<a>> \in Seq(Gone(server')) /\ <<b>> \in Seq(Gone(server'))
          /\ <<b, a>> \in Seq(Gone(server'))
      BY <3>4
    <3> QED  BY <3>5, <3>6
  <2>4. signals' \in Seq(Gone(server'))
    BY <1>2, <2>2, <2>3, BothSignals
  <2>5. Orderly(state, rt, server', clock)
    BY <1>3, <2>1, DarkerOrderly
  <2> QED  BY <1>1, <2>1, <2>2, <2>4, <2>5
<1> QED  BY <1>1, <1>4, WorkOrderly DEF SameNotifier

LEMMA CrashOrderly ==
  ASSUME IInv, Crash
  PROVE  OInv'
<1>1. Stop("crash") /\ faults' # 0
  BY FaultLoud DEF Crash
<1> QED  BY <1>1, StopLoud DEF Quiet

(* Time passes.  No Notify is due that has not been made: a notification    *)
(* that one is to replace is still on screen only while the service is      *)
(* down.                                                                    *)
LEMMA AdvanceOrderly ==
  ASSUME IInv, WInv, OInv, Prompt, Advance
  PROVE  OInv'
<1>1. /\ Idle /\ rt' = [rt EXCEPT !.tick = up] /\ clock' = clock + 1
      /\ state' = state /\ server' = server /\ up' = up /\ exit' = exit
      /\ signals' = signals /\ faults' = faults
  BY DEF Advance
<1>2. SameNotifier(rt, rt') /\ rt'.tick = up
  BY <1>1, Fields DEF SameNotifier, RuntimeType
<1>3. /\ rt.tick = FALSE /\ rt.notifierBusy = FALSE
      /\ rt.notifySlot = NoCommand /\ rt.notifyResult = NoResult
  BY <1>1, Fields DEF Idle, RuntimeType, WInv, Covered
<1>4. ASSUME Quiet'
      PROVE  Serving'
  <2>1. Quiet
    BY <1>1, <1>4 DEF Quiet
  <2>2. /\ Unused(server) /\ signals \in Seq(Gone(server))
        /\ Orderly(state, rt, server, clock) /\ up \in BOOLEAN
        /\ up = TRUE => Settle(state, clock) = state
    BY <1>3, <2>1 DEF OInv, Serving, IInv, TypeOK
  <2>3. ASSUME NEW k \in Keys
        PROVE  Good(state.occurrences[k], rt'.tick, server, clock')
    <3>1. PICK o : o = state.occurrences[k]
      OBVIOUS
    <3>2. Good(o, FALSE, server, clock) /\ Sound(state) /\ clock \in Nat
      BY <1>3, <2>2, <3>1, Times DEF Orderly, IInv
    <3>3. CASE o.phase # "notify-pending" \/ ~Lit(o.id, server)
      BY <3>1, <3>2, <3>3 DEF Good
    <3>4. CASE o.phase = "notify-pending" /\ Lit(o.id, server)
      <4>1. o.notBefore =< clock /\ o.meeting.start - clock =< LeadTime
        BY <3>2, <3>4 DEF Good
      <4>2. o.meeting.start \in Nat /\ o.notBefore \in Nat /\ LeadTime \in Nat
        BY <3>1, <3>2, NotifyTimes, LeadTimeAssumption DEF Sound
      <4>3. up = FALSE
        <5>1. SUFFICES ASSUME up = TRUE PROVE FALSE
          BY <2>2
        <5>2. o.meeting.start > clock
          <6>1. o = Settle(state, clock).occurrences[k]
            BY <2>2, <3>1, <5>1
          <6>2. o = ExpireNotifyPending(o, clock)
            BY <3>1, <3>2, <6>1 DEF Settle, Sound, StateType
          <6> QED  BY <3>1, <3>2, <3>4, <6>2, ExpireMoves DEF Sound
        <5>3. NotifyReady(o, clock)
          BY <3>4, <4>1, <5>2 DEF NotifyReady, Due
        <5>4. NotificationKeys(state, clock) = {}
          BY <1>3, <5>1 DEF WInv, Awake
        <5> QED  BY <3>1, <5>3, <5>4 DEF NotificationKeys
      <4>4. o.notBefore =< clock + 1 /\ o.meeting.start - (clock + 1) =< LeadTime
        BY <3>2, <4>1, <4>2
      <4> QED  BY <1>1, <1>2, <3>1, <3>4, <4>3, <4>4 DEF Good
    <3> QED  BY <3>3, <3>4
  <2>4. Orderly(state', rt', server', clock')
    BY <1>1, <1>2, <2>2, <2>3 DEF Orderly, SameNotifier
  <2>5. ~(/\ up' = TRUE
          /\ \/ rt'.tick = FALSE \/ rt'.notifySlot # NoCommand
             \/ rt'.notifyResult # NoResult)
    BY <1>1, <1>2, <1>3 DEF SameNotifier
  <2> QED  BY <1>1, <2>2, <2>4, <2>5 DEF Serving
<1>5. rt'.notifySlot = NoCommand /\ rt'.notifyResult = NoResult
  BY <1>2, <1>3 DEF SameNotifier
<1> QED  BY <1>1, <1>4, <1>5 DEF OInv

LEMMA NormalizeTimes ==
  ASSUME NEW s, Sound(s), NEW k \in Keys,
         NEW o, o = s.occurrences[k],
         NEW n, n = NormalizeLegacy(s).occurrences[k]
  PROVE  n.notBefore = o.notBefore
<1>1. o \in OccurrenceType /\ s \in StateType
  BY LegitType DEF Sound
<1>2. PICK i, j : n = [o EXCEPT !.notifyRevision = i, !.joinRevision = j]
  BY <1>1 DEF NormalizeLegacy, StateType
<1> QED  BY <1>1, <1>2 DEF OccurrenceType

(* The service starts. *)
LEMMA RestartOrderly ==
  ASSUME IInv, IInv', OInv, Restart
  PROVE  OInv'
<1>1. PICK t : t = NormalizeLegacy(state)
  OBVIOUS
<1>2. PICK s : s = Settle(t, clock)
  OBVIOUS
<1>3. PICK r : r = SchedulePolls(Boot, clock)
  OBVIOUS
<1>4. PICK n : n = ScheduleDurable(r, s, clock, {})
  OBVIOUS
<1>5. /\ state' = s /\ rt' = n /\ clock' = clock /\ server' = server
      /\ up' = TRUE /\ up = FALSE /\ exit # "exhausted" /\ exit' = exit
      /\ faults' = faults /\ signals' = signals
  BY <1>1, <1>2, <1>3, <1>4 DEF Restart, IInv, TypeOK
<1>6. Sound(state) /\ Sound(t) /\ Sound(s) /\ clock \in Nat
  <2>1. Sound(state) /\ Fits(state) /\ clock \in Nat
    BY Times DEF IInv, TypeOK, WidthsOK, Fits
  <2>2. Sound(t)
    BY <1>1, <2>1, NormalizeSound
  <2> QED  BY <1>2, <2>1, <2>2, SettleSound
<1>7. RuntimeOK(r) /\ r.notifySlot = NoCommand /\ r.notifyResult = NoResult
      /\ r.tick = FALSE
  <2>1. /\ Boot.notifySlot = NoCommand /\ Boot.notifyResult = NoResult
        /\ Boot.tick = FALSE
    BY DEF Boot
  <2>2. RuntimeOK(r) /\ SameNotifier(Boot, r)
    BY <1>3, BootOK, SchedulePollsOK
  <2>3. Boot \in RuntimeType
    BY BootOK DEF RuntimeOK
  <2>4. r.tick = Boot.tick
    BY <1>3, <2>3 DEF SchedulePolls, RuntimeType
  <2> QED  BY <2>1, <2>2, <2>4 DEF SameNotifier
<1>8. ASSUME Quiet'
      PROVE  Serving'
  <2>1. Quiet
    BY <1>5, <1>8 DEF Quiet
  <2>2. /\ Unused(server) /\ signals \in Seq(Gone(server))
        /\ Orderly(state, rt, server, clock) /\ rt.notifyResult = NoResult
    BY <1>5, <2>1, Served DEF OInv
  <2>3. ASSUME NEW k \in Keys
        PROVE  /\ Stays(state.occurrences[k], s.occurrences[k], server)
               /\ Good(s.occurrences[k], FALSE, server, clock)
    <3>1. PICK o, p : o = state.occurrences[k] /\ p = t.occurrences[k]
      OBVIOUS
    <3>2. Good(o, FALSE, server, clock)
      BY <2>2, <3>1 DEF Orderly, Good
    <3>3. /\ p.phase = o.phase /\ p.id = o.id /\ p.meeting = o.meeting
          /\ p.notBefore = o.notBefore
      BY <1>1, <1>6, <3>1, NormalizeRests, NormalizeTimes
    <3>4. Good(p, FALSE, server, clock)
      BY <3>2, <3>3 DEF Good
    <3>5. PICK n1 : n1 = Settle(t, clock).occurrences[k]
      OBVIOUS
    <3>6. Stays(p, n1, server) /\ Good(n1, FALSE, server, clock)
      <4>1. n1 = p \/ Expired(p, n1, clock)
        BY <1>6, <3>1, <3>5, SettleAt
      <4> QED  BY <3>4, <4>1, NoneGood DEF Stays, Good, Expired
    <3> QED  BY <1>2, <3>1, <3>3, <3>5, <3>6 DEF Stays
  <2>4. Held(s, NoResult, server)
    BY <2>2, <2>3, HeldStays DEF Orderly
  <2>5. Orderly(s, r, server, clock)
    BY <1>7, <2>3, <2>4, AnsweredNone DEF Orderly
  <2>6. IDsBelow(s, server.next)
    BY <1>5 DEF IInv, Claims
  <2>7. Follows(r, n, s, clock)
    BY <1>4, <1>6, <1>7, ScheduleDurableFollows
  <2>8. Orderly(s, n, server, clock)
    BY <2>5, <2>6, <2>7, FollowsOrderly
  <2>9. Settle(s, clock) = s
    BY <1>2, <1>6, SettleTwice
  <2>10. Settle(state', clock') = state' /\ Orderly(state', rt', server', clock')
    BY <1>5, <2>8, <2>9
  <2> QED  BY <1>5, <2>2, <2>10 DEF Serving
<1> QED  BY <1>5, <1>8 DEF OInv

-----------------------------------------------------------------------------
(* The theorem *)

LEMMA InitOrderly == Init => OInv
<1> SUFFICES ASSUME Init PROVE OInv
  OBVIOUS
<1>1. /\ rt = Boot /\ state = NewState /\ signals = <<>> /\ up = FALSE
      /\ server.shown = [i \in IDs |-> "no"]
  BY DEF Init
<1>2. /\ Boot.notifySlot = NoCommand /\ Boot.notifyResult = NoResult
  BY DEF Boot
<1>3. \A id : ~Lit(id, server)
  BY <1>1 DEF Lit
<1>4. Unused(server)
  BY <1>1 DEF Unused
<1>5. \A k \in Keys : Good(state.occurrences[k], rt.tick, server, clock)
  BY <1>3 DEF Good
<1>6. Held(state, rt.notifyResult, server)
  BY <1>3 DEF Held
<1>7. Orderly(state, rt, server, clock)
  BY <1>1, <1>2, <1>5, <1>6, AnsweredNone DEF Orderly
<1> QED  BY <1>1, <1>2, <1>4, <1>7 DEF OInv, Serving

LEMMA NextOrderly ==
  ASSUME IInv, IInv', WInv, SInv, OInv, Prompt, ~ReusesID, [Next]_vars
  PROVE  OInv'
<1>1. CASE Handle
  <2>1. \/ HandleTick \/ HandleActivity \/ HandleLaunch
        \/ \E a \in Accounts : HandlePoll(a)
        \/ HandleDelivered \/ HandleFailed \/ HandleCompleted \/ HandleSignal
    BY <1>1 DEF Handle
  <2> QED  BY <2>1, TickOrderly, ActivityOrderly, LaunchOrderly, PollOrderly,
              DeliveredOrderly, FailedOrderly, CompletedOrderly, SignalOrderly
<1>2. CASE Work
  <2>1. \/ CheckActivity \/ OpenMeeting
        \/ \E a \in Accounts : FetchCalendar(a)
        \/ CallNotify \/ CallClose
    BY <1>2 DEF Work
  <2> QED  BY <2>1, WorkersOrderly, NotifyOrderly, CloseOrderly
<1>3. CASE Crash
  BY <1>3, CrashOrderly
<1>4. CASE Restart
  BY <1>4, RestartOrderly
<1>5. CASE Advance
  BY <1>5, AdvanceOrderly
<1>6. CASE \E id \in IDs : Dismiss(id) \/ Click(id)
  BY <1>6, UserOrderly
<1>7. CASE Horizon \/ UNCHANGED vars
  <2>1. /\ state' = state /\ clock' = clock /\ rt' = rt /\ server' = server
        /\ up' = up /\ exit' = exit /\ signals' = signals /\ faults' = faults
    BY <1>7 DEF Horizon, vars
  <2>2. Quiet' => Quiet
    BY <2>1 DEF Quiet
  <2> QED  BY <2>1, <2>2, Served, WorkOrderly DEF SameNotifier
<1> QED  BY <1>1, <1>2, <1>3, <1>4, <1>5, <1>6, <1>7 DEF Next

LEMMA OrderHolds ==
  Spec => [](/\ IInv /\ WInv /\ (Regular => SInv)
             /\ (Regular /\ ~ReusesID => OInv))
<1> DEFINE Inv == /\ IInv /\ WInv /\ (Regular => SInv)
                  /\ (Regular /\ ~ReusesID => OInv)
<1>1. Init => Inv
  BY InitInv, InitWakes, InitScreen, InitOrderly
<1>2. Inv /\ [Next]_vars => Inv'
  <2>1. IInv /\ WInv /\ [Next]_vars => IInv' /\ WInv'
    BY NextInv, NextWakes
  <2>2. IInv /\ WInv /\ (Regular => SInv) /\ [Next]_vars => (Regular => SInv')
    BY NextScreen DEF Regular
  <2>3. Inv /\ [Next]_vars => (Regular /\ ~ReusesID => OInv')
    BY <2>1, NextOrderly DEF Regular
  <2>4. Inv' <=> /\ IInv' /\ WInv' /\ (Regular => SInv')
                 /\ (Regular /\ ~ReusesID => OInv')
    BY DEF Regular, EndsAfterStart
  <2> QED  BY <2>1, <2>2, <2>3, <2>4
<1> QED  BY <1>1, <1>2, PTL DEF Spec

(* A quiet run loses no notification: every meeting notification on screen   *)
(* has an entry, or its delivery is about to be recorded.                    *)
THEOREM NothingIsOrphaned ==
  Spec => [](Regular /\ ~ReusesID => NothingOrphaned)
<1>1. ASSUME OInv PROVE NothingOrphaned
  <2>1. SUFFICES ASSUME Quiet, NEW id \in IDs, server.shown[id] = "yes",
                        server.key[id] # 0
                 PROVE  Owner(id) # {} \/ InFlight(id)
    BY DEF NothingOrphaned, Quiet
  <2>2. \/ \E k \in Keys : state.occurrences[k].id = id
        \/ rt.notifyResult.event = "delivered" /\ rt.notifyResult.id = id
    BY <1>1, <2>1 DEF OInv, Serving, Orderly, Held, Lit
  <2> QED  BY <2>2 DEF Owner, InFlight
<1>2. /\ IInv /\ WInv /\ (Regular => SInv)
      /\ (Regular /\ ~ReusesID => OInv)
      => (Regular /\ ~ReusesID => NothingOrphaned)
  BY <1>1
<1> QED  BY <1>2, OrderHolds, PTL
=============================================================================
