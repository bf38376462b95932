------------------------------- MODULE Daemon -------------------------------
(***************************************************************************)
(* The running service: the owner loop (daemon.go), the runtime that feeds *)
(* its workers through busy flags and one-place command slots (runtime.go, *)
(* runtime_schedule.go), the workers (workers.go), the notification client *)
(* (notifications/client.go), and around them the notification server, the *)
(* user, the clock and the service manager.                                *)
(*                                                                         *)
(* The loop handles one event to its end: reduce, save, acknowledge,       *)
(* dispatch.  No other goroutine writes what it reads meanwhile, so one    *)
(* event is one action; memory and state.json agree whenever it waits, so  *)
(* `state' is both.  A worker has two steps that others can come between:  *)
(* it takes a command from its slot and performs the call, and it hands    *)
(* the result, stamped when the call ended, to the loop.                   *)
(***************************************************************************)
EXTENDS Lifecycle

CONSTANTS
  MaxTime,     \* the clock runs from 1 to MaxTime
  MaxID,       \* the server shows at most MaxID notifications
  MaxSignals,  \* D-Bus signals in flight (rawSignalCapacity in the code)
  MaxFaults,   \* crashes, failed saves, failed or ambiguous calls
  Prompt,      \* calls and the loop keep up with the clock (see Advance)
  ReusesID,    \* the server may show again under an id that left the screen
  PollItems,   \* what a poll can say of one key
  Hosts,       \* the contents whose URL the policy accepts
  ErrorKinds   \* the poll failures that occur

ASSUME BoundsAssumption ==
  /\ MaxTime \in Nat \ {0} /\ MaxID \in Nat /\ MaxSignals \in Nat
  /\ MaxFaults \in Nat /\ ReusesID \in BOOLEAN /\ Prompt \in BOOLEAN
  /\ PollItems \subseteq PollItemType /\ ErrorKinds \subseteq PollErrorKinds
  /\ Generations # {}

(* A listed event has a meeting, an observation a reason (calendar.Source). *)
ASSUME PollItemsAssumption ==
  \A item \in PollItems : GoodItem(item)

VARIABLES
  clock,    \* the time
  state,    \* storage.State, in memory and on disk
  up,       \* the service is running
  exit,     \* why it last stopped
  rt,       \* Runtime: flags, retries, command slots, results on their way
  server,   \* the notification server
  signals,  \* the signals it sent that the client has not forwarded
  opens,    \* opens[k]: how often the launcher opened occurrence k
  clicks,   \* clicks[k]: how often a click on k became join-pending
  faults,   \* faults so far
  stops     \* how often the service has stopped

vars == <<clock, state, up, exit, rt, server, signals, opens, clicks, faults,
          stops>>

IDs == 1..MaxID

-----------------------------------------------------------------------------
(* Commands and results *)

(* notifications.Command; meeting is what the request shows. *)
CommandType ==
  [kind: {"none", "notify", "close", "warning"}, key: Keys \cup {0},
   account: Accounts \cup {0}, revision: Nat, id: Nat,
   meeting: Meetings \cup {NoMeeting}]

NoCommand == [kind |-> "none", key |-> 0, account |-> 0, revision |-> 0,
              id |-> 0, meeting |-> NoMeeting]

(* What the client reports of a command: its event kind and the id. *)
NotifyResultType ==
  [event: {"none", "delivered", "failed", "completed"},
   command: CommandType, id: Nat]

NoResult == [event |-> "none", command |-> NoCommand, id |-> 0]

(* A launch: the key, its join revision and the meeting to open. *)
NoLaunch == [key |-> 0, revision |-> 0, meeting |-> NoMeeting]
NoLaunchResult == [launch |-> NoLaunch, ok |-> FALSE, at |-> 0]

NoPoll == [at |-> 0, kind |-> "", items |-> <<>>]

(* NewRuntime: nothing busy, every slot empty.  tick is a tick of the       *)
(* ticker not yet handled, activityStale stands for activityChecked #       *)
(* activityGeneration, which Runtime.start establishes.                     *)
Boot ==
  [tick |-> FALSE,
   activityBusy |-> FALSE, notifierBusy |-> FALSE, launcherBusy |-> FALSE,
   pollBusy |-> {}, activityStale |-> TRUE,
   retries |-> [a \in Accounts |-> [attempt |-> 0, next |-> 0]],
   activitySlot |-> FALSE, activityResult |-> [at |-> 0, announce |-> FALSE],
   notifySlot |-> NoCommand, notifyResult |-> NoResult,
   launchSlot |-> NoLaunch, launchResult |-> NoLaunchResult,
   pollSlot |-> {}, pollResult |-> [a \in Accounts |-> NoPoll],
   full |-> FALSE]

-----------------------------------------------------------------------------
(* Runtime.dispatch: skip while the worker is busy, else fill its slot;     *)
(* full records ErrCommandSlotFull.                                         *)

DispatchActivity(r) ==
  IF r.activityBusy THEN r
  ELSE [r EXCEPT !.activityBusy = TRUE, !.activityStale = FALSE,
                 !.activitySlot = TRUE, !.full = @ \/ r.activitySlot]

DispatchNotifier(r, command) ==
  IF r.notifierBusy THEN r
  ELSE [r EXCEPT !.notifierBusy = TRUE, !.notifySlot = command,
                 !.full = @ \/ r.notifySlot # NoCommand]

(* Mutant: the busy flag is not looked at. *)
DispatchLaunchWhileBusy(r, launch) ==
  [r EXCEPT !.launcherBusy = TRUE, !.launchSlot = launch,
            !.full = @ \/ r.launchSlot # NoLaunch]

DispatchLaunch(r, launch) ==
  IF r.launcherBusy THEN r
  ELSE [r EXCEPT !.launcherBusy = TRUE, !.launchSlot = launch,
                 !.full = @ \/ r.launchSlot # NoLaunch]

(* schedulePolls; the send into a full slot would block the loop. *)
SchedulePolls(r, at) ==
  LET ready == {a \in Accounts \ r.pollBusy : r.retries[a].next =< at} IN
  [r EXCEPT !.pollBusy = @ \cup ready, !.pollSlot = @ \cup ready,
            !.full = @ \/ ready \cap r.pollSlot # {}]

NotificationCommand(s, k) ==
  LET o == s.occurrences[k] IN
  IF o.phase = "notify-pending"
    THEN [NoCommand EXCEPT !.kind = "notify", !.key = k, !.id = o.id,
                           !.revision = o.notifyRevision,
                           !.meeting = o.meeting]
    ELSE [NoCommand EXCEPT !.kind = "close", !.key = k, !.id = o.id]

WarningCommand(s, a) ==
  [NoCommand EXCEPT !.kind = "warning", !.account = a,
                    !.revision = s.pendingAuthWarnings[a].revision]

(* The notification effect of one event: a warning this event created,      *)
(* else the oldest occurrence that is ready, else the oldest warning.       *)
NextNotification(s, at, created) ==
  CASE created # {} ->
         WarningCommand(s, CHOOSE a \in created : TRUE)
    [] created = {} /\ NotificationKeys(s, at) # {} ->
         NotificationCommand(s, Oldest(s, NotificationKeys(s, at)))
    [] created = {} /\ NotificationKeys(s, at) = {}
       /\ WarningAccounts(s, at) # {} ->
         WarningCommand(s, OldestWarning(s, at))
    [] OTHER -> NoCommand

NextLaunch(s) ==
  LET k == Oldest(s, LaunchKeys(s)) IN
  [key |-> k, revision |-> s.occurrences[k].joinRevision,
   meeting |-> s.occurrences[k].meeting]

(* The effects of an event and scheduleDurable, which repeats them for      *)
(* whatever worker is free.                                                 *)
ScheduleDurable(r, s, at, created) ==
  LET r1 == IF HasDue(s, at) /\ r.activityStale THEN DispatchActivity(r)
                                                ELSE r
      command == NextNotification(s, at, created)
      r2 == IF command # NoCommand THEN DispatchNotifier(r1, command) ELSE r1
  IN IF LaunchKeys(s) # {} THEN DispatchLaunch(r2, NextLaunch(s)) ELSE r2

-----------------------------------------------------------------------------
(* Stopping and starting *)

(* Runtime.Run returns: the workers and the bus connection are gone. *)
Stop(reason) ==
  /\ up' = FALSE /\ exit' = reason
  /\ rt' = Boot /\ signals' = <<>> /\ stops' = stops + 1

Fault == faults < MaxFaults /\ faults' = faults + 1

Crash ==
  /\ up /\ Fault /\ Stop("crash")
  /\ UNCHANGED <<clock, state, server, opens, clicks>>

(* Loop.Run up to its first select, and Runtime.start.  A run that reaches  *)
(* the bound MaxRevision, never reached by a uint64, ends there.            *)
Restart ==
  /\ ~up /\ up' = TRUE
  /\ exit # "exhausted"
  /\ LET s == Settle(NormalizeLegacy(state), clock) IN
       /\ state' = s
       /\ rt' = ScheduleDurable(SchedulePolls(Boot, clock), s, clock, {})
  /\ UNCHANGED <<clock, exit, server, signals, opens, clicks, faults, stops>>

Init ==
  /\ clock = 1 /\ state = NewState /\ up = FALSE /\ exit = "" /\ rt = Boot
  /\ server = [shown |-> [i \in IDs |-> "no"],
               meeting |-> [i \in IDs |-> NoMeeting],
               key |-> [i \in IDs |-> 0], next |-> 1]
  /\ signals = <<>> /\ faults = 0 /\ stops = 0
  /\ opens = [k \in Keys |-> 0] /\ clicks = [k \in Keys |-> 0]

(* A poll interval passes and the ticker fires.  Every call has a deadline  *)
(* below the default interval, so while the machine is awake (Prompt) the   *)
(* workers and the loop are done with the last tick; a suspended machine    *)
(* wakes up in the middle of anything.                                      *)
Idle == /\ ~rt.tick /\ ~rt.activitySlot /\ rt.activityResult.at = 0
        /\ rt.notifySlot = NoCommand /\ rt.notifyResult = NoResult
        /\ rt.launchSlot = NoLaunch /\ rt.launchResult.at = 0
        /\ rt.pollSlot = {} /\ \A a \in Accounts : rt.pollResult[a].at = 0
        /\ signals = <<>>

Advance ==
  /\ clock < MaxTime /\ clock' = clock + 1
  /\ Prompt => Idle
  /\ rt' = [rt EXCEPT !.tick = up]
  /\ UNCHANGED <<state, up, exit, server, signals, opens, clicks, faults,
                 stops>>

-----------------------------------------------------------------------------
(* Loop.process *)

Created(next) ==
  {a \in Accounts :
     next.authWarningRevisions[a] # state.authWarningRevisions[a]}

(* Mutant: only a tick looks for work. *)
AfterCommitOnTickOnly(r, next, at, kind) ==
  IF kind = "tick"
    THEN ScheduleDurable(SchedulePolls(r, at), next, at, {}) ELSE r

(* afterCommit.  r is the runtime after beforeEffects. *)
AfterCommit(r, next, at, kind) ==
  LET r1 == CASE kind = "tick" -> SchedulePolls(r, at)
              [] kind \notin {"tick", "activity"} /\ next # state ->
                   [r EXCEPT !.activityStale = TRUE]
              [] OTHER -> r
  IN ScheduleDurable(r1, next, at, Created(next))

NewClick(next, k) ==
  /\ next.occurrences[k].phase = "join-pending"
  /\ state.occurrences[k].phase # "join-pending"

Committed(next, at, kind, r, rest) ==
  LET r1 == AfterCommit(r, next, at, kind) IN
  /\ state' = next
  /\ clicks' = [k \in Keys |-> clicks[k] + IF NewClick(next, k) THEN 1 ELSE 0]
  /\ IF r1.full
       THEN Stop("slot-full")
       ELSE rt' = r1 /\ signals' = rest /\ UNCHANGED <<up, exit, stops>>
  /\ UNCHANGED faults

(* SaveState failed before or after the rename of the temporary file.  A     *)
(* poll that succeeded is always saved, for the time it was fetched.         *)
SaveFailed(next, kind) ==
  /\ next # state \/ kind = "poll"
  /\ Fault /\ Stop("save")
  /\ state' \in {state, next}
  /\ UNCHANGED clicks

(* reduceWithIndex returned an error. *)
Rejected(mid) ==
  /\ Stop(IF RevisionExhausted(mid) THEN "exhausted" ELSE "rejected")
  /\ UNCHANGED <<state, clicks, faults>>

(* Every event but a delivery; mid is what the event's handler returns and  *)
(* rest the signals left.                                                   *)
Process(mid, at, kind, r, rest) ==
  /\ up
  /\ LET next == Settle(mid, at) IN
       \/ Accepted(mid, at) /\ Committed(next, at, kind, r, rest)
       \/ Accepted(mid, at) /\ SaveFailed(next, kind)
       \/ ~Accepted(mid, at) /\ Rejected(mid)
  /\ UNCHANGED <<clock, server, opens>>

Withdraw(id) == [server EXCEPT !.shown[id] = "no"]

(* awaitDeliveryAck after a negative acknowledgement: close what was shown; *)
(* the close may fail in turn.                                              *)
Compensated(id) == server' = Withdraw(id) \/ UNCHANGED server

(* A delivery that changes nothing is stale: compensate and exit. *)
ProcessDelivery(mid, at, id, r) ==
  /\ up
  /\ LET next == Settle(mid, at) IN
       \/ /\ Accepted(mid, at) /\ next # state
          /\ Committed(next, at, "notification", r, signals)
          /\ UNCHANGED server
       \/ /\ Accepted(mid, at) /\ SaveFailed(next, "notification")
          /\ Compensated(id)
       \/ /\ Accepted(mid, at) /\ next = state
          /\ Stop("stale-delivery")
          /\ \/ server' = Withdraw(id) /\ UNCHANGED faults
             \/ Fault /\ UNCHANGED server
          /\ UNCHANGED <<state, clicks>>
       \/ ~Accepted(mid, at) /\ Rejected(mid) /\ UNCHANGED server
  /\ UNCHANGED <<clock, opens>>

-----------------------------------------------------------------------------
(* Events that reach the loop *)

(* The code stamps a tick before the loop is free to take it.  The ticker   *)
(* keeps one more tick meanwhile, which follows with a fresh stamp, and the *)
(* model handles the two as one.                                            *)
HandleTick ==
  /\ rt.tick
  /\ Process(TickEvent(state, clock), clock, "tick",
             [rt EXCEPT !.tick = FALSE, !.activityStale = TRUE], signals)

HandleActivity ==
  LET e == rt.activityResult IN
  /\ e.at # 0
  /\ Process(ActivityResultEvent(state, e.announce, e.at), e.at, "activity",
             [rt EXCEPT !.activityBusy = FALSE,
                        !.activityResult = Boot.activityResult], signals)

HandleLaunch ==
  LET e == rt.launchResult IN
  /\ e.at # 0
  /\ Process(LaunchResultEvent(state, e.launch.key, e.launch.revision, e.ok),
             e.at, "launch",
             [rt EXCEPT !.launcherBusy = FALSE,
                        !.launchResult = NoLaunchResult], signals)

(* recordPollResult: RetryAccounts.Failed and Succeeded. *)
HandlePoll(a) ==
  LET e == rt.pollResult[a]
      r == [rt EXCEPT !.pollBusy = @ \ {a}, !.pollResult[a] = NoPoll]
      n == NextAttempt(rt.retries[a].attempt)
  IN
  /\ e.at # 0
  /\ \/ /\ e.kind = ""
        /\ Process(Reconcile(state, a, e.items, e.at), e.at, "poll",
             [r EXCEPT !.retries[a] = [attempt |-> 0, next |-> 0],
                       !.activityStale = TRUE], signals)
     \/ /\ e.kind # ""
        /\ \E gen \in Generations, jitter \in 0..(RetryDelays[n] \div 4) :
             Process(ApplyPollFailure(state, a, e.kind, gen, e.at), e.at,
               "poll-failure",
               [r EXCEPT !.retries[a] =
                  [attempt |-> n, next |-> NextRetry(e.at, n) + jitter]],
               signals)

(* Mutant: the report of the client does not free the notifier. *)
NotifierStillBusy == [rt EXCEPT !.notifyResult = NoResult]

(* The client's report of a finished command, stamped by the loop. *)
NotifierFree == [rt EXCEPT !.notifierBusy = FALSE, !.notifyResult = NoResult]

HandleDelivered ==
  LET e == rt.notifyResult  c == e.command IN
  /\ e.event = "delivered"
  /\ ProcessDelivery(
       IF c.kind = "warning"
         THEN ApplyWarningDelivery(state, c.account, c.revision, clock)
         ELSE ApplyDelivery(state, c.key, c.revision, e.id, clock),
       clock, e.id, NotifierFree)

HandleFailed ==
  LET e == rt.notifyResult  c == e.command IN
  /\ e.event = "failed"
  /\ Process(
       IF c.kind = "warning"
         THEN ApplyWarningFailure(state, c.account, c.revision, clock)
         ELSE ApplyNotificationFailure(state, c.key, c.revision,
                IF c.kind = "close" THEN c.id ELSE 0, clock),
       clock, "notification", NotifierFree, signals)

HandleCompleted ==
  LET e == rt.notifyResult IN
  /\ e.event = "completed"
  /\ Process(CompleteClose(state, e.command.key, e.command.id), clock,
             "notification", NotifierFree, signals)

(* The client forwards a signal only between two commands. *)
HandleSignal ==
  /\ rt.notifyResult = NoResult /\ signals # <<>>
  /\ LET e == Head(signals) IN
       Process(IF e.name = "join" THEN JoinSignal(state, e.id, clock, Hosts)
                                  ELSE ClosedSignal(state, e.id),
               clock, "notification", rt, Tail(signals))

-----------------------------------------------------------------------------
(* The workers' calls *)

(* RunActivityWorker: announce when eligible, degraded or failed. *)
CheckActivity ==
  /\ up /\ rt.activitySlot
  /\ \E announce \in BOOLEAN :
       rt' = [rt EXCEPT !.activitySlot = FALSE,
                !.activityResult = [at |-> clock, announce |-> announce]]
  /\ UNCHANGED <<clock, state, up, exit, server, signals, opens, clicks,
                 faults, stops>>

(* RunLauncherWorker.  The launcher checks the URL again; an error may come *)
(* before Firefox is started or after (the window was not found in time).   *)
OpenMeeting ==
  LET l == rt.launchSlot IN
  /\ up /\ l # NoLaunch
  /\ \E ok, opened \in BOOLEAN :
       /\ opened => l.meeting.content \in Hosts
       /\ ok => opened
       /\ opens' = [opens EXCEPT ![l.key] = @ + IF opened THEN 1 ELSE 0]
       /\ rt' = [rt EXCEPT !.launchSlot = NoLaunch,
                   !.launchResult = [launch |-> l, ok |-> ok, at |-> clock]]
  /\ UNCHANGED <<clock, state, up, exit, server, signals, clicks, faults,
                 stops>>

(* RunPollWorker *)
FetchCalendar(a) ==
  /\ up /\ a \in rt.pollSlot
  /\ \E poll \in [at: {clock}, kind: {""}, items: [KeysOf(a) -> PollItems]]
                 \cup [at: {clock}, kind: ErrorKinds, items: {<<>>}] :
       rt' = [rt EXCEPT !.pollSlot = @ \ {a}, !.pollResult[a] = poll]
  /\ UNCHANGED <<clock, state, up, exit, server, signals, opens, clicks,
                 faults, stops>>

(* handleCommand.  The outcome replaces the command; free of it, the client *)
(* forwards signals again.                                                  *)
Reported(event, id) ==
  rt' = [rt EXCEPT !.notifySlot = NoCommand,
           !.notifyResult = [event |-> event, command |-> rt.notifySlot,
                             id |-> id]]

(* The id of a new notification; one that replaces keeps the id it          *)
(* replaces while that is on screen, and else may get another.              *)
AnswerIDs(c) ==
  IF c.id # 0 /\ server.shown[c.id] = "yes"
    THEN {c.id}
    ELSE ({server.next} \cap IDs)
           \cup {id \in {c.id} \ {0} : ReusesID}

(* Notify: shown and answered; shown, the answer lost; or not shown.  At    *)
(* the bound MaxID the server refuses.                                      *)
CallNotify ==
  LET c == rt.notifySlot IN
  /\ up /\ c.kind \in {"notify", "warning"}
  /\ \/ \E id \in AnswerIDs(c) :
          /\ server' = [shown |-> [server.shown EXCEPT ![id] = "yes"],
                        meeting |-> [server.meeting EXCEPT ![id] = c.meeting],
                        key |-> [server.key EXCEPT ![id] = c.key],
                        next |-> IF id = server.next THEN id + 1
                                                     ELSE server.next]
          /\ \/ Reported("delivered", id) /\ UNCHANGED faults
             \/ Reported("failed", 0) /\ Fault
     \/ /\ Reported("failed", 0)
        /\ (AnswerIDs(c) = {} /\ UNCHANGED faults) \/ Fault
        /\ UNCHANGED server
  /\ UNCHANGED <<clock, state, up, exit, signals, opens, clicks, stops>>

Signal(name, id) == [name |-> name, id |-> id]

(* CloseNotification: a notification that is there is withdrawn and a       *)
(* signal announces it; the call may fail before or after that.             *)
CallClose ==
  LET c == rt.notifySlot IN
  /\ up /\ c.kind = "close"
  /\ \/ Reported("completed", c.id) /\ UNCHANGED faults
     \/ Reported("failed", c.id) /\ Fault
  /\ \/ /\ server' = Withdraw(c.id)
        /\ signals' = IF server.shown[c.id] = "no" THEN signals
                      ELSE Append(signals, Signal("closed", c.id))
     \/ faults' # faults /\ UNCHANGED <<server, signals>>
  /\ UNCHANGED <<clock, state, up, exit, opens, clicks, stops>>

-----------------------------------------------------------------------------
(* The user.  A notification that is dismissed, times out or has its action *)
(* invoked leaves the screen (no request asks for a resident one) and stays *)
(* in the server's history, where the action can still be invoked.  Signals *)
(* sent while the service is down are lost.                                 *)

Emit(sent) ==
  /\ Len(signals) + Len(sent) =< MaxSignals
  /\ signals' = IF up THEN signals \o sent ELSE signals
  /\ UNCHANGED <<clock, state, up, exit, rt, opens, clicks, faults, stops>>

Archive(id) == [server EXCEPT !.shown[id] = "history"]

Dismiss(id) ==
  /\ server.shown[id] = "yes"
  /\ server' = Archive(id)
  /\ Emit(<<Signal("closed", id)>>)

(* Warnings have no action. *)
Click(id) ==
  /\ up /\ server.key[id] # 0
  /\ \/ /\ server.shown[id] = "yes" /\ server' = Archive(id)
        /\ Emit(<<Signal("join", id), Signal("closed", id)>>)
     \/ /\ server.shown[id] = "history" /\ UNCHANGED server
        /\ Emit(<<Signal("join", id)>>)

(* The end of the modelled span of time. *)
Horizon == clock = MaxTime /\ UNCHANGED vars

-----------------------------------------------------------------------------
Handle ==
  \/ HandleTick \/ HandleActivity \/ HandleLaunch
  \/ \E a \in Accounts : HandlePoll(a)
  \/ HandleDelivered \/ HandleFailed \/ HandleCompleted \/ HandleSignal

Work ==
  \/ CheckActivity \/ OpenMeeting \/ \E a \in Accounts : FetchCalendar(a)
  \/ CallNotify \/ CallClose

Next == \/ Handle \/ Work \/ Crash \/ Restart \/ Advance
        \/ \E id \in IDs : Dismiss(id) \/ Click(id)
        \/ Horizon

Spec == Init /\ [][Next]_vars

(* The loop's select is random among the ready events, every call has a     *)
(* deadline and systemd restarts a service that failed: none of these waits *)
(* for ever.  Clock, user and faults owe nothing.                           *)
Fairness ==
  /\ WF_vars(HandleTick) /\ WF_vars(HandleActivity) /\ WF_vars(HandleLaunch)
  /\ \A a \in Accounts : WF_vars(HandlePoll(a)) /\ WF_vars(FetchCalendar(a))
  /\ WF_vars(HandleDelivered \/ HandleFailed \/ HandleCompleted)
  /\ WF_vars(HandleSignal)
  /\ WF_vars(CheckActivity) /\ WF_vars(OpenMeeting)
  /\ WF_vars(CallNotify \/ CallClose)
  /\ WF_vars(Restart)

FairSpec == Spec /\ Fairness

-----------------------------------------------------------------------------
(* Type invariant of the service. *)
TypeOK ==
  /\ clock \in 1..MaxTime /\ up \in BOOLEAN
  /\ state \in StateType /\ WidthsOK(state)
  /\ exit \in {"", "crash", "save", "rejected", "exhausted",
             "stale-delivery", "slot-full"}
  /\ rt.notifySlot \in CommandType /\ rt.notifyResult \in NotifyResultType
  /\ server \in [shown: [IDs -> {"no", "yes", "history"}],
                 meeting: [IDs -> Meetings \cup {NoMeeting}],
                 key: [IDs -> Keys \cup {0}], next: Nat]
  /\ opens \in [Keys -> Nat] /\ clicks \in [Keys -> Nat]
  /\ faults \in 0..MaxFaults /\ stops \in Nat

(* The busy flags keep every command slot to one command: dispatch never    *)
(* meets ErrCommandSlotFull and schedulePolls never blocks the loop, across *)
(* results, restarts and effects that are repeated after every event.       *)
SlotNeverFull == exit # "slot-full" /\ ~rt.full

(* No event makes the loop exit by a state that does not validate, as long  *)
(* as the server never hands out the id of a live notification twice.       *)
NeverRejected == exit # "rejected"

Owner(id) == {k \in Keys : state.occurrences[k].id = id}

(* Its delivery is about to be recorded, or its close to be executed. *)
InFlight(id) ==
  \/ rt.notifyResult.event = "delivered" /\ rt.notifyResult.id = id
  \/ rt.notifySlot.kind = "close" /\ rt.notifySlot.id = id

(* Nothing stays on screen that the daemon has lost: without faults, every  *)
(* meeting notification on screen is owned by an entry or in the hands of   *)
(* the client.  The server gives what it shows again a new id (~ReusesID).  *)
NothingOrphaned ==
  faults = 0 /\ exit # "exhausted" =>
    \A id \in IDs :
      server.shown[id] = "yes" /\ server.key[id] # 0 =>
        Owner(id) # {} \/ InFlight(id)

(* What is on screen is what Join would open: while an entry is actionable, *)
(* its notification shows the entry's meeting, however polls, deliveries,   *)
(* replacements and restarts interleaved.                                   *)
ShownIsCurrent ==
  \A k \in Keys :
    LET o == state.occurrences[k] IN
    /\ o.phase \in {"notified", "actionable-history", "join-pending"}
    /\ server.shown[o.id] # "no"
    => server.meeting[o.id] = o.meeting

(* A click opens the meeting once.  Only a stop of the service can make it  *)
(* open again: a crash, a failed save, or a delivery of another meeting's   *)
(* notification that had become stale, between the call and its result.     *)
OneOpenPerClick == \A k \in Keys : opens[k] =< clicks[k] + stops

(* No wakeup is lost: when nothing is in flight any more, no worker is left  *)
(* marked busy, and nothing that could be shown, closed or launched now is   *)
(* still waiting; nor is a due meeting whose session was not checked since,  *)
(* unless the machine slept between the poll that brought it and the next    *)
(* tick, when it waits for the tick after.                                   *)
NoLostWakeup ==
  up /\ Idle =>
    /\ ~rt.activityBusy /\ ~rt.notifierBusy /\ ~rt.launcherBusy
    /\ rt.pollBusy = {}
    /\ NotificationKeys(state, clock) = {} /\ LaunchKeys(state) = {}
    /\ WarningAccounts(state, clock) = {}
    /\ Prompt /\ HasDue(state, clock) => ~rt.activityStale

(* An account is warned about its authorization at most once per            *)
(* WarningInterval, however its polls fail, deliveries are delayed or the    *)
(* service restarts in between.                                             *)
WarningsSpaced ==
  [][\A a \in Accounts :
       LET old == state.authWarnings[a]  new == state'.authWarnings[a] IN
       old # 0 /\ new # old => new >= old + WarningInterval]_vars

(* A Join click that was accepted is decided: the launch succeeds or fails, *)
(* or the meeting is withdrawn; a crash only delays it.                     *)
JoinIsDecided ==
  \A k \in Keys : state.occurrences[k].phase = "join-pending"
                    ~> \/ state.occurrences[k].phase # "join-pending"
                       \/ exit = "exhausted"

=============================================================================
