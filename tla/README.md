# Formal model of the meeting notifier and its launcher

This directory specifies, model-checks and proves properties of the programs in
this repository that have state worth worrying about. The core is the meeting
notifier (`modules/home/desktop/services/meeting-notifier`), a Go daemon that
polls Google calendars, announces meetings through the desktop notification
server and opens them in Firefox when the user clicks *Join*. Paths below are
relative to its `internal/` directory unless they say otherwise.

## 1. Inventory

| component | state | operations | who it talks to |
|---|---|---|---|
| durable state (`storage/state.go`, `state_migration.go`) | per occurrence an aggregate with a lifecycle phase, notification id, retry time, action expiry, revisions; per account a snapshot, poll health, authorization warnings | `Validate`, `NormalizeLegacy`, `NextRevision`, `NotificationIndex` | written by the owner loop only |
| reducer (`daemon/reducer*.go`, `reconcile.go`, `expiry.go`, `poll_health.go`, `retry.go`) | none, it maps a state and an event to a state and effects | tick, poll result, poll failure, activity result, launch result, delivery, failure, close result, the two D-Bus signals | called by the loop |
| owner loop (`daemon/daemon.go`) | the state in memory | `Run`, `process`: reduce, save, acknowledge, dispatch | receives events on an unbuffered channel |
| runtime (`daemon/runtime*.go`, `scheduler.go`) | busy flags, one-place command slots, poll retries, activity generations | `dispatch`, `beforeEffects`, `afterCommit`, `scheduleDurable`, `schedulePolls` | runs in the loop, feeds the workers |
| workers (`daemon/workers.go`) | a command at a time | poll, activity, launcher | calendar, logind, launcher; results to the loop |
| notification client (`notifications/`) | a command at a time, the signal buffer | Notify, CloseNotification, forwarding of signals, acknowledgement and compensation of deliveries | notification server; events to the loop |
| state file (`storage/atomic.go`, `store.go`) | `state.json` | atomic write, load, quarantine | loop |
| authorization bundles (`storage/authorization.go`, `googlecalendar/token_source.go`, `setup.go`) | one bundle and lock per account, a generation | setup, refresh, compare and set | poll worker, `setup` command |
| calendar source (`googlecalendar/source.go`, `client.go`, `reconcile.go`, `errors.go`) | none between calls; during one the pages read so far | list calendars page by page, decode, classify errors | Google, poll worker |
| OAuth login (`googlecalendar/oauth.go`, `terminal.go`) | a loopback server for one callback | authorize | browser, `setup` command |
| meeting classification (`meeting/`) | none | normalise, choose a URL, rewrite it for Zoom, key, due | calendar source, launcher client |
| session activity (`activity/logind.go`) | one shared bus connection, and whether it is being made | check, close | logind, activity worker |
| launcher client (`launcher/`, `app/launcher.go`) | a child process | open, terminate, kill | niri Firefox launcher |
| niri Firefox launcher (`modules/home/desktop/wayland/niri/firefox-launcher`) | the windows seen before Firefox was started; it polls niri for new ones | launch-profile, open-url, focus-workspace | niri, Firefox; started by the launcher client and by `config/firefox-profiles.sh` |
| shared PassFF host, maintenance scripts, NixOS configuration | - | - | - |

What is hard in it:

* five goroutines and two external programs race, and the loop sees their
  results late: a delivery for a meeting that changed, a launch result for a
  click that was replaced, a click that crosses a close;
* every effect is derived from durable phases and repeated after every event,
  into slots that hold one command: a flag cleared too early exits the service,
  one cleared too late loses work;
* the service may stop between a call, the save of its result and the
  acknowledgement, and starts again from the file;
* `Validate` is run on every new state and an error ends the service, so every
  handler must reset exactly the fields its target phase forbids;
* expiry runs at the end of every event, together with whatever the event did;
* the reader of the session bus blocks when the signal buffer is full, and then
  cannot read the answer the client waits for;
* a poll reads many pages while organisers change the events on them, and what it
  leaves out counts as deleted;
* the launcher finds its window by what is new on a desktop that others use too,
  and may be killed at any point by the deadline of its caller.

What makes it correct, in one line each: a notification on screen always has an
owner and shows what *Join* would open; a click opens a meeting once; a joined
meeting is not announced again; the service never exits on its own state; work
that can be done is never left waiting; warnings keep their distance; no signal
is lost or seen too early; a poll is complete and true; a join moves the window it
opened and nothing else; whatever is started is ended.

`PROJECT.json` lists the components with what is and is not modelled, the
hazards with the properties that cover them, and the line ranges each definition
stands for.

## 2. Modules

| module | what it is |
|---|---|
| `Lifecycle` | the durable types and the pure functions over them: validation, expiry, reconciliation, every event's handler, the reducer's tail, and the choice of effects. No variables. |
| `Reducer` | the reducer as a state machine in the most general environment: any event, any time stamp, any revision and id, in any order. Its variable `state` is `storage.State`. |
| `OccurrencePhases` | the contract of an occurrence: the legal moves of its phase and of the notification id it holds, and nothing else. |
| `Daemon` | the running service: loop, runtime, workers and client, and around them server, user, clock, faults and service manager. |
| `Authorization` | one account's authorization bundle: concurrent `setup` commands, the daemon's token refresh, the account lock, every step of `atomicWrite`, the health that disables an account, crashes and power losses. |
| `SessionBus` | the notification client's connection: blocking signal handler, dispatcher, the bus library's reader, the acknowledgement of deliveries, and every way to end. |
| `CalendarSource` | one account's poll: calendars and pages, decoding, classification and choice of link, errors, deadline; and the checks that a link passes before it is opened. |
| `ActivityReader` | the connection to logind that callers of `Current` share, against `Close` and a bus that breaks. |
| `FirefoxLauncher` | `niri-firefox-launcher` command by command, run by the launcher worker (deadline, SIGTERM, SIGKILL) and by the session's start-up script, on a desktop that changes. |
| `MCReducer`, `MCDaemon`, `MCAuthorization`, `MCSessionBus`, `MCCalendarSource`, `MCActivityReader`, `MCFirefoxLauncher` | small instances for TLC; the `.cfg` files select among their definitions. |
| `LifecycleProofs` | lemmas about the operators of `Lifecycle`, which the proofs about the reducer and the service share. |
| `ReducerProofs`, `DaemonProofs`, `AuthorizationProofs`, `SessionBusProofs`, `CalendarSourceProofs`, `ActivityReaderProofs`, `FirefoxLauncherProofs` | the TLAPS proofs about `Reducer`, `Daemon`, `Authorization`, `SessionBus`, `CalendarSource`, `ActivityReader` and `FirefoxLauncher`. |

### State and actions against the code

An occurrence is the record `OccurrenceType`. `notifiedAt`, `joinRequestedAt`
and `joinedAt` are flags because the daemon only asks whether they are zero.
`actionExpiresAt` and `notBefore` are times. A meeting is its start, its end, a
`content` that stands for summary and URL together, and a `location`: the Go
`Location` of its times, which `!=` compares too. One spelling of a zone has one
location, `fabricated` stands for those that Go allocates anew with every parse
(section 5). A missing map entry is the record `NoEntry`, whose
phase is `absent`. A host policy is the set of contents whose URL it accepts. A
poll says of each key of its account that it is missing, current, observed
(listed, but not to be announced, with a reason) or both (an event that moved while
pages were read), which is what `reconcile` distinguishes.

The delay `minute << min(attempt-1, 4)`, capped at 15 minutes, is the table
`RetryDelays`; attempts beyond its end repeat the last entry, so the counter
stops there. Revisions are `uint64`: a handler counts on, and the tail rejects
the result when it passes `MaxRevision`, where `NextRevision` does it in the
handler: the whole event is refused either way.

In `Reducer` an action is one call of `reduceWithIndex`: the handler of the
event, then `Settle` (`expireNotifyPending` for every entry) and `Validate`; an
error leaves the state alone. `Restart` is `Loop.Run` up to its `select`, with a
configuration that may have changed.

In `Daemon` the loop handles an event to its end in one action. That is sound:
while it reduces, saves, acknowledges and dispatches it does not receive, and no
other goroutine writes what it reads. A worker has two steps that others can come
between: it takes the command and performs the call, and it hands the stamped
result over. `rt` holds the flags, slots and results on their way; `server` what
is on screen or in the server's history, which key and which meeting it shows;
`opens` and `clicks` are history variables. `SaveFailed` leaves either state on
disk, since `atomicWrite` can fail after the rename. A delivery that changes
nothing is stale: the client closes what it showed and the loop exits.
The code stamps a tick before it sends it to the loop (`runtime.go:127`) and the model
when the loop takes it. A tick that had to wait is followed at once by the one that the
ticker has kept, with a fresh stamp; the model has one step for both. Under `Prompt`
the two stamps are the same.

`OccurrencePhases` is refined by `Reducer` under the mapping that takes phase and
id of every entry (`FollowsLifecycle`). Its action `Abandon` is the one way in
which the code gives up a visible notification without closing it (section 5).

In `Authorization` a setup is named by the random generation it draws, and of a
token only its grant matters, the setup whose consent it came from. `file` is
what a reader gets, `durable` what is certain to survive a power loss; they
differ between the rename and the flush of the directory. `pc` follows a writer
through `withAccountLock` and `atomicWrite` and ends in what the user is told.
The daemon reads the bundle when it starts and uses that copy in every poll
(`daemon/runtime_schedule.go:67`), so a refresh carries an older generation once
a setup has come in between. Rotation of refresh tokens is left out: Google does
not rotate them, and an empty one is filled from the bundle. Accounts have
separate files and locks and meet only in `state.json`, so one is modelled; an
account that is not available is out until the next start.

`Daemon` sees the four components below only through their results, and each of
their modules justifies one abstraction of it: that signals arrive in order and
after the delivery they are about (`SessionBus`), that a poll answers for every key
of its account (`CalendarSource`), and that a check or a launch ends
(`ActivityReader`, `FirefoxLauncher`).

In `SessionBus` the sections under the handler's mutex are parts of steps, since
they never block. `handler` is the one target the client registers; `raw` its
channel. `reader` is the goroutine of the bus library, which is external but for
`DeliverSignal`; `conn.Close` runs its body once, in the client or in the reader.
A call is answered, fails, or expires at any time. `history.panicked` records what
Go forbids: closing a channel twice or sending on a closed one.

In `CalendarSource` a link is a record of what the code tells apart in its text
(form, host as a sequence of labels from the root, Zoom join path, readable query);
a host pattern is a wildcard or exact. The four fields of an event that may hold links
are numbered by authority, so that a link has a place, and `selectURL` takes the first
place that is valid. A time has a form and a zone, and `Instant` converts it. Meetings
and observations, for which the code has two lists, are entries of one.
Google lists events by start and continues after the place its page token stands
for, so a page is what is there when it is read: in order, and with nothing left out
between the events it has (`IsPage`); it may have any number of them. The window,
`From` to `End`, bounds the start of an event above and its end below (`Listed`). It
moves with the clock in the code and stays where it is in the model, where changes to
events take them out of it and in. The deadline ends the list call under way.

In `ActivityReader` there may be any number of callers of `Current`, as `Reader`
allows; the service has one, its activity worker. What can happen in the running
service is one caller against `Close` and the bus. A connection is named after the dial that made it. Each section
under the mutex is a step, the dial lies between two of them, and `Close` takes the
connection in one step and closes it in another.

In `FirefoxLauncher` a step is one niri command, one start of Firefox or one wait.
Windows carry their workspace and who has moved them. A command that fails may have
moved its window: niri may have done it when the command was given up. The worker's `Open` follows
`osRunner.Run`: wait, terminate, kill, reap. The exit codes 1, 20 and 21 are one
failure, as they differ only in the diagnostics they lead to.

## 3. Runs

| run | what it shows |
|---|---|
| `reducer_one` | One occurrence under every event: the state validates and keeps its type, a joined meeting stays joined until it ends, revisions advance, and every step is a move of `OccurrencePhases`, so that a shown notification is not forgotten. |
| `daemon_safety` | The service without faults, with a calendar that changes link and time and drops the event, and a *Join* that expires during the run: slots never overflow, everything on screen is owned, nothing waits for a worker that is free. |
| `daemon_two` | Two occurrences and the warnings of an account whose authorization fails, for one notifier and one launcher, with calls that take longer than a poll interval: nothing waits for a worker that is free, and warnings are spaced. |
| `daemon_faults` | One crash, failed save, lost answer or failed call anywhere: the service comes back, rejects nothing, opens a meeting at most once per click, and once more per stop of the service, and what an actionable entry shows is what *Join* would open. |
| `daemon_live` | Under fairness a join is decided, with one fault anywhere. |
| `authorization` | Two setups and a refreshing daemon, two faults: no partial bundle, no token in another setup's bundle, nothing lost once reported as saved, "preserved" is true when it is said, an account is disabled only for a refusal of the bundle it has; a setup that waits for the lock ends, and a saved one reaches the daemon. |
| `session_bus` | A buffer of one, three signals, one command, and the bus, the loop or the service ending anywhere: no signal is dropped, repeated or reordered, none is seen before its notification is recorded, no channel is misused, a full buffer does not block the client for good, and client and reader end. |
| `calendar` | Two polls of two calendars, pages of any size, one change by an organiser, any failure: a successful poll has each unchanged event once, everything it says was so during the poll, keys are stable and unique, links are trusted and joinable, polls end. |
| `activity` | Three callers, `Close`, dials that fail or hang, a bus that breaks: one connection at most, none left, waiters return. |
| `launcher` | A join during the session's start-up on two monitors, a user who opens windows, one reorder or loss of the monitors, failing commands, a launcher that hangs: only the meeting's profile's new window is moved by a join, to the right workspace, no launcher outlives its caller, and a join ends. |
| `reducer_zone` | Expected violation, see section 5: an unchanged meeting is announced again. |
| `reducer_ghost` | Expected violation, see section 5. |

`TypeOK` is an invariant of the runs of `Reducer` and `Daemon`, where the widths of
counters and the bound on attempts make it more than a matter of types; it is proved
for `Reducer`, `Daemon`, `Authorization` and `ActivityReader`, and as a part of the
inductive invariant for `SessionBus`, `CalendarSource` and `FirefoxLauncher`.

Every property of a passing run is accompanied by a mutant of the model (an
operator whose comment starts with *Mutant*) that TLC catches with it.

### Bounds

* `MaxTime`: times are poll intervals. Lead window, meeting and the time after
  its end all fit; in `Reducer` time stamps are unordered, so late results and a
  clock that steps back are included.
  `reducer_one` identifies states that differ in the time of the last event only
  (`MCView`): no action reads it, and properties read that of the step itself.
* `MaxRevision`: 3 where a pending replacement is changed once more, else 2, so
  that an announcement, its replacement and the
  refusal of one more happen. A run of `Daemon` that reaches it stops for good
  (`exit = "exhausted"`): a real counter would have gone on, and properties that
  would be affected name that exit.
* `MaxID`: the notifications the server shows; beyond it Notify fails, which is
  also how failures without a fault arise.
* `MaxSignals`: two, a click and the close that follows it, and in `daemon_two` one on its
  way at a time.
* `Setups`: two, so that a setup meets another setup, a refresh that belongs to
  an older one, or both, at the lock. The proofs are for any number. `MaxFaults`
  is two in `authorization`: a failure and the power loss after it.
* `MaxFaults` in `Daemon`: one. Two faults that matter together are a fault and the restart
  after it, which costs nothing.
* `Prompt`: with it the clock advances only when no call is under way. Every
  call has a deadline (5, 20, 30 seconds) below the default poll interval, so
  this is a machine that is awake. Without it a call may last over any number of
  polls: a machine that sleeps, or a very short `pollInterval`.
* `ReusesID`: what the server answers to a Notify that replaces a notification which
  has left the screen. The specification of the protocol and some servers (dunst, swaync)
  give the id back, others (GNOME Shell, mako) a new one. A replacement of what is on
  screen keeps its id with all of them. All runs allow both answers but `daemon_safety`,
  whose `NothingOrphaned` is not true of the first kind (section 5).
* `ActionLifetime`: the code's 24 hours are longer than any run of the service that TLC
  can follow, and then *Join* never expires. In `daemon_safety` and `daemon_faults` it is
  two intervals, so that it expires while the meeting is still on. The proofs are for any
  lifetime.

* `Capacity` in `SessionBus` is one instead of 64 and `MaxSignals` three, so that the
  buffer is full while the reader holds a signal and another waits on the wire.
  One command (`MaxCommands`) and the two subscriptions before it are the calls
  that can be stuck.
* `CalendarSource`: two instances of a series and a single event, in two calendars,
  each with the versions that the code distinguishes; one change (`MaxChanges`) and
  two polls (`MaxPolls`) let a key or a page boundary meet a reschedule.
* `ActivityReader`: three callers, one that dials and two that wait, and three dials
  (`MaxDials`), so that a failed dial is followed by another. The proofs are for any
  number.
* `FirefoxLauncher`: one join (`MaxOpens`) against one start-up launch, two windows
  (`MaxWindows`), one change (`MaxChanges`), two monitors with the meeting's
  workspace not the first of its own.

Keys are one or two: handlers rewrite each entry by itself, and what entries
share is the notifier, the launcher, the ids and the poll.

What the runs leave to the theorems or leave open:

* With one key `DistinctIDs` says nothing, so `NeverInvalid` and `NeverRejected` are checked
  without it. `AlwaysValid` and `ValidationNeverFails` prove them for any number of keys.
* `NothingOrphaned` is checked with one key and `ShownIsCurrent` under `Prompt`. What breaks
  them, another entry's expiry in the event of a stale delivery and a result that
  outlives its entry, takes a call that outlasts a poll interval (section 5).
* `WarningsSpaced` compares the times of recorded deliveries, and its run has no faults: a
  warning that was shown but whose answer was lost is shown again. `WarnedOncePerInterval`
  is for any number of faults.

### Fairness

Weak fairness of every handler of the loop, of every worker's call and of the
restart. Go's `select` chooses at random among the ready channels, every call
has a deadline, and the systemd unit restarts the service. Nothing is assumed of
the clock, the user or the faults.

In `Authorization` the steps of a write, the restart after a saved setup, the
recording of a poll and the start of the service are weakly fair. Taking the lock
is strongly fair: a waiter in `flock` is queued by the kernel. No setup has to be
begun. `authorization` does not check for deadlock: without a usable account, and
with no setup left, the service has nothing to do.

In `SessionBus` the reader, the client, the loop's answer and the cancellation are
weakly fair; the dispatcher's `select` takes a signal or the cancellation when it is
ready again and again (strong fairness). The server, the bus and the user owe
nothing. In `CalendarSource` only the deadline and the owner's receive are fair, in
`ActivityReader` every step of a caller but the dial, and in `FirefoxLauncher` the
worker's timers; of the launcher that the worker started nothing is assumed, nor of
the script. The deadline of a poll ends whatever it waits for but one thing: a refresh
that saves its token waits in `flock` (`storage/authorization.go:172`), which does not look
at the context. That lock is held by setups and refreshes, which end on their own
(`SetupEnds`), so `PollEnds` rests on `authorization` too. These four may stop for good (a
service that has ended, no polls or joins left), so deadlock is not checked.

## 4. Proofs

Every theorem is of the form `Spec => []Inv`, or `Spec => A` for an action property or
a refinement, and holds for every value of the constants that satisfies the
assumptions of the component's module, which TLC evaluates for every instance. The
argument is the same throughout: the property is not inductive; a stronger invariant
holds at first, every action keeps it (one lemma per action), and it implies the
property. Where a theorem has a hypothesis, the table names it. TLC checked each invariant on an instance before it was proved.

| theorem | property | what the inductive invariant adds to it |
|---|---|---|
| `ReducerProofs`: `TypeCorrect`, `AlwaysValid` | `TypeOK`, `NeverInvalid` | `Sound`: each entry `Legit`, ids distinct, warnings valid |
| `JoinedStays`, `RevisionsGrow` | `JoinedUntilEnd`, `RevisionsAdvance` | as above, and `Evolves` for the steps |
| `ImplementsLifecycle` | `FollowsLifecycle` | as above |
| `DaemonProofs`: `ServiceTypeCorrect`, `DispatchNeverBlocks`, `ValidationNeverFails`, `OpenedOncePerClick` | `TypeOK`, `SlotNeverFull`, `NeverRejected`, `OneOpenPerClick` | `RuntimeOK`, `Sound`, `Claims`, `Accounted` |
| `NoWakeupIsLost` | `NoLostWakeup` | `Covered`, `Awake`, `Stamps` |
| `WarnedOncePerInterval` | `WarningsSpaced` | `WarningsSafe` |
| `ScreenIsCurrent` | `ShownIsCurrent`, if `Regular` | `OnScreen`, `Brought`, `Known` |
| `NothingIsOrphaned` | `NothingOrphaned`, if `Regular` and not `ReusesID` | `Held`, `Good`, `Answered`, `Gone`, `Serving` |
| `AuthorizationProofs` (six) | the invariants of `authorization`, `TypeOK` | `AllWhole`, `LockHeld`, `Staged`, `Kept`, `Unseen`, `Refused` |
| `SessionBusProofs`: `ChannelsAreClosedOnce`, `ClicksComeAfterRecords`, `NoSignalIsDropped` | `NeverPanics`, `RecordedBeforeClick`, `NothingDropped` | `SoundChannels`, `SoundOrder`, `Connected`, `Counted` |
| `CalendarSourceProofs`: `PollsAreComplete` | `Complete` | `Counted` |
| `ReportsAreTrue`, `AnnouncedCanBeJoined` | `WasSo`, `Joinable`, if `PatternsMeant` | `Sourced`, `History` |
| `KeysIdentify` | `OneKey` | `KeysKnown` |
| `ActivityReaderProofs` (three) | `OneConnection`, `NoneLeft`, `TypeOK` | `OneMaker`, `MakerKnown`, `Closed`, `Owned` |
| `FirefoxLauncherProofs`: `NoLauncherOutlivesItsCaller`, `JoinsMoveTheirOwnWindow`, `WindowsEndWhereAsked` | `NoLauncherLeft`, `OthersUntouched`, `Placed` | `LayoutSound`, `ProcessSound`, `AsItWas`, `OnTarget`, `MeetingOnly` |

### The reducer

`Validate` is not inductive. It says nothing of the widths of the counters, of the
attempt that indexes the retry table, or of the ids that entries on their way out
might keep. `Sound` says of a state that every entry is `Legit` (typed, attempt and
join revision bounded, absent or valid), that no two entries hold one id, and that
warnings are valid. The proof goes from entries to states: one lemma per rewriting of
an entry (`BeginCloseKeeps`, `ReplacementKeeps`, ...) shows that the result is `Legit`
and brings in no new id; `EntriesSound` lifts them; one lemma per event follows, and
`CommitInv` shows that the tail accepts what they produce. Only a delivery brings in
an id, and there the proof uses the guard of `Delivered`: the server returns the id it
was asked to replace or one that no entry holds.

The action properties and the refinement of `OccurrencePhases` come from one relation
between an entry before and after an event. `Evolves(o, n, at, ids)` says that it moves
along the lifecycle, keeps the tombstone of a joined meeting while the meeting lasts
and numbers announcements and joins with new revisions; there is a lemma for each way a
handler rewrites an entry, and one that composes it with the tail of the reducer. With
the mapping of phases and ids, `Evolves` is a step of the contract or a stutter.

### The service

`DaemonProofs` reuses the lemmas about events: `HandleX` and `Loop.process` call the
operators that `Reducer` calls. What is new is what connects the state to the world.

* `RuntimeOK`: a busy flag stands for one command in a slot or one result on its way,
  never for both, and without the flag there is neither. So a slot is empty when it is
  filled.
* `Claims`: every id that the state, a command or a report holds has been handed out
  by the server (it is below `server.next`), and belongs to no other entry than the one
  the command is about. In `Reducer` that was a guard of the environment; here it
  follows from the server's counter and the way commands are built. It survives
  crashes, because claims under way are dropped with the runtime and the state on disk
  holds older ids only.
* `Accounted`: for each key, opens so far plus the `Debt` (a launch in its slot or a
  join that waits for one and has none under way) are at most clicks plus stops. A
  click that is accepted pays for the debt it makes; a stop forgets that a launch was
  made, and is paid for by `stops`. This is why `OneOpenPerClick` counts stops and not
  faults.

An event is cut in two: the handler, after which `Handled` holds of the new state and
runtime, and `process`, which commits or exits; the second half is proved once
(`ProcessOK`, `ProcessDeliveryOK`).

`NoWakeupIsLost` needs more, as work that finds its worker busy is dropped. `Awake`
says that what is ready has a busy worker in its way or a tick under way, `Covered` that
a busy worker has a command or a result that will bring the next event, and `Stamps` that
results are stamped with a time that is not ahead of the clock: an event handled for a
time gone by schedules all that was ready then, and wakes nothing that the last event at
the present time did not see. The part of `NoLostWakeup` about the session's activity holds
for an awake machine (`Prompt`) only, and says so: when calls outlast a poll
interval, an event is scheduled for the time it was stamped with, and a check that has
become necessary since then waits for the next event.

`WarningsSafe` says that a warning which waits was created an interval after the last
one shown, and that neither time lies ahead of the clock. `applyPollFailure` compares
the time of a poll and `ApplyWarningDelivery` stores that of a later delivery; the
invariant relates the two.

### What is on screen

The last part of `DaemonProofs` relates the durable state to the screen. A command copies a meeting
and a revision out of an entry; by the time it is answered the entry may have been
renewed, deleted, or deleted and created again. Each event is first taken entry by entry:
the lemmas named `...At` say what it makes of one entry, and what follows speaks of that
and no longer of the reducer.

`ScreenIsCurrent` rests on `SInv`. An entry that can be acted on is shown as it is
(`OnScreen`). The entry of a command or report under way is either `Fresh`, waiting for
it as it was, or `Past`, at a later revision or gone (`Known`). The danger is an entry
that is deleted and created again: its revisions start again from one, and a report of
its first life fits its second. That takes a poll that removes it and a later one that
lists it, both within one call. `Known` excludes the second: an account that was polled
since the last tick is polled again after the next one only, and that does not come before
the call has been answered, under `Prompt`.

`NothingIsOrphaned` rests on `OInv` too. What is on screen has an entry or a delivery on
its way (`Held`). An entry gives up a notification either through a close, whose success
says that it has left the screen (`Answered`), or when a signal says so (`Gone`), or after
it was acted on (`Good`). A delivery for an entry that has moved on changes nothing and is
therefore withdrawn, which is true only because the state is settled when the delivery is
handled (`Serving`, and the lemma `SettleTwice`): if an entry could expire in the same
event, that change would pass for the delivery's.

Three hypotheses are in the theorems, since without them the properties are false; TLC
shows each on an instance.

* `Prompt`. Otherwise the delivery of a first life reaches the second (`ShownIsCurrent`),
  and an expiry hides that a delivery was stale (`NothingOrphaned`).
* `EndsAfterStart`, that no meeting ends before it starts. Google refuses such events, the
  code does not compare the two times. A tick would delete an entry that is past its end
  in the middle of its announcement, and the next poll would create it again.
* `~ReusesID`, for `NothingIsOrphaned` only (section 5).

### Authorization and activity

For any set of setups and any number of faults:

* `AllWhole`: every bundle on disk, staged or loaded is flushed and carries the
  grant of its generation (needed because a refresh builds on what it loaded);
* `LockHeld`: a writer is between lock and unlock exactly when it holds the lock;
* `Staged`: what that writer has prepared, shown and flushed so far, so that a
  rename by the daemon cannot change the generation of the file;
* `Kept`: a reported bundle is in the file *and* durable, as a power loss may
  choose either;
* `Unseen`: a setup before its rename has left no trace;
* `Refused`: a refusal on its way or on record is of a withdrawn grant, and a
  daemon that is down has none on its way.

For any set of callers and any number of dials, the invariant says who is responsible
for a connection, since one exists before the reader knows of it and after it has
forgotten it:

* `OneMaker`: at most one caller dials, has dialled or discards, and while one does
  the reader has no connection and `Close` is not closing one;
* `MakerKnown`: while one dials the reader says so, the dial has a number, and a
  connection is discarded only after `Close`;
* `Closed`: a closed reader holds none, and `Close` closes only what it took;
* `Owned`: whatever is open belongs to the reader, to the caller that made or
  discards it, or to `Close`, and what they have is open.

### The session bus

* `SoundChannels` relates the places of the three goroutines to what they have closed:
  who has yet to close a channel has not, and who may still send on one finds it open.
  It gives `ChannelsAreClosedOnce`.
* `SoundOrder` follows a reply and the clicks behind it over the wire, through the
  reader and the buffer to the loop: behind a reply that is not yet recorded there is
  no click about it anywhere ahead. It gives `ClicksComeAfterRecords`.
* `Counted` numbers the signals: what has left the wire is 1, 2, ... in the order of
  the places it may be in, and what is still on the wire continues the count. It holds
  until the client is told to stop, for which `Connected` says who may end what.

`NothingDropped` is stated without a filter over the wire, since a recursive filter
could only be reasoned about by induction over data.

### The calendar source

For any calendars and events, any pages and any number of changes and polls:

* `Counted`. An occurrence is `Passed` when the poll is in a later calendar, or its place
  in the order of the list is not after the cursor. Of the occurrences that nobody has
  changed since the poll began, those that are passed have exactly one entry, and the
  others none. `PageMoves` is the heart: a page, however short, moves the cursor over
  exactly the unchanged occurrences that it lists, and the end of a calendar over
  those of that calendar only if nothing remains. An occurrence that is changed may be
  passed over or come twice, which is why `Complete` is about the unchanged ones.
* `Sourced` and `History`. Every entry is what `ClassifyCandidate` makes of a version that
  its event has had since the poll began. What that means is said by lemmas about the
  operators: `FirstIsOne` and `Selects` (the link of the most authoritative field that has
  a valid one), `EntryIsTrue` (a meeting or an observation, with the reason it should
  have), `EntryCanBeOpened` (the rewritten Zoom link passes the checks that the original
  passed, as it has its host).
* `KeysKnown`. The keys an occurrence was given are those of its versions;
  `KeysAreIdentities` shows that versions have one key exactly if they are of one
  occurrence.

`EventsAssumption` is what the API's types say of an event. `IdentityAssumption` is what
Google promises of `id`, `recurringEventId` and `originalStartTime`, in the terms of the
instants they stand for. `PatternsMeant` is the hypothesis that the configured patterns
accept, of the hosts that links name, those the user trusts. It is not an assumption of
the module, because a mistake in `allowedHost` should show as a violation of `WasSo`:
in the instance of `calendar` the trusted hosts are listed one by one, and it holds.

### The launcher

A join is correct by what its process knew when it took its snapshot and by what has
been done to its window since.

* `LayoutSound`: every workspace is in one place, which no reordering changes (the
  assumption `LayoutAssumption` says that it is so at login).
* `ProcessSound`: what a process has moved, moves and has yet to move are different
  windows on the desktop; a join has one at most.
* `AsItWas`: while nothing changes under it, the output and index that it resolved are
  those of its workspace.
* `OnTarget`: the windows that only this process has moved are where it wants them, and
  the one under way is on the right monitor after the first command. The second
  command takes the index on the monitor where the window *is*, which is why the first
  one is needed.
* `MeetingOnly`: what was open when the join began is in its snapshot.

`OthersKept` is the lemma for two launchers at once: a step of one keeps all that is
said of the other, since it may move the other's windows, but leaves its name on them.

### What stays with TLC

* Liveness (`JoinIsDecided`, `SetupEnds`, `SetupReachesDaemon`, `ClientEnds`,
  `SignalsArrive`, `OpenEnds`, `WaitersReturn`, `PollEnds`): fairness and ENABLED are
  out of the prover's reach.
* `AnnouncedIsListed` and `UnchangedNotReannounced` of `Reducer`, which are false
  (section 5).

## 5. Where the code and its documentation disagree

Two are runs that TLC refutes; `PROJECT.json` quotes both sides.

* `reducer_ghost`: a meeting removed while its notification is closing for a
  reschedule is resumed as scheduled, and announced although no calendar lists it.
* `reducer_zone`: `replacementRelevantChanged` (`daemon/reconcile.go:198`) compares
  `time.Time` with `!=`, and so the `Location` pointers. For an offset that is not a whole
  number of hours `time.Parse` allocates a location per parse, so each poll announces an
  unchanged meeting again, where the design (line 13) says "Notify at most once per
  eligible host during normal polling". The same holds, once, for a meeting whose times
  are respelled in another zone at the same instant, and for times without an offset,
  whose zone `time.LoadLocation` reads anew each time.

The others were found with the same modules and are recorded here.

* `daemon/daemon.go:138`: a delivery counts as stale when the whole state is
  unchanged. If expiry changed an entry in the same event, the delivery is
  acknowledged and its notification has no owner, where
  `stale_delivery_test.go:27` fails on "stale delivery acknowledged". It takes a
  Notify that outlasts a poll interval (`Prompt = FALSE`).
* `daemon/reconcile.go:112`: an entry that is removed while its Notify is in flight
  and listed again starts at revision 1 again, so the old delivery is accepted for
  the new announcement: the screen shows one link and *Join* opens another.
  `ShownIsCurrent` fails for `Prompt = FALSE` and a meeting whose lead window holds
  three polls; `phase3_revision_test.go:76` expects a refusal.
* `daemon/reducer_notifications.go:102`: a close signal is matched by id alone. When the
  user dismisses a notification while its replacement is being made, and the server shows the replacement
  under the same id, the signal of the old one arrives after the delivery of the
  new one and takes it for dismissed: the entry goes to history while its notification is
  on screen. *Join* still works, but a visible notification is now pruned as history: when
  its action expires the entry is deleted and nothing closes the notification, where
  `prune` begins a close for one that is `notified`. `NothingOrphaned` fails for `ReusesID = TRUE` and an
  `ActionLifetime` of two intervals. With a lifetime beyond `MaxTime` TLC had found nothing: it was the
  proof that asked why a signal should be about what is on screen now.
* `storage/atomic.go:98`: a save that fails after the rename leaves `notified` on
  disk while the loop takes back the notification, where the design (line 172) says
  that a failed write "leaves durable `notify-pending` recoverable".
* `launcher/niri.go:165` of the niri launcher: `open-url` takes the first new window
  of the profile. While the start-up script launches the same profile, or Firefox
  restores a session, that need not be the meeting's: the other window is moved and
  focused and the join reports success, where the notifier's `README.md:142` wants
  the new window on workspace 5.
* An index is resolved before Firefox is started (`niri_client.go:29`) and used up
  to 15 seconds later: if workspaces are reordered in between, the window goes to
  another one.
* `launch-profile` moves every new window, of whichever program, as the design says;
  one that the user opens during the start of a profile goes to that profile's
  workspace. If the window timeout ends a query rather than the wait between two,
  `launch-profile` fails, and `set -e` skips the remaining profiles.
* A niri command that is killed at its deadline ends with "signal: killed", not with
  `context.DeadlineExceeded`, so exit code 21, which `main.go:18` calls part of the
  stable protocol, is hardly ever used.
* A Zoom link whose query cannot be parsed is announced, and every click on *Join*
  fails (`meeting/zoom.go:28`): the exception that `Joinable` names.
* The design says that history is pruned when the event ends; the code prunes it
  when *Join* expires, 24 hours after delivery.
* `prune` deletes a replacement that is still undelivered after the meeting's end
  with the id of the notification it was to replace, which stays on screen
  (`expiry.go:14`; `daemon/final_lifecycle_test.go:34` expects a close at the
  meeting's start): this is the action `Abandon` of `OccurrencePhases`.

## 6. Not modelled

Events with missing payloads and invalid observations (no worker builds them); a
failing save during start-up; a notification server that restarts and hands out
ids again; accounts removed from the configuration; the quarantine of a corrupt
file; left-over temporary files; the OAuth login, whose outcomes are those of
`Prepare`; the trimming of prose and HTML around a link; the JSON of niri beyond
whether it can be decoded; windows that are closed while a launch looks for them;
where the focus is; the values of the session's properties; logging, status output,
formatting and configuration parsing. The shared PassFF host, the maintenance
scripts and the Nix configuration are listed with their reasons in `PROJECT.json`.

Weaknesses of the code that no property is about, because what the code does there
is what the model has:

* a connection to logind that the bus has broken is kept (`activity/logind.go:101`):
  every later check is degraded and lets notifications through, until the restart;
* the caller that dials logind has no deadline, and `Runtime.Run` waits for it when
  the service stops;
* a close that the server refuses (the id is gone) is retried for ever
  (`daemon/retry.go:44`), which needs a server that refuses ids;
* after a restart of the notification server a delivery may carry an id that another
  entry holds: `Validate` rejects it and the loop exits without compensation
  (`daemon/daemon.go:133`);
* an event that cannot be decoded fails every poll of its account until it leaves
  the window (`googlecalendar/reconcile.go:27`), and a network that is down counts as
  permanent (`googlecalendar/errors.go:46`), though every failed poll is retried alike;
* an event that an organiser moves to before the cursor of a running poll is missed by
  it, and its notification closed until the next poll lists it.

## 7. Plan

Done: all modules of section 2, with proofs of every invariant and action property that
the passing runs check. Next, in this order:

1. Close retries against a server that refuses unknown ids, and the quarantine of
   the state file, as actions of `Daemon`.
2. The OAuth loopback receiver.
