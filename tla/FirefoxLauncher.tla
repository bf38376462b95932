--------------------------- MODULE FirefoxLauncher ---------------------------
(***************************************************************************)
(* niri-firefox-launcher and its two users: the script that starts the      *)
(* Firefox profiles of the session, and the launcher worker of the meeting  *)
(* notifier, which runs open-url under a deadline and kills it if need be.  *)
(* Around them are niri (windows and workspaces), Firefox and the person at *)
(* the desktop (external).                                                  *)
(*                                                                          *)
(* One step is one niri command, one start of Firefox or one wait.  A query *)
(* that finds nothing new changes nothing, so polling is stuttering.        *)
(***************************************************************************)
EXTENDS Naturals, Sequences, FiniteSets

CONSTANTS
  Apps,         \* Firefox profiles, by their app id
  Home,         \* profile_workspaces: the workspace of each profile
  Profiles,     \* the profiles the script launches, in order
  MeetingApp,   \* the profile of the meeting's account
  Meeting,      \* the workspace configured for meetings
  Active,       \* the workspace on which the user works
  UserApps,     \* the apps of which the user opens windows
  Layout,       \* the workspaces of each output at login, top to bottom
  Restored,     \* bound: windows a session restore brings back
  MaxOpens,     \* bound: joins
  MaxWindows,   \* bound: windows on the desktop
  MaxChanges    \* bound: changes to the workspaces or the monitors

Outputs == DOMAIN Layout
Places == {q \in Outputs \X (1..10) : q[2] \in DOMAIN Layout[q[1]]}
Workspaces == {Layout[q[1]][q[2]] : q \in Places}
Launchers == {"startup", "meeting"}
Other == "other"   \* any program but Firefox

ASSUME DesktopAssumption ==
  /\ Workspaces \subseteq Nat \ {0}
  /\ Home \in [Apps -> Workspaces]
  /\ Profiles \in Seq(Apps) \ {<<>>} /\ MeetingApp \in Apps
  /\ UserApps \subseteq Apps \cup {Other} /\ {Meeting, Active} \subseteq Workspaces
  /\ {Restored, MaxOpens, MaxWindows, MaxChanges} \subseteq Nat

VARIABLES
  niri,     \* its windows by id, the order of the workspaces, and whether
            \* the monitors are off
  firefox,  \* profiles that run, and windows that are still to appear
  run,      \* for each user, the launcher process it runs or ran last
  worker,   \* RunLauncherWorker in Client.Open
  script,   \* firefox-profiles.sh: the number of the next launch
  history   \* windows open when the last join began, and changes so far

vars == <<niri, firefox, run, worker, script, history>>

(* A window has an app id and a workspace, shows a meeting (the number of   *)
(* the join, or 0) and has been moved by a set of users of the launcher.    *)
IDs == DOMAIN niri.windows

Dark == "none"

(* Niri keeps a workspace on every output, and each workspace in one place. *)
ASSUME LayoutAssumption ==
  /\ Dark \notin Outputs
  /\ Layout \in [Outputs -> Seq(Workspaces) \ {<<>>}]
  /\ \A o, q \in Outputs : \A i \in DOMAIN Layout[o], j \in DOMAIN Layout[q] :
       Layout[o][i] = Layout[q][j] => o = q /\ i = j

(* A new process, with the arguments on its command line.  It is steady     *)
(* while nobody changes the workspaces or the monitors under it.            *)
Process(command, app, goal) ==
  [at |-> "resolve", command |-> command, app |-> app, goal |-> goal,
   output |-> Dark, reference |-> goal, before |-> {}, todo |-> {}, id |-> 0,
   moved |-> {}, failed |-> FALSE, steady |-> ~niri.dark, ok |-> TRUE]

Init ==
  /\ niri = [windows |-> <<>>, layout |-> Layout, dark |-> FALSE]
  /\ firefox = [running |-> {}, coming |-> {}]
  /\ run = [p \in Launchers |->
              [Process("open-url", MeetingApp, Meeting) EXCEPT !.at = "idle"]]
  /\ worker = [at |-> "idle", n |-> 0, stopped |-> FALSE, result |-> "none"]
  /\ script = 1
  /\ history = [opening |-> {}, changes |-> 0]

-----------------------------------------------------------------------------
(* Niri and Firefox (external) *)

OutputOf(ws) ==
  CHOOSE o \in Outputs : \E i \in DOMAIN niri.layout[o] : niri.layout[o][i] = ws
IndexOf(ws) ==
  CHOOSE i \in DOMAIN niri.layout[OutputOf(ws)] :
    niri.layout[OutputOf(ws)][i] = ws

(* An index past the last workspace means the last one. *)
WorkspaceAt(o, i) ==
  LET s == niri.layout[o]
  IN s[IF i \in DOMAIN s THEN i ELSE Len(s)]

(* The workspace that an output shows. *)
ActiveOn(o) == IF OutputOf(Active) = o THEN Active ELSE WorkspaceAt(o, 1)

(* A window appears on the workspace that the rules name for its app. *)
Opened(app, shows, ws) ==
  [niri EXCEPT !.windows =
     Append(@, [app |-> app, ws |-> ws, shows |-> shows, by |-> {}])]

Appear(w) ==
  /\ w \in firefox.coming /\ Len(niri.windows) < MaxWindows
  /\ niri' = Opened(w.app, w.shows, Home[w.app])
  /\ firefox' = [firefox EXCEPT !.coming = @ \ {w}]
  /\ UNCHANGED <<run, worker, script, history>>

(* The user opens a window of a profile that runs, or of another program. *)
UserOpens(app) ==
  /\ Len(niri.windows) < MaxWindows
  /\ app \in firefox.running \cup {Other}
  /\ niri' = Opened(app, 0, IF app = Other THEN Active ELSE Home[app])
  /\ UNCHANGED <<firefox, run, worker, script, history>>

(* Workspaces are put in another order, or all monitors go off or on.       *)
Change(layout, dark) ==
  /\ history.changes < MaxChanges
  /\ niri' = [niri EXCEPT !.layout = layout, !.dark = dark]
  /\ run' = [p \in Launchers |-> 
              [run[p] EXCEPT !.steady = @ /\ run[p].at = "exited"]]
  /\ history' = [history EXCEPT !.changes = @ + 1]
  /\ UNCHANGED <<firefox, worker, script>>

Reversed(s) == [i \in DOMAIN s |-> s[Len(s) + 1 - i]]
Reorder(o) ==
  /\ Len(niri.layout[o]) > 1
  /\ Change([niri.layout EXCEPT ![o] = Reversed(@)], niri.dark)
SwitchMonitors == Change(niri.layout, ~niri.dark)

-----------------------------------------------------------------------------
(* The launcher *)

(* A process has ended, with or without an error (exit codes 1, 20 and 21   *)
(* differ only in the diagnostics they lead to); what it knew is gone.      *)
Ended(r, ok) ==
  LET end == [Process(r.command, r.app, r.goal) EXCEPT !.at = "exited",
                                                       !.ok = ok]
  IN IF ok THEN [end EXCEPT !.id = r.id, !.moved = r.moved,
                            !.failed = r.failed, !.steady = r.steady]
     ELSE end

Goto(p, at) == run' = [run EXCEPT ![p].at = at]
Exit(p, ok) == run' = [run EXCEPT ![p] = Ended(@, ok)]
Alone == UNCHANGED <<worker, script, history>>

(* resolveWorkspace: an output and an index, or no output and the name      *)
(* itself, which is a number too.                                           *)
Resolve(p) ==
  LET goal == run[p].goal
  IN /\ run[p].at = "resolve"
     /\ run' = [run EXCEPT
          ![p].output = IF niri.dark THEN Dark ELSE OutputOf(goal),
          ![p].reference = IF niri.dark THEN goal ELSE IndexOf(goal),
          ![p].at = IF run[p].command = "focus-workspace" THEN "focus"
                    ELSE "snapshot"]
     /\ UNCHANGED <<niri, firefox>> /\ Alone

(* Mutant: no window is known from before. *)
SnapshotOfNothing(p) ==
  /\ run[p].at = "snapshot"
  /\ Goto(p, "start")
  /\ UNCHANGED <<niri, firefox>> /\ Alone

Snapshot(p) ==
  /\ run[p].at = "snapshot"
  /\ run' = [run EXCEPT ![p].before = IDs, ![p].at = "start"]
  /\ UNCHANGED <<niri, firefox>> /\ Alone

(* startFirefox.  A profile that runs gets the link, or refuses a second    *)
(* instance; one that does not run also restores windows of its session.    *)
Coming(r) ==
  LET link == [app |-> r.app, shows |-> worker.n, k |-> 0]
      own == [app |-> r.app, shows |-> 0, k |-> 0]
      sets(k) == {[app |-> r.app, shows |-> 0, k |-> i] : i \in 1..k}
      first == IF r.command = "open-url" THEN {link} ELSE {own}
  IN IF r.app \in firefox.running
       THEN {IF r.command = "open-url" THEN {link} ELSE {}}
       ELSE {first \cup sets(k) : k \in 0..Restored}

StartFirefox(p, windows) ==
  /\ run[p].at = "start"
  /\ firefox' = [running |-> firefox.running \cup {run[p].app},
                 coming |-> firefox.coming \cup windows]
  /\ Goto(p, "observe")
  /\ UNCHANGED niri /\ Alone

(* newWindowIDs and matchingNewWindow *)
NewWindows(p) == IDs \ run[p].before
Matching(p) == {w \in NewWindows(p) : niri.windows[w].app = run[p].app}

FirstMove(p) == IF run[p].output = Dark THEN "workspace" ELSE "monitor"

(* waitForWindow in open-url: the first match in niri's answer. *)
ObserveMatch(p, w) ==
  /\ run[p].at = "observe" /\ run[p].command = "open-url"
  /\ w \in Matching(p)
  /\ run' = [run EXCEPT ![p].id = w, ![p].at = FirstMove(p)]
  /\ UNCHANGED <<niri, firefox>> /\ Alone

(* waitForWindow in launch-profile: any new window will do. *)
ObserveAny(p) ==
  /\ run[p].at = "observe" /\ run[p].command = "launch-profile"
  /\ NewWindows(p) # {}
  /\ Goto(p, "settle")
  /\ UNCHANGED <<niri, firefox>> /\ Alone

(* windowTimeout passes between two queries: an error only for open-url. *)
ObserveTimeout(p) ==
  /\ run[p].at = "observe"
  /\ Exit(p, run[p].command = "launch-profile")
  /\ UNCHANGED <<niri, firefox>> /\ Alone

(* launch-profile has waited restoreSettle and asks once more. *)
Settle(p, w) ==
  /\ run[p].at = "settle" /\ w \in NewWindows(p)
  /\ run' = [run EXCEPT ![p].todo = NewWindows(p) \ {w}, ![p].id = w,
                        ![p].at = FirstMove(p)]
  /\ UNCHANGED <<niri, firefox>> /\ Alone

(* moveWindow: two commands.  The second follows also when the first one    *)
(* failed, and one that is given up after commandTimeout may have moved the *)
(* window.  Niri ignores both while the monitors are off.                   *)
Move(p, ws) ==
  LET id == run[p].id
      moved == [niri.windows[id] EXCEPT !.ws = ws, !.by = @ \cup {p}]
  IN niri' = IF niri.dark THEN niri ELSE [niri EXCEPT !.windows[id] = moved]

(* Mutant: the index is taken on the monitor where the window opened. *)
StayOnMonitor(p, ok) ==
  /\ run[p].at = "monitor"
  /\ run' = [run EXCEPT ![p].at = "workspace",
                        ![p].moved = @ \cup {run[p].id}]
  /\ UNCHANGED <<niri, firefox>> /\ Alone

MoveToMonitor(p, ok) ==
  /\ run[p].at = "monitor"
  /\ run' = [run EXCEPT ![p].at = "workspace", ![p].failed = @ \/ ~ok,
                        ![p].moved = @ \cup {run[p].id}]
  /\ Move(p, ActiveOn(run[p].output)) \/ (~ok /\ UNCHANGED niri)
  /\ UNCHANGED firefox /\ Alone

(* After a window launch-profile takes the next one, whatever happened, and *)
(* open-url goes on to focus the one it has, unless a command failed.       *)
MoveToWorkspace(p, ok) ==
  LET r == run[p]
      failed == r.failed \/ ~ok
      moved == [r EXCEPT !.failed = failed, !.moved = r.moved \cup {r.id}]
      ws == WorkspaceAt(OutputOf(niri.windows[r.id].ws), r.reference)
  IN /\ r.at = "workspace"
     /\ Move(p, ws) \/ (~ok /\ UNCHANGED niri)
     /\ \/ /\ r.command = "open-url" /\ ~failed
           /\ run' = [run EXCEPT ![p] = [moved EXCEPT !.at = "focus"]]
        \/ /\ r.command = "open-url" /\ failed
           /\ run' = [run EXCEPT ![p] = Ended(moved, FALSE)]
        \/ \E w \in r.todo :
             run' = [run EXCEPT ![p] = [moved EXCEPT
                       !.at = FirstMove(p), !.id = w, !.todo = r.todo \ {w}]]
        \/ /\ r.command = "launch-profile" /\ r.todo = {}
           /\ run' = [run EXCEPT ![p] = Ended(moved, TRUE)]
     /\ UNCHANGED firefox /\ Alone

(* focusTarget, after which focus-workspace ends, and focusWindow.  Where   *)
(* the focus is does not matter here, so their commands are one step.       *)
Focus(p) ==
  /\ run[p].at = "focus"
  /\ Exit(p, TRUE)
  /\ UNCHANGED <<niri, firefox>> /\ Alone

(* A command fails, its answer cannot be decoded, it takes longer than      *)
(* commandTimeout, or is cut short by windowTimeout during the observation  *)
(* or by SIGTERM at any time; or Firefox cannot be started.                 *)
Fail(p) ==
  /\ run[p].at \notin {"idle", "monitor", "workspace", "exited"}
  /\ Exit(p, FALSE)
  /\ UNCHANGED <<niri, firefox>> /\ Alone

LauncherStep(p) ==
  \/ Resolve(p) \/ Snapshot(p)
  \/ \E windows \in Coming(run[p]) : StartFirefox(p, windows)
  \/ \E w \in IDs : ObserveMatch(p, w) \/ Settle(p, w)
  \/ ObserveAny(p) \/ ObserveTimeout(p)
  \/ \E ok \in BOOLEAN : MoveToMonitor(p, ok) \/ MoveToWorkspace(p, ok)
  \/ Focus(p)

-----------------------------------------------------------------------------
(* Client.Open in the launcher worker *)

Quiet == UNCHANGED <<niri, firefox, script>>

(* The link is refused or the process cannot be started, or it runs now. *)
BeginOpen(ok) ==
  /\ worker.at = "idle" /\ ~worker.stopped /\ worker.n < MaxOpens
  /\ worker' = [worker EXCEPT !.n = @ + 1,
                              !.at = IF ok THEN "running" ELSE "idle",
                              !.result = IF ok THEN "none" ELSE "failed"]
  /\ run' = IF ok THEN [run EXCEPT !["meeting"] =
                          Process("open-url", MeetingApp, Meeting)]
            ELSE run
  /\ history' = IF ok THEN [history EXCEPT !.opening = IDs] ELSE history
  /\ Quiet

(* Mutant: Run signals the group and returns without waiting. *)
TerminateAndReturn ==
  /\ worker.at = "running"
  /\ worker' = [worker EXCEPT !.at = "idle", !.result = "failed"]
  /\ UNCHANGED <<run, history>> /\ Quiet

(* The context ends, because launcherDeadline has passed or the service is  *)
(* stopped: osRunner.Run sends SIGTERM to the process group, which makes    *)
(* the launcher Fail when it gets to it.  (If it has ended already, the     *)
(* select may as well see that first; Reap gives the same result then.)     *)
Terminate ==
  /\ worker.at = "running"
  /\ worker' = [worker EXCEPT !.at = "terminating"]
  /\ UNCHANGED <<run, history>> /\ Quiet

StopService ==
  /\ ~worker.stopped
  /\ worker' = [worker EXCEPT !.stopped = TRUE,
                              !.at = IF @ = "running" THEN "terminating" ELSE @]
  /\ UNCHANGED <<run, history>> /\ Quiet

(* Mutant: there is no second signal. *)
NoKill == FALSE

(* After terminationGrace, SIGKILL. *)
Kill ==
  /\ worker.at = "terminating" /\ run["meeting"].at # "exited"
  /\ Exit("meeting", FALSE)
  /\ UNCHANGED <<worker, history>> /\ Quiet

(* The process has been waited for.  The end of the context comes before    *)
(* the outcome, also when the launcher has succeeded.                       *)
Reap ==
  /\ worker.at \in {"running", "terminating"} /\ run["meeting"].at = "exited"
  /\ worker' = [worker EXCEPT
                  !.at = IF worker.stopped THEN "gone" ELSE "idle",
                  !.result = IF worker.at = "running" /\ run["meeting"].ok
                               THEN "opened" ELSE "failed"]
  /\ UNCHANGED <<run, history>> /\ Quiet

(* The worker's own select between two joins. *)
WorkerReturns ==
  /\ worker.at = "idle" /\ worker.stopped
  /\ worker' = [worker EXCEPT !.at = "gone"]
  /\ UNCHANGED <<run, history>> /\ Quiet

WorkerStep == Terminate \/ Kill \/ Reap \/ WorkerReturns

-----------------------------------------------------------------------------
(* firefox-profiles.sh, under set -e *)

Free(p) == run[p].at \in {"idle", "exited"}
LastLaunch == Len(Profiles) + 1

LaunchNext ==
  /\ script \in DOMAIN Profiles /\ Free("startup") /\ run["startup"].ok
  /\ script' = script + 1
  /\ run' = [run EXCEPT !["startup"] =
               Process("launch-profile", Profiles[script],
                       Home[Profiles[script]])]
  /\ UNCHANGED <<niri, firefox, worker, history>>

(* The last command; its failure is ignored. *)
LaunchFocus ==
  /\ script = LastLaunch /\ Free("startup") /\ run["startup"].ok
  /\ script' = LastLaunch + 1
  /\ run' = [run EXCEPT !["startup"] =
               Process("focus-workspace", Profiles[1], Home[Profiles[1]])]
  /\ UNCHANGED <<niri, firefox, worker, history>>

(* A launch that failed ends the script. *)
Abort ==
  /\ script \in 1..LastLaunch /\ Free("startup") /\ ~run["startup"].ok
  /\ script' = 0
  /\ UNCHANGED <<niri, firefox, run, worker, history>>

ScriptStep == LauncherStep("startup") \/ LaunchNext \/ LaunchFocus \/ Abort

-----------------------------------------------------------------------------
Next ==
  \/ \E w \in firefox.coming : Appear(w)
  \/ \E app \in UserApps : UserOpens(app)
  \/ \E o \in Outputs : Reorder(o)
  \/ SwitchMonitors
  \/ LauncherStep("meeting")
  \/ \E p \in Launchers : Fail(p)
  \/ \E ok \in BOOLEAN : BeginOpen(ok)
  \/ StopService \/ WorkerStep \/ ScriptStep

Spec == Init /\ [][Next]_vars

(* Timers fire and goroutines run.  Nothing is assumed of the launcher that *)
(* the worker started, nor of the script, Firefox, niri or the user.        *)
Fairness == WF_vars(WorkerStep)

FairSpec == Spec /\ Fairness

-----------------------------------------------------------------------------
(* Properties *)

(* Client.Open returns only after its launcher is gone, on every path: no   *)
(* command of a join that was given up can move or focus a window while the *)
(* next join runs, or after the service has stopped.                        *)
NoLauncherLeft ==
  worker.at \in {"idle", "gone"} => Free("meeting")

(* A join moves one window at most, of the account's profile, and never one *)
(* that was on the desktop when the join began, whatever opens meanwhile.   *)
OthersUntouched ==
  LET moved == run["meeting"].moved
  IN /\ moved \cap history.opening = {}
     /\ Cardinality(moved) <= 1
     /\ \A w \in moved : niri.windows[w].app = MeetingApp

(* A join that exits with 0 has moved a window, and like a profile launch   *)
(* whose commands all succeeded it has left what it moved on the workspace  *)
(* it was asked for, on whichever monitor that is, unless the other         *)
(* launcher moved the window too or the workspaces changed under it.        *)
Placed ==
  \A p \in Launchers :
    LET r == run[p]
    IN r.at = "exited" /\ r.ok =>
         /\ r.command = "open-url" => r.moved = {r.id}
         /\ r.steady /\ (r.failed => r.command = "open-url") =>
              \A w \in r.moved : niri.windows[w].by = {p} =>
                niri.windows[w].ws = r.goal

(* Client.Open comes to an end even if the launcher hangs and ignores       *)
(* SIGTERM, so one bad join does not block all later ones, and the service  *)
(* can stop.                                                                *)
OpenEnds == worker.at # "idle" ~> worker.at \in {"idle", "gone"}

=============================================================================
