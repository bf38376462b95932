----------------------- MODULE FirefoxLauncherProofs -----------------------
(***************************************************************************)
(* Proofs about the niri Firefox launcher and the meeting notifier's worker *)
(* that runs it, for every desktop that satisfies the assumptions and any   *)
(* number of joins, windows, restored windows and changes.                  *)
(*                                                                          *)
(* LayoutSound: every workspace is in one place.  ProcessSound: what a      *)
(* process has moved, moves and has yet to move are different windows.      *)
(* AsItWas: while nothing changes under it, the output and the index that   *)
(* a process has resolved are still those of its workspace.  OnTarget: a    *)
(* window that only this process has moved is where the process wants it,   *)
(* but for the one that is under way, which is on the right monitor.        *)
(* MeetingOnly: what was open when a join began is known to it before it    *)
(* looks for its window.                                                    *)
(***************************************************************************)
EXTENDS FirefoxLauncher, SequenceTheorems, FiniteSetTheorems, TLAPS

-----------------------------------------------------------------------------
(* Types *)

LaunchCommands == {"open-url", "launch-profile", "focus-workspace"}

WindowType ==
  [app : Apps \cup {Other}, ws : Workspaces, shows : Nat, by : SUBSET Launchers]
NiriType ==
  [windows : Seq(WindowType), layout : [Outputs -> Seq(Workspaces)],
   dark : BOOLEAN]
ComingType == [app : Apps, shows : Nat, k : Nat]
FirefoxType == [running : SUBSET Apps, coming : SUBSET ComingType]
ProcessType ==
  [at : {"idle", "resolve", "snapshot", "start", "observe", "settle",
         "monitor", "workspace", "focus", "exited"},
   command : LaunchCommands, app : Apps, goal : Workspaces,
   output : Outputs \cup {Dark}, reference : Nat, before : SUBSET Nat,
   todo : SUBSET Nat, id : Nat, moved : SUBSET Nat, failed : BOOLEAN,
   steady : BOOLEAN, ok : BOOLEAN]
WorkerType ==
  [at : {"idle", "running", "terminating", "gone"}, n : Nat,
   stopped : BOOLEAN, result : {"none", "opened", "failed"}]
HistoryType == [opening : SUBSET Nat, changes : Nat]

TypeOK ==
  /\ niri \in NiriType /\ firefox \in FirefoxType
  /\ run \in [Launchers -> ProcessType] /\ worker \in WorkerType
  /\ script \in Nat /\ history \in HistoryType

LEMMA WorkspacesAreNat ==
  /\ Workspaces \subseteq Nat /\ Meeting \in Workspaces /\ Active \in Workspaces
  /\ MeetingApp \in Apps /\ \A app \in Apps : Home[app] \in Workspaces
  /\ Len(Profiles) \in Nat \ {0} /\ \A i \in 1..Len(Profiles) : Profiles[i] \in Apps
<1>1. Profiles \in Seq(Apps) /\ Profiles # <<>>
      BY DesktopAssumption
<1>2. Len(Profiles) \in Nat \ {0} /\ \A i \in 1..Len(Profiles) : Profiles[i] \in Apps
      BY <1>1
<1> QED
    BY <1>2, DesktopAssumption

LEMMA NewProcess ==
  ASSUME NEW command \in LaunchCommands, NEW app \in Apps,
         NEW goal \in Workspaces, niri.dark \in BOOLEAN
  PROVE  /\ Process(command, app, goal) \in ProcessType
         /\ [Process(command, app, goal) EXCEPT !.at = "idle"] \in ProcessType
<1>1. goal \in Nat
      BY WorkspacesAreNat
<1> QED
    BY <1>1 DEF Process, ProcessType

LEMMA ProcessTyped ==
  ASSUME NEW command \in LaunchCommands, NEW app \in Apps,
         NEW goal \in Workspaces, TypeOK
  PROVE  Process(command, app, goal) \in ProcessType
BY NewProcess DEF TypeOK, NiriType

LEMMA EndedTyped ==
  ASSUME TypeOK, NEW r \in ProcessType, NEW ok \in BOOLEAN
  PROVE  Ended(r, ok) \in ProcessType
<1>1. /\ r.command \in LaunchCommands /\ r.app \in Apps /\ r.goal \in Workspaces
      /\ r.id \in Nat /\ r.moved \in SUBSET Nat /\ r.failed \in BOOLEAN
      /\ r.steady \in BOOLEAN
      BY DEF ProcessType
<1>2. PICK q \in ProcessType : q = Process(r.command, r.app, r.goal)
      BY <1>1, ProcessTyped
<1> QED
    BY <1>1, <1>2 DEF Ended, ProcessType

LEMMA IDsAreNat ==
  ASSUME TypeOK
  PROVE  /\ IDs = 1..Len(niri.windows) /\ Len(niri.windows) \in Nat
         /\ IDs \subseteq Nat /\ \A w \in IDs : niri.windows[w] \in WindowType
<1>1. niri.windows \in Seq(WindowType)
      BY DEF TypeOK, NiriType
<1> QED
    BY <1>1 DEF IDs

-----------------------------------------------------------------------------
(* Outputs and workspaces *)

LayoutSound ==
  /\ \A o, q \in Outputs :
       \A i \in 1..Len(niri.layout[o]), j \in 1..Len(niri.layout[q]) :
         niri.layout[o][i] = niri.layout[q][j] => o = q /\ i = j
  /\ \A ws \in Workspaces : \E o \in Outputs :
       \E i \in 1..Len(niri.layout[o]) : niri.layout[o][i] = ws
  /\ \A o \in Outputs : Len(niri.layout[o]) # 0

LEMMA WorkspaceFound ==
  ASSUME TypeOK, LayoutSound, NEW ws \in Workspaces
  PROVE  /\ OutputOf(ws) \in Outputs
         /\ IndexOf(ws) \in 1..Len(niri.layout[OutputOf(ws)])
         /\ niri.layout[OutputOf(ws)][IndexOf(ws)] = ws
<1>1. \A o \in Outputs : DOMAIN niri.layout[o] = 1..Len(niri.layout[o])
  <2>1. \A o \in Outputs : niri.layout[o] \in Seq(Workspaces)
        BY DEF TypeOK, NiriType
  <2> QED
      BY <2>1
<1>2. \E o \in Outputs : \E i \in DOMAIN niri.layout[o] : niri.layout[o][i] = ws
      BY <1>1 DEF LayoutSound
<1>3. /\ OutputOf(ws) \in Outputs
      /\ \E i \in DOMAIN niri.layout[OutputOf(ws)] :
           niri.layout[OutputOf(ws)][i] = ws
      BY <1>2 DEF OutputOf
<1>4. /\ IndexOf(ws) \in DOMAIN niri.layout[OutputOf(ws)]
      /\ niri.layout[OutputOf(ws)][IndexOf(ws)] = ws
      BY <1>3 DEF IndexOf
<1> QED
    BY <1>1, <1>3, <1>4

LEMMA WorkspaceAtFound ==
  ASSUME TypeOK, LayoutSound, NEW o \in Outputs, NEW i \in Nat
  PROVE  /\ WorkspaceAt(o, i) \in Workspaces
         /\ OutputOf(WorkspaceAt(o, i)) = o
         /\ i \in 1..Len(niri.layout[o]) => WorkspaceAt(o, i) = niri.layout[o][i]
<1>1. /\ niri.layout[o] \in Seq(Workspaces) /\ Len(niri.layout[o]) \in Nat \ {0}
      /\ DOMAIN niri.layout[o] = 1..Len(niri.layout[o])
  <2>1. niri.layout[o] \in Seq(Workspaces)
        BY DEF TypeOK, NiriType
  <2> QED
      BY <2>1 DEF LayoutSound
<1>2. PICK j \in 1..Len(niri.layout[o]) :
        /\ WorkspaceAt(o, i) = niri.layout[o][j]
        /\ i \in 1..Len(niri.layout[o]) => j = i
      BY <1>1 DEF WorkspaceAt
<1>3. WorkspaceAt(o, i) \in Workspaces
      BY <1>1, <1>2
<1>4. PICK ws \in Workspaces : ws = WorkspaceAt(o, i)
      BY <1>3
<1>5. OutputOf(ws) = o
      BY <1>2, <1>4, WorkspaceFound DEF LayoutSound
<1> QED
    BY <1>2, <1>3, <1>4, <1>5

LEMMA ActiveFound ==
  ASSUME TypeOK, LayoutSound, NEW o \in Outputs
  PROVE  ActiveOn(o) \in Workspaces /\ OutputOf(ActiveOn(o)) = o
BY WorkspacesAreNat, WorkspaceAtFound DEF ActiveOn

(* What the places of workspaces are is said by the layout alone. *)
LEMMA PlacesKept ==
  ASSUME niri'.layout = niri.layout
  PROVE  /\ LayoutSound => LayoutSound'
         /\ \A ws : OutputOf(ws)' = OutputOf(ws) /\ IndexOf(ws)' = IndexOf(ws)
BY DEF LayoutSound, OutputOf, IndexOf

-----------------------------------------------------------------------------
(* What steps do to niri *)

LEMMA OpenedWindows ==
  ASSUME TypeOK, NEW app \in Apps \cup {Other}, NEW shows \in Nat,
         NEW ws \in Workspaces, niri' = Opened(app, shows, ws)
  PROVE  /\ niri' \in NiriType /\ niri'.layout = niri.layout
         /\ niri'.dark = niri.dark
         /\ IDs \subseteq IDs' /\ \A w \in IDs : niri'.windows[w] = niri.windows[w]
<1>1. niri.windows \in Seq(WindowType)
      BY DEF TypeOK, NiriType
<1>2. PICK new \in WindowType :
        new = [app |-> app, ws |-> ws, shows |-> shows, by |-> {}]
      BY DEF WindowType
<1>3. niri' = [niri EXCEPT !.windows = Append(niri.windows, new)]
      BY <1>2 DEF Opened
<1>4. /\ niri'.windows = Append(niri.windows, new)
      /\ niri'.layout = niri.layout /\ niri'.dark = niri.dark
      BY <1>3 DEF TypeOK, NiriType
<1>5. niri' \in NiriType
  <2>1. Append(niri.windows, new) \in Seq(WindowType)
        BY <1>1
  <2> QED
      BY <1>3, <2>1 DEF TypeOK, NiriType
<1>6. IDs' = 1..(Len(niri.windows) + 1) /\ IDs = 1..Len(niri.windows)
      BY <1>1, <1>4, AppendProperties DEF IDs
<1>7. \A w \in IDs : niri'.windows[w] = niri.windows[w]
      BY <1>1, <1>4, <1>6, AppendProperties
<1>8. Len(niri.windows) \in Nat
      BY <1>1
<1> QED
    BY <1>4, <1>5, <1>6, <1>7, <1>8

(* A move touches one window, and nothing while the monitors are off. *)
LEMMA MovedWindows ==
  ASSUME TypeOK, NEW p \in Launchers, NEW ws \in Workspaces,
         run[p].id \in IDs, Move(p, ws)
  PROVE  /\ niri' \in NiriType /\ niri'.layout = niri.layout
         /\ niri'.dark = niri.dark /\ IDs' = IDs
         /\ \A w \in IDs : niri'.windows[w].app = niri.windows[w].app
         /\ \A w \in IDs : w # run[p].id => niri'.windows[w] = niri.windows[w]
         /\ ~niri.dark =>
              /\ niri'.windows[run[p].id].ws = ws
              /\ niri'.windows[run[p].id].by = niri.windows[run[p].id].by \cup {p}
         /\ niri.dark => niri' = niri
<1>1. CASE niri.dark
  <2>1. niri' = niri
        BY <1>1 DEF Move
  <2> QED
      BY <1>1, <2>1 DEF TypeOK, IDs
<1>2. CASE ~niri.dark
  <2>1. PICK id \in IDs : id = run[p].id
        OBVIOUS
  <2>2. /\ niri.windows \in Seq(WindowType) /\ niri.windows[id] \in WindowType
        /\ id \in 1..Len(niri.windows) /\ IDs = 1..Len(niri.windows)
        BY IDsAreNat DEF TypeOK, NiriType
  <2>3. PICK new \in WindowType :
          new = [niri.windows[id] EXCEPT !.ws = ws, !.by = @ \cup {p}]
        BY <2>2 DEF WindowType
  <2>4. niri' = [niri EXCEPT !.windows = [niri.windows EXCEPT ![id] = new]]
        BY <1>2, <2>1, <2>3, Zenon DEF Move
  <2>5. /\ niri'.windows = [niri.windows EXCEPT ![id] = new]
        /\ niri'.layout = niri.layout /\ niri'.dark = niri.dark
        BY <2>4 DEF TypeOK, NiriType
  <2>6. [niri.windows EXCEPT ![id] = new] \in Seq(WindowType)
        BY <2>2, ExceptSeq
  <2>7. niri' \in NiriType
        BY <2>4, <2>6 DEF TypeOK, NiriType
  <2>8. /\ IDs' = IDs /\ niri'.windows[id] = new
        /\ \A w \in IDs : w # id => niri'.windows[w] = niri.windows[w]
        BY <2>2, <2>5 DEF IDs
  <2>9. /\ new.app = niri.windows[id].app /\ new.ws = ws
        /\ new.by = niri.windows[id].by \cup {p}
        BY <2>2, <2>3 DEF WindowType
  <2> QED
      BY <1>2, <2>1, <2>5, <2>7, <2>8, <2>9
<1> QED
    BY <1>1, <1>2

-----------------------------------------------------------------------------
(* The invariant *)

Seeking == {"resolve", "snapshot", "start", "observe", "settle"}
Moving == {"monitor", "workspace"}

(* What a process has moved, moves and has yet to move. *)
ProcessSound(p) ==
  LET r == run[p]
  IN /\ r.moved \subseteq IDs /\ r.todo \subseteq IDs
     /\ r.at \in Seeking \cup {"idle"} =>
          r.moved = {} /\ r.todo = {} /\ ~r.failed
     /\ r.at \in Moving =>
          r.id \in IDs /\ r.id \notin r.todo /\ r.command # "focus-workspace"
     /\ r.at = "monitor" => r.id \notin r.moved /\ r.output # Dark
     /\ \A w \in r.todo : w \notin r.moved
     /\ r.command = "open-url" =>
          /\ r.moved \subseteq {r.id} /\ r.todo = {}
          /\ r.at \in {"monitor", "focus"} => ~r.failed
          /\ r.at = "focus" => r.moved = {r.id}
          /\ r.at = "exited" /\ r.ok => r.moved = {r.id} /\ ~r.failed
     /\ r.command = "focus-workspace" => r.moved = {}
     /\ r.at = "settle" => r.command = "launch-profile"
     /\ r.at = "focus" => r.command # "launch-profile"
     /\ r.at = "exited" => r.todo = {}

(* Nothing has changed under a steady process. *)
AsItWas(p) ==
  LET r == run[p]
  IN r.steady /\ r.at \notin {"idle", "exited"} =>
       /\ ~niri.dark
       /\ r.at # "resolve" =>
            /\ r.output \in Outputs
            /\ r.reference \in 1..Len(niri.layout[r.output])
            /\ niri.layout[r.output][r.reference] = r.goal

(* Where the windows are that only this process has moved. *)
OnTarget(p) ==
  LET r == run[p]
      done == {w \in r.moved : ~(r.at \in Moving /\ w = r.id)}
  IN r.steady /\ ~r.failed =>
       /\ \A w \in done :
            niri.windows[w].by = {p} => niri.windows[w].ws = r.goal
       /\ r.at = "workspace" =>
            /\ p \in niri.windows[r.id].by
            /\ niri.windows[r.id].by = {p} =>
                 \E i \in 1..Len(niri.layout[r.output]) :
                   niri.layout[r.output][i] = niri.windows[r.id].ws

(* The join's process knows what was open when it began. *)
MeetingOnly ==
  LET r == run["meeting"]
  IN /\ r.command = "open-url" /\ r.app = MeetingApp
     /\ history.opening \subseteq IDs
     /\ r.at \in {"start", "observe", "focus"} \cup Moving =>
          history.opening \subseteq r.before
     /\ r.at \in {"focus"} \cup Moving =>
          /\ r.id \in IDs /\ r.id \notin r.before
          /\ niri.windows[r.id].app = MeetingApp
     /\ \A w \in r.moved :
          w \notin history.opening /\ niri.windows[w].app = MeetingApp

FInv ==
  /\ TypeOK /\ LayoutSound /\ MeetingOnly /\ NoLauncherLeft
  /\ \A p \in Launchers : ProcessSound(p) /\ AsItWas(p) /\ OnTarget(p)

(* A step in which nobody but p moves windows, and none is lost. *)
OnlyMovedBy(p) ==
  /\ niri' \in NiriType
  /\ niri'.layout = niri.layout /\ niri'.dark = niri.dark
  /\ IDs \subseteq IDs'
  /\ \A w \in IDs :
       /\ niri'.windows[w].app = niri.windows[w].app
       /\ \/ niri'.windows[w] = niri.windows[w]
          \/ /\ p \in niri'.windows[w].by
             /\ niri.windows[w].by \subseteq niri'.windows[w].by

LEMMA OthersKept ==
  ASSUME FInv, NEW p \in Launchers, NEW q \in Launchers, p # q,
         OnlyMovedBy(p), run'[q] = run[q]
  PROVE  ProcessSound(q)' /\ AsItWas(q)' /\ OnTarget(q)'
<1>1. PICK r \in ProcessType : r = run[q] /\ r = run'[q]
      BY DEF FInv, TypeOK
<1>2. ProcessSound(q) /\ AsItWas(q) /\ OnTarget(q)
      BY DEF FInv
<1>3. ProcessSound(q)'
      BY <1>1, <1>2 DEF ProcessSound, OnlyMovedBy
<1>4. AsItWas(q)'
      BY <1>1, <1>2 DEF AsItWas, OnlyMovedBy
<1>5. r.moved \subseteq IDs /\ (r.at = "workspace" => r.id \in IDs)
      BY <1>1, <1>2 DEF ProcessSound, Moving
<1>6. ASSUME NEW w \in IDs
      PROVE  /\ q \in niri.windows[w].by => q \in niri'.windows[w].by
             /\ niri'.windows[w].by = {q} => niri'.windows[w] = niri.windows[w]
      BY DEF OnlyMovedBy
<1>7. niri'.layout = niri.layout
      BY DEF OnlyMovedBy
<1>8. ASSUME r.steady, ~r.failed
      PROVE  /\ \A w \in {w \in r.moved : ~(r.at \in Moving /\ w = r.id)} :
                  niri'.windows[w].by = {q} => niri'.windows[w].ws = r.goal
             /\ r.at = "workspace" =>
                  /\ q \in niri'.windows[r.id].by
                  /\ niri'.windows[r.id].by = {q} =>
                       \E i \in 1..Len(niri'.layout[r.output]) :
                         niri'.layout[r.output][i] = niri'.windows[r.id].ws
  <2>1. /\ \A w \in {w \in r.moved : ~(r.at \in Moving /\ w = r.id)} :
             niri.windows[w].by = {q} => niri.windows[w].ws = r.goal
        /\ r.at = "workspace" =>
             /\ q \in niri.windows[r.id].by
             /\ niri.windows[r.id].by = {q} =>
                  \E i \in 1..Len(niri.layout[r.output]) :
                    niri.layout[r.output][i] = niri.windows[r.id].ws
        BY <1>1, <1>2, <1>8 DEF OnTarget
  <2> QED
      BY <1>5, <1>6, <1>7, <2>1
<1>9. OnTarget(q)'
      BY <1>1, <1>8 DEF OnTarget
<1> QED
    BY <1>3, <1>4, <1>9

(* The meeting's process when it does not move itself. *)
LEMMA MeetingKept ==
  ASSUME FInv, NEW p \in Launchers, OnlyMovedBy(p),
         run'["meeting"] = run["meeting"], history'.opening = history.opening
  PROVE  MeetingOnly'
<1>1. ProcessSound("meeting")
      BY DEF FInv, Launchers
<1>2. run["meeting"].moved \subseteq IDs
      BY <1>1 DEF ProcessSound
<1> QED
    BY <1>2 DEF FInv, MeetingOnly, OnlyMovedBy

(* A step after which a process is r. *)
Becomes(p, r) == run' = [run EXCEPT ![p] = r]

LEMMA BecomesTyped ==
  ASSUME TypeOK, NEW p \in Launchers, NEW r \in ProcessType, Becomes(p, r)
  PROVE  /\ run' \in [Launchers -> ProcessType] /\ run'[p] = r
         /\ \A q \in Launchers : q # p => run'[q] = run[q]
BY DEF TypeOK, Becomes

LEMMA NothingMoved ==
  ASSUME FInv, niri' = niri, NEW p \in Launchers
  PROVE  OnlyMovedBy(p) /\ IDs' = IDs /\ LayoutSound'
BY PlacesKept DEF FInv, TypeOK, OnlyMovedBy, IDs

(* A step of a process, once it is known to be right for the process. *)
LEMMA ProcessActs ==
  ASSUME FInv, NEW p \in Launchers, NEW s \in ProcessType, Becomes(p, s),
         OnlyMovedBy(p), firefox' \in FirefoxType, Alone,
         run[p].at \notin {"idle", "exited"} \/ worker.at = "terminating",
         ProcessSound(p)', AsItWas(p)', OnTarget(p)',
         p = "meeting" => MeetingOnly'
  PROVE  FInv'
<1>1. /\ run' \in [Launchers -> ProcessType] /\ run'[p] = s
      /\ \A q \in Launchers : q # p => run'[q] = run[q]
      BY BecomesTyped DEF FInv
<1>2. TypeOK'
      BY <1>1 DEF FInv, TypeOK, OnlyMovedBy, Alone
<1>3. LayoutSound'
      BY PlacesKept DEF FInv, OnlyMovedBy
<1>4. MeetingOnly'
  <2>1. CASE p = "meeting"
        BY <2>1
  <2>2. CASE p # "meeting"
    <3>1. run'["meeting"] = run["meeting"] /\ history'.opening = history.opening
          BY <1>1, <2>2 DEF Launchers, Alone
    <3> QED
        BY <3>1, MeetingKept
  <2> QED
      BY <2>1, <2>2
<1>5. NoLauncherLeft'
      BY <1>1 DEF FInv, NoLauncherLeft, Free, Alone, Launchers
<1>6. ASSUME NEW q \in Launchers
      PROVE  ProcessSound(q)' /\ AsItWas(q)' /\ OnTarget(q)'
      BY <1>1, OthersKept
<1> QED
    BY <1>2, <1>3, <1>4, <1>5, <1>6 DEF FInv

(* A process that ends. *)
LEMMA ExitActs ==
  ASSUME FInv, NEW p \in Launchers, NEW ok \in BOOLEAN, Exit(p, ok),
         UNCHANGED <<niri, firefox>>, Alone,
         run[p].at \notin {"idle", "exited"} \/ worker.at = "terminating",
         ok => run[p].at \in Seeking \cup {"focus"},
         ok /\ run[p].command = "open-url" => run[p].at = "focus"
  PROVE  FInv'
<1>1. PICK r \in ProcessType : r = run[p]
      BY DEF FInv, TypeOK
<1>2. PICK s \in ProcessType : s = Ended(r, ok)
      BY EndedTyped DEF FInv
<1>3. Becomes(p, s)
      BY <1>1, <1>2 DEF Exit, Becomes
<1>4. run'[p] = s
      BY <1>3, BecomesTyped DEF FInv
<1>5. /\ s.at = "exited" /\ s.command = r.command /\ s.app = r.app
      /\ s.goal = r.goal /\ s.todo = {} /\ s.ok = ok
      /\ ~ok => s.moved = {} /\ s.failed = FALSE
      /\ ok => /\ s.moved = r.moved /\ s.failed = r.failed /\ s.id = r.id
               /\ s.steady = r.steady
  <2>1. /\ r.command \in LaunchCommands /\ r.app \in Apps /\ r.goal \in Workspaces
        BY DEF ProcessType
  <2>2. PICK q \in ProcessType : q = Process(r.command, r.app, r.goal)
        BY <2>1, ProcessTyped DEF FInv
  <2>3. /\ q.command = r.command /\ q.app = r.app /\ q.goal = r.goal
        /\ q.todo = {} /\ q.moved = {} /\ q.failed = FALSE
        BY <2>2 DEF Process
  <2>4. CASE ok
        BY <1>2, <2>2, <2>3, <2>4 DEF Ended, ProcessType
  <2>5. CASE ~ok
        BY <1>2, <2>2, <2>3, <2>5 DEF Ended, ProcessType
  <2> QED
      BY <2>4, <2>5
<1>6. OnlyMovedBy(p) /\ IDs' = IDs
      BY NothingMoved
<1>7. ProcessSound(p) /\ OnTarget(p)
      BY DEF FInv
<1>8. ProcessSound(p)'
  <2>1. s.moved \subseteq IDs
        BY <1>1, <1>5, <1>7 DEF ProcessSound
  <2>2. s.command = "open-url" =>
          s.moved \subseteq {s.id} /\ (s.ok => s.moved = {s.id} /\ ~s.failed)
        BY <1>1, <1>5, <1>7 DEF ProcessSound
  <2>3. s.command = "focus-workspace" => s.moved = {}
        BY <1>1, <1>5, <1>7 DEF ProcessSound
  <2> QED
      BY <1>4, <1>5, <1>6, <2>1, <2>2, <2>3 DEF ProcessSound, Seeking, Moving
<1>9. AsItWas(p)'
      BY <1>4, <1>5 DEF AsItWas
<1>10. OnTarget(p)'
  <2>1. ASSUME s.steady, ~s.failed, NEW w \in s.moved, niri.windows[w].by = {p}
        PROVE  niri.windows[w].ws = s.goal
        BY <1>1, <1>5, <1>7, <2>1 DEF OnTarget, Moving, Seeking
  <2> QED
      BY <1>4, <1>5, <2>1 DEF OnTarget
<1>11. p = "meeting" => MeetingOnly'
  <2>1. ASSUME p = "meeting"
        PROVE  MeetingOnly'
    <3>1. run["meeting"] = r /\ run'["meeting"] = s
          BY <1>1, <1>4, <2>1
    <3>2. s.moved \subseteq r.moved
          BY <1>5
    <3> QED
        BY <1>5, <1>6, <3>1, <3>2 DEF FInv, MeetingOnly, Moving, Alone
  <2> QED
      BY <2>1
<1>12. firefox' \in FirefoxType
      BY DEF FInv, TypeOK
<1> QED
    BY <1>3, <1>6, <1>8, <1>9, <1>10, <1>11, <1>12, ProcessActs

LEMMA FocusActs ==
  ASSUME FInv, NEW p \in Launchers, Focus(p)
  PROVE  FInv'
BY ExitActs DEF Focus, Seeking

LEMMA ObserveTimeoutActs ==
  ASSUME FInv, NEW p \in Launchers, ObserveTimeout(p)
  PROVE  FInv'
BY ExitActs DEF ObserveTimeout, Seeking

LEMMA FailActs ==
  ASSUME FInv, NEW p \in Launchers, Fail(p)
  PROVE  FInv'
BY ExitActs DEF Fail

LEMMA KillActs ==
  ASSUME FInv, Kill
  PROVE  FInv'
BY ExitActs DEF Kill, Quiet, Alone, Launchers

(* A process in a step that moves nothing and after which it has moved      *)
(* nothing yet, or goes on to move.                                         *)
LEMMA SeekingActs ==
  ASSUME FInv, NEW p \in Launchers, NEW s \in ProcessType, Becomes(p, s),
         niri' = niri, firefox' \in FirefoxType, Alone,
         run[p].at \in Seeking, s.at \in Seeking \cup {"monitor", "workspace", "focus"},
         /\ s.moved = {} /\ ~s.failed /\ s.command = run[p].command
         /\ s.app = run[p].app /\ s.goal = run[p].goal
         /\ s.steady = run[p].steady
         /\ s.todo \subseteq IDs /\ (s.at \in Seeking => s.todo = {}),
         s.command = "open-url" => s.todo = {} /\ s.at # "focus",
         s.at = "settle" => s.command = "launch-profile",
         s.at \in Moving =>
           s.command # "focus-workspace" /\ s.id \in IDs /\ s.id \notin s.todo,
         s.at = "workspace" => ~s.steady, s.at = "monitor" => s.output # Dark,
         s.at = "focus" => s.command = "focus-workspace",
         AsItWas(p)',
         p = "meeting" /\ s.at \in {"start", "observe"} \cup Moving =>
           history.opening \subseteq s.before,
         p = "meeting" /\ s.at \in Moving =>
           s.id \notin s.before /\ niri.windows[s.id].app = MeetingApp
  PROVE  FInv'
<1>1. run'[p] = s
      BY BecomesTyped DEF FInv
<1>2. OnlyMovedBy(p) /\ IDs' = IDs
      BY NothingMoved
<1>3. run[p].at \notin {"idle", "exited"}
      BY DEF Seeking
<1>4. ProcessSound(p)'
      BY <1>1, <1>2 DEF ProcessSound, Seeking, Moving
<1>5. OnTarget(p)'
      BY <1>1 DEF OnTarget
<1>6. p = "meeting" => MeetingOnly'
  <2>1. ASSUME p = "meeting"
        PROVE  MeetingOnly'
    <3>1. run'["meeting"] = s /\ s.command = run["meeting"].command
          /\ s.app = run["meeting"].app
          BY <1>1, <2>1
    <3>2. s.at # "focus"
          BY <2>1 DEF FInv, MeetingOnly
    <3> QED
        BY <1>2, <2>1, <3>1, <3>2 DEF FInv, MeetingOnly, Moving, Alone
  <2> QED
      BY <2>1
<1> QED
    BY <1>1, <1>2, <1>3, <1>4, <1>5, <1>6, ProcessActs

LEMMA SteadyResolved ==
  ASSUME FInv, NEW p \in Launchers, niri' = niri,
         run[p].at \notin {"idle", "resolve", "exited"},
         run'[p].steady = run[p].steady, run'[p].output = run[p].output,
         run'[p].reference = run[p].reference, run'[p].goal = run[p].goal
  PROVE  AsItWas(p)'
BY DEF FInv, AsItWas

LEMMA ResolveActs ==
  ASSUME FInv, NEW p \in Launchers, Resolve(p)
  PROVE  FInv'
<1>1. PICK r \in ProcessType : r = run[p]
      BY DEF FInv, TypeOK
<1>2. /\ r.at = "resolve" /\ r.goal \in Workspaces /\ r.goal \in Nat
      /\ niri' = niri /\ niri.dark \in BOOLEAN
      BY <1>1, WorkspacesAreNat DEF Resolve, ProcessType, FInv, TypeOK, NiriType
<1>3. PICK output \in Outputs \cup {Dark} :
        /\ output = (IF niri.dark THEN Dark ELSE OutputOf(r.goal))
      BY <1>2, WorkspaceFound DEF FInv
<1>4. PICK reference \in Nat :
        reference = (IF niri.dark THEN r.goal ELSE IndexOf(r.goal))
  <2>1. niri.layout[OutputOf(r.goal)] \in Seq(Workspaces)
        BY <1>2, WorkspaceFound DEF FInv, TypeOK, NiriType
  <2>2. IndexOf(r.goal) \in Nat
        BY <1>2, <2>1, WorkspaceFound DEF FInv
  <2> QED
      BY <1>2, <2>2
<1>5. PICK at \in {"focus", "snapshot"} :
        at = (IF r.command = "focus-workspace" THEN "focus" ELSE "snapshot")
      OBVIOUS
<1>6. PICK s \in ProcessType :
        s = [r EXCEPT !.output = output, !.reference = reference, !.at = at]
      BY DEF ProcessType
<1>7. Becomes(p, s)
  <2>1. run' = [run EXCEPT ![p].output = output, ![p].reference = reference,
                           ![p].at = at]
        BY <1>1, <1>3, <1>4, <1>5 DEF Resolve
  <2> QED
      BY <1>1, <1>6, <2>1 DEF Becomes, FInv, TypeOK
<1>8. run'[p] = s
      BY <1>7, BecomesTyped DEF FInv
<1>9. /\ s.output = output /\ s.reference = reference /\ s.at = at
      /\ s.moved = r.moved /\ s.todo = r.todo /\ s.failed = r.failed
      /\ s.command = r.command /\ s.app = r.app /\ s.goal = r.goal
      /\ s.steady = r.steady
      BY <1>6 DEF ProcessType
<1>10. r.moved = {} /\ r.todo = {} /\ ~r.failed
      BY <1>1, <1>2 DEF FInv, ProcessSound, Seeking
<1>11. AsItWas(p)'
  <2>1. ASSUME s.steady
        PROVE  /\ ~niri.dark /\ output \in Outputs
               /\ reference \in 1..Len(niri.layout[output])
               /\ niri.layout[output][reference] = r.goal
    <3>1. ~niri.dark
          BY <1>1, <1>2, <1>9, <2>1 DEF FInv, AsItWas
    <3> QED
        BY <1>2, <1>3, <1>4, <3>1, WorkspaceFound DEF FInv
  <2> QED
      BY <1>2, <1>8, <1>9, <2>1 DEF AsItWas
<1>12. firefox' \in FirefoxType
      BY DEF Resolve, FInv, TypeOK
<1>13. r.command = "open-url" => at = "snapshot"
      BY <1>5
<1>14. at = "focus" => r.command = "focus-workspace"
      BY <1>5
<1>15. s.todo \subseteq IDs /\ at \notin {"settle", "start", "observe"} \cup Moving
      BY <1>9, <1>10 DEF Moving
<1>16. run[p].at \in Seeking /\ s.at \in Seeking \cup {"monitor", "workspace", "focus"}
      BY <1>1, <1>2, <1>9 DEF Seeking
<1> QED
    BY <1>1, <1>2, <1>7, <1>9, <1>10, <1>11, <1>12, <1>13, <1>14, <1>15, <1>16,
       SeekingActs DEF Resolve, Moving

LEMMA SnapshotActs ==
  ASSUME FInv, NEW p \in Launchers, Snapshot(p)
  PROVE  FInv'
<1>1. PICK r \in ProcessType : r = run[p]
      BY DEF FInv, TypeOK
<1>2. IDs \subseteq Nat
      BY IDsAreNat DEF FInv
<1>3. PICK s \in ProcessType : s = [r EXCEPT !.before = IDs, !.at = "start"]
      BY <1>2 DEF ProcessType
<1>4. Becomes(p, s)
      BY <1>1, <1>3 DEF Snapshot, Becomes, FInv, TypeOK
<1>5. run'[p] = s
      BY <1>4, BecomesTyped DEF FInv
<1>6. /\ r.at = "snapshot" /\ s.at = "start" /\ s.before = IDs
      /\ s.moved = r.moved /\ s.todo = r.todo /\ s.failed = r.failed
      /\ s.command = r.command /\ s.app = r.app /\ s.goal = r.goal
      /\ s.steady = r.steady /\ s.output = r.output /\ s.reference = r.reference
      BY <1>1, <1>3 DEF ProcessType, Snapshot
<1>7. r.moved = {} /\ r.todo = {} /\ ~r.failed
      BY <1>1, <1>6 DEF FInv, ProcessSound, Seeking
<1>8. AsItWas(p)'
      BY <1>1, <1>5, <1>6, SteadyResolved DEF Snapshot
<1>9. firefox' \in FirefoxType /\ history.opening \subseteq IDs
      BY DEF Snapshot, FInv, TypeOK, MeetingOnly
<1> QED
    BY <1>1, <1>4, <1>6, <1>7, <1>8, <1>9, SeekingActs
    DEF Snapshot, Moving, Seeking

LEMMA StartFirefoxActs ==
  ASSUME FInv, NEW p \in Launchers, NEW windows \in Coming(run[p]),
         StartFirefox(p, windows)
  PROVE  FInv'
<1>1. PICK r \in ProcessType : r = run[p]
      BY DEF FInv, TypeOK
<1>2. PICK s \in ProcessType : s = [r EXCEPT !.at = "observe"]
      BY DEF ProcessType
<1>3. Becomes(p, s)
      BY <1>1, <1>2 DEF StartFirefox, Goto, Becomes, FInv, TypeOK
<1>4. run'[p] = s
      BY <1>3, BecomesTyped DEF FInv
<1>5. /\ r.at = "start" /\ s.at = "observe" /\ s.before = r.before
      /\ s.moved = r.moved /\ s.todo = r.todo /\ s.failed = r.failed
      /\ s.command = r.command /\ s.app = r.app /\ s.goal = r.goal
      /\ s.steady = r.steady /\ s.output = r.output /\ s.reference = r.reference
      BY <1>1, <1>2 DEF ProcessType, StartFirefox
<1>6. r.moved = {} /\ r.todo = {} /\ ~r.failed
      BY <1>1, <1>5 DEF FInv, ProcessSound, Seeking
<1>7. AsItWas(p)'
      BY <1>1, <1>4, <1>5, SteadyResolved DEF StartFirefox
<1>8. firefox' \in FirefoxType
  <2>1. r.app \in Apps /\ worker.n \in Nat /\ Restored \in Nat
        BY DesktopAssumption DEF ProcessType, FInv, TypeOK, WorkerType
  <2>2. windows \subseteq ComingType
    <3>1. windows \in Coming(r)
          BY <1>1
    <3>2. /\ [app |-> r.app, shows |-> worker.n, k |-> 0] \in ComingType
          /\ [app |-> r.app, shows |-> 0, k |-> 0] \in ComingType
          BY <2>1 DEF ComingType
    <3>3. \A k \in 0..Restored :
            {[app |-> r.app, shows |-> 0, k |-> i] : i \in 1..k}
              \subseteq ComingType
          BY <2>1 DEF ComingType
    <3> QED
        BY <3>1, <3>2, <3>3 DEF Coming
  <2> QED
      BY <1>1, <2>1, <2>2 DEF StartFirefox, FInv, TypeOK, FirefoxType
<1>9. p = "meeting" => history.opening \subseteq s.before
      BY <1>1, <1>5 DEF FInv, MeetingOnly
<1> QED
    BY <1>1, <1>3, <1>5, <1>6, <1>7, <1>8, <1>9, SeekingActs
    DEF StartFirefox, Moving, Seeking

LEMMA ObserveMatchActs ==
  ASSUME FInv, NEW p \in Launchers, NEW w \in IDs, ObserveMatch(p, w)
  PROVE  FInv'
<1>1. PICK r \in ProcessType : r = run[p]
      BY DEF FInv, TypeOK
<1>2. w \in Nat /\ niri' = niri
      BY IDsAreNat DEF FInv, ObserveMatch
<1>3. PICK at \in Moving :
        at = FirstMove(p) /\ (r.output # Dark <=> at = "monitor")
      BY <1>1 DEF Moving, FirstMove
<1>4. PICK s \in ProcessType : s = [r EXCEPT !.id = w, !.at = at]
      BY <1>2 DEF ProcessType, Moving
<1>5. Becomes(p, s)
      BY <1>1, <1>3, <1>4 DEF ObserveMatch, Becomes, FInv, TypeOK
<1>6. run'[p] = s
      BY <1>5, BecomesTyped DEF FInv
<1>7. /\ r.at = "observe" /\ r.command = "open-url" /\ s.at = at /\ s.id = w
      /\ s.before = r.before /\ s.moved = r.moved /\ s.todo = r.todo
      /\ s.failed = r.failed /\ s.command = r.command /\ s.app = r.app
      /\ s.goal = r.goal /\ s.steady = r.steady /\ s.output = r.output
      /\ s.reference = r.reference
      BY <1>1, <1>4 DEF ProcessType, ObserveMatch
<1>8. r.moved = {} /\ r.todo = {} /\ ~r.failed
      BY <1>1, <1>7 DEF FInv, ProcessSound, Seeking
<1>9. AsItWas(p)'
      BY <1>1, <1>2, <1>6, <1>7, SteadyResolved
<1>10. (s.at = "workspace" => ~s.steady) /\ (s.at = "monitor" => s.output # Dark)
  <2>1. Dark \notin Outputs
        BY LayoutAssumption
  <2> QED
      BY <1>1, <1>3, <1>7, <2>1 DEF FInv, AsItWas
<1>11. p = "meeting" =>
         /\ history.opening \subseteq s.before
         /\ s.id \notin s.before /\ niri.windows[s.id].app = MeetingApp
      BY <1>1, <1>7
      DEF FInv, MeetingOnly, ObserveMatch, Matching, NewWindows
<1>12. firefox' \in FirefoxType
      BY DEF ObserveMatch, FInv, TypeOK
<1> QED
    BY <1>1, <1>2, <1>5, <1>7, <1>8, <1>9, <1>10, <1>11, <1>12, SeekingActs
    DEF ObserveMatch, Moving, Seeking

LEMMA ObserveAnyActs ==
  ASSUME FInv, NEW p \in Launchers, ObserveAny(p)
  PROVE  FInv'
<1>1. PICK r \in ProcessType : r = run[p]
      BY DEF FInv, TypeOK
<1>2. PICK s \in ProcessType : s = [r EXCEPT !.at = "settle"]
      BY DEF ProcessType
<1>3. Becomes(p, s)
      BY <1>1, <1>2 DEF ObserveAny, Goto, Becomes, FInv, TypeOK
<1>4. run'[p] = s
      BY <1>3, BecomesTyped DEF FInv
<1>5. /\ r.at = "observe" /\ r.command = "launch-profile" /\ s.at = "settle"
      /\ s.moved = r.moved /\ s.todo = r.todo /\ s.failed = r.failed
      /\ s.command = r.command /\ s.app = r.app /\ s.goal = r.goal
      /\ s.steady = r.steady /\ s.output = r.output /\ s.reference = r.reference
      BY <1>1, <1>2 DEF ProcessType, ObserveAny
<1>6. r.moved = {} /\ r.todo = {} /\ ~r.failed
      BY <1>1, <1>5 DEF FInv, ProcessSound, Seeking
<1>7. AsItWas(p)'
      BY <1>1, <1>4, <1>5, SteadyResolved DEF ObserveAny
<1>8. firefox' \in FirefoxType
      BY DEF ObserveAny, FInv, TypeOK
<1> QED
    BY <1>1, <1>3, <1>5, <1>6, <1>7, <1>8, SeekingActs
    DEF ObserveAny, Moving, Seeking

LEMMA SettleActs ==
  ASSUME FInv, NEW p \in Launchers, NEW w \in IDs, Settle(p, w)
  PROVE  FInv'
<1>1. PICK r \in ProcessType : r = run[p]
      BY DEF FInv, TypeOK
<1>2. w \in Nat /\ niri' = niri /\ IDs \subseteq Nat
      BY IDsAreNat DEF FInv, Settle
<1>3. PICK at \in Moving :
        at = FirstMove(p) /\ (r.output # Dark <=> at = "monitor")
      BY <1>1 DEF Moving, FirstMove
<1>4. PICK todo \in SUBSET Nat : todo = NewWindows(p) \ {w}
  <2>1. NewWindows(p) \ {w} \subseteq Nat
        BY <1>2 DEF NewWindows
  <2> QED
      BY <2>1
<1>5. todo \subseteq IDs /\ w \notin todo
      BY <1>4 DEF NewWindows
<1>6. PICK s \in ProcessType : s = [r EXCEPT !.todo = todo, !.id = w, !.at = at]
      BY <1>2 DEF ProcessType, Moving
<1>7. Becomes(p, s)
      BY <1>1, <1>3, <1>4, <1>6 DEF Settle, Becomes, FInv, TypeOK
<1>8. run'[p] = s
      BY <1>7, BecomesTyped DEF FInv
<1>9. /\ r.at = "settle" /\ s.at = at /\ s.id = w /\ s.todo = todo
      /\ s.moved = r.moved /\ s.failed = r.failed
      /\ s.command = r.command /\ s.app = r.app /\ s.goal = r.goal
      /\ s.steady = r.steady /\ s.output = r.output /\ s.reference = r.reference
      BY <1>1, <1>6 DEF ProcessType, Settle
<1>10. /\ r.moved = {} /\ ~r.failed /\ r.command = "launch-profile"
      BY <1>1, <1>9 DEF FInv, ProcessSound, Seeking
<1>11. AsItWas(p)'
      BY <1>1, <1>2, <1>8, <1>9, SteadyResolved
<1>12. (s.at = "workspace" => ~s.steady) /\ (s.at = "monitor" => s.output # Dark)
  <2>1. Dark \notin Outputs
        BY LayoutAssumption
  <2> QED
      BY <1>1, <1>3, <1>9, <2>1 DEF FInv, AsItWas
<1>13. p # "meeting"
      BY <1>1, <1>10 DEF FInv, MeetingOnly
<1>14. firefox' \in FirefoxType
      BY DEF Settle, FInv, TypeOK
<1> QED
    BY <1>1, <1>2, <1>5, <1>7, <1>9, <1>10, <1>11, <1>12, <1>13, <1>14,
       SeekingActs DEF Settle, Moving, Seeking

LEMMA MoveToMonitorActs ==
  ASSUME FInv, NEW p \in Launchers, NEW ok \in BOOLEAN, MoveToMonitor(p, ok)
  PROVE  FInv'
<1>1. PICK r \in ProcessType : r = run[p]
      BY DEF FInv, TypeOK
<1>2. /\ r.at = "monitor" /\ r.id \in IDs /\ r.id \notin r.todo
      /\ r.id \notin r.moved /\ r.command # "focus-workspace"
      /\ r.moved \subseteq IDs /\ r.output \in Outputs
      BY <1>1 DEF MoveToMonitor, FInv, ProcessSound, Moving, ProcessType
<1>3. PICK s \in ProcessType :
        s = [r EXCEPT !.at = "workspace", !.failed = r.failed \/ ~ok,
                      !.moved = r.moved \cup {r.id}]
  <2>1. (r.failed \/ ~ok) \in BOOLEAN /\ r.moved \cup {r.id} \in SUBSET Nat
        BY DEF ProcessType
  <2> QED
      BY <2>1 DEF ProcessType
<1>4. Becomes(p, s)
  <2>1. run' = [run EXCEPT ![p].at = "workspace",
                           ![p].failed = r.failed \/ ~ok,
                           ![p].moved = r.moved \cup {r.id}]
        BY <1>1 DEF MoveToMonitor
  <2> QED
      BY <1>1, <1>3, <2>1 DEF Becomes, FInv, TypeOK
<1>5. run'[p] = s
      BY <1>4, BecomesTyped DEF FInv
<1>6. /\ s.at = "workspace" /\ s.moved = r.moved \cup {r.id}
      /\ s.failed = (r.failed \/ ~ok)
      /\ s.command = r.command /\ s.app = r.app /\ s.goal = r.goal
      /\ s.steady = r.steady /\ s.output = r.output /\ s.id = r.id
      /\ s.reference = r.reference /\ s.todo = r.todo /\ s.before = r.before
      BY <1>3 DEF ProcessType
<1>7. ActiveOn(r.output) \in Workspaces /\ OutputOf(ActiveOn(r.output)) = r.output
      BY <1>2, ActiveFound DEF FInv
<1>8. /\ OnlyMovedBy(p) /\ IDs' = IDs
      /\ \A w \in IDs : w # r.id => niri'.windows[w] = niri.windows[w]
      /\ ok /\ ~niri.dark => /\ niri'.windows[r.id].ws = ActiveOn(r.output)
                             /\ p \in niri'.windows[r.id].by
  <2>1. CASE Move(p, ActiveOn(r.output))
        BY <1>1, <1>2, <1>7, <2>1, MovedWindows DEF FInv, OnlyMovedBy
  <2>2. CASE ~ok /\ niri' = niri
        BY <2>2, NothingMoved
  <2> QED
      BY <1>1, <2>1, <2>2 DEF MoveToMonitor
<1>9. ProcessSound(p)'
  <2>1. ProcessSound(p)
        BY DEF FInv
  <2> QED
      BY <1>1, <1>2, <1>5, <1>6, <1>8, <2>1 DEF ProcessSound, Seeking, Moving
<1>10. AsItWas(p)'
      BY <1>1, <1>2, <1>5, <1>6, <1>8 DEF FInv, AsItWas, OnlyMovedBy
<1>11. OnTarget(p)'
  <2>1. OnTarget(p) /\ AsItWas(p)
        BY DEF FInv
  <2>2. ASSUME s.steady, ~s.failed
        PROVE  /\ \A w \in r.moved :
                    niri'.windows[w].by = {p} => niri'.windows[w].ws = s.goal
               /\ p \in niri'.windows[r.id].by
               /\ niri'.windows[r.id].ws = ActiveOn(r.output)
    <3>1. ok /\ ~r.failed /\ r.steady /\ ~niri.dark
          BY <1>1, <1>2, <1>6, <2>1, <2>2 DEF AsItWas
    <3>2. \A w \in r.moved : niri.windows[w].by = {p} => niri.windows[w].ws = r.goal
          BY <1>1, <1>2, <2>1, <3>1 DEF OnTarget, Moving
    <3> QED
        BY <1>2, <1>6, <1>8, <3>1, <3>2
  <2>3. \E i \in 1..Len(niri'.layout[r.output]) :
          niri'.layout[r.output][i] = ActiveOn(r.output)
    <3>1. niri'.layout = niri.layout
          BY <1>8 DEF OnlyMovedBy
    <3> QED
        BY <1>7, <3>1, WorkspaceFound DEF FInv
  <2>4. \A w \in s.moved : ~(s.at \in Moving /\ w = s.id) => w \in r.moved
        BY <1>6 DEF Moving
  <2> QED
      BY <1>5, <1>6, <2>2, <2>3, <2>4 DEF OnTarget
<1>12. p = "meeting" => MeetingOnly'
  <2>1. ASSUME p = "meeting"
        PROVE  MeetingOnly'
    <3>1. run["meeting"] = r /\ run'["meeting"] = s
          BY <1>1, <1>5, <2>1
    <3>2. /\ r.id \notin history.opening /\ niri.windows[r.id].app = MeetingApp
          /\ history.opening \subseteq IDs /\ history.opening \subseteq r.before
          /\ r.id \notin r.before
          /\ r.command = "open-url" /\ r.app = MeetingApp
          /\ \A w \in r.moved :
               w \notin history.opening /\ niri.windows[w].app = MeetingApp
          BY <1>2, <3>1 DEF FInv, MeetingOnly, Moving
    <3>3. \A w \in IDs : niri'.windows[w].app = niri.windows[w].app
          BY <1>8 DEF OnlyMovedBy
    <3>4. history' = history
          BY DEF MoveToMonitor, Alone
    <3>5. \A w \in s.moved :
            w \notin history'.opening /\ niri'.windows[w].app = MeetingApp
          BY <1>2, <1>6, <3>2, <3>3, <3>4
    <3>6. /\ r.id \in IDs' /\ niri'.windows[r.id].app = MeetingApp
          /\ history'.opening \subseteq IDs'
          BY <1>2, <1>8, <3>2, <3>3, <3>4
    <3> QED
        BY <1>6, <3>1, <3>2, <3>4, <3>5, <3>6 DEF MeetingOnly
  <2> QED
      BY <2>1
<1>13. firefox' \in FirefoxType
      BY DEF MoveToMonitor, FInv, TypeOK
<1> QED
    BY <1>1, <1>2, <1>4, <1>8, <1>9, <1>10, <1>11, <1>12, <1>13, ProcessActs
    DEF MoveToMonitor

(* The second command puts a window on the workspace that was asked for. *)
LEMMA WorkspaceReached ==
  ASSUME FInv, NEW p \in Launchers, NEW ok \in BOOLEAN, MoveToWorkspace(p, ok)
  PROVE  /\ OnlyMovedBy(p) /\ IDs' = IDs /\ run[p].id \in IDs
         /\ run[p].steady /\ ~run[p].failed /\ ok =>
              \A w \in run[p].moved \cup {run[p].id} :
                niri'.windows[w].by = {p} => niri'.windows[w].ws = run[p].goal
<1>1. PICK r \in ProcessType : r = run[p]
      BY DEF FInv, TypeOK
<1>2. /\ r.at = "workspace" /\ r.id \in IDs /\ r.reference \in Nat
      /\ r.moved \subseteq IDs
      BY <1>1 DEF MoveToWorkspace, FInv, ProcessSound, Moving, ProcessType
<1>3. PICK ws \in Workspaces : ws = niri.windows[r.id].ws
      BY <1>2, IDsAreNat DEF FInv, WindowType
<1>4. PICK o \in Outputs : o = OutputOf(ws)
      BY WorkspaceFound DEF FInv
<1>5. WorkspaceAt(o, r.reference) \in Workspaces
      BY <1>2, WorkspaceAtFound DEF FInv
<1>6. CASE ~ok /\ niri' = niri
      BY <1>1, <1>2, <1>6, NothingMoved
<1>7. CASE Move(p, WorkspaceAt(o, r.reference))
  <2>1. /\ OnlyMovedBy(p) /\ IDs' = IDs
        /\ \A w \in IDs : w # r.id => niri'.windows[w] = niri.windows[w]
        /\ ~niri.dark =>
             /\ niri'.windows[r.id].ws = WorkspaceAt(o, r.reference)
             /\ niri'.windows[r.id].by = niri.windows[r.id].by \cup {p}
        BY <1>1, <1>2, <1>5, <1>7, MovedWindows DEF FInv, OnlyMovedBy
  <2>2. ASSUME r.steady, ~r.failed
        PROVE  \A w \in r.moved \cup {r.id} :
                 niri'.windows[w].by = {p} => niri'.windows[w].ws = r.goal
    <3>1. /\ ~niri.dark /\ r.output \in Outputs
          /\ r.reference \in 1..Len(niri.layout[r.output])
          /\ niri.layout[r.output][r.reference] = r.goal
          BY <1>1, <1>2, <2>2 DEF FInv, AsItWas
    <3>2. /\ \A w \in r.moved : w # r.id =>
               (niri.windows[w].by = {p} => niri.windows[w].ws = r.goal)
          /\ p \in niri.windows[r.id].by
          /\ niri.windows[r.id].by = {p} =>
               \E i \in 1..Len(niri.layout[r.output]) : niri.layout[r.output][i] = ws
          BY <1>1, <1>2, <1>3, <2>2 DEF FInv, OnTarget, Moving
    <3>3. niri'.windows[r.id].by = niri.windows[r.id].by
          BY <2>1, <3>1, <3>2
    <3>4. ASSUME niri.windows[r.id].by = {p}
          PROVE  niri'.windows[r.id].ws = r.goal
      <4>1. o = r.output
        <5>1. PICK i \in 1..Len(niri.layout[r.output]) :
                niri.layout[r.output][i] = ws
              BY <3>2, <3>4
        <5>2. PICK j \in 1..Len(niri.layout[o]) : niri.layout[o][j] = ws
              BY <1>4, WorkspaceFound DEF FInv
        <5> QED
            BY <3>1, <5>1, <5>2 DEF FInv, LayoutSound
      <4>2. WorkspaceAt(o, r.reference) = r.goal
            BY <1>2, <3>1, <4>1, WorkspaceAtFound DEF FInv
      <4> QED
          BY <2>1, <3>1, <4>2
    <3> QED
        BY <1>2, <2>1, <3>2, <3>3, <3>4
  <2> QED
      BY <1>1, <1>2, <2>1, <2>2
<1> QED
    BY <1>1, <1>3, <1>4, <1>6, <1>7 DEF MoveToWorkspace

(* What a process may be after its second command. *)
LEMMA MovedActs ==
  ASSUME FInv, NEW p \in Launchers, NEW ok \in BOOLEAN, MoveToWorkspace(p, ok),
         NEW r \in ProcessType, r = run[p], NEW s \in ProcessType, Becomes(p, s),
         s.command = r.command /\ s.app = r.app /\ s.goal = r.goal,
         s.steady = r.steady /\ s.output = r.output,
         s.reference = r.reference /\ s.before = r.before,
         s.moved = r.moved \cup {r.id}, s.failed = (r.failed \/ ~ok),
         \/ /\ s.at = "focus" /\ r.command = "open-url"
            /\ ~s.failed /\ s.id = r.id /\ s.todo = r.todo
         \/ /\ s.at \in Moving /\ s.id \in r.todo /\ s.todo = r.todo \ {s.id}
            /\ (s.output # Dark <=> s.at = "monitor")
  PROVE  FInv'
<1>1. /\ r.at = "workspace" /\ r.id \in IDs /\ r.id \notin r.todo
      /\ r.moved \subseteq IDs /\ r.todo \subseteq IDs
      /\ r.command # "focus-workspace" /\ \A w \in r.todo : w \notin r.moved
      /\ r.command = "open-url" => r.moved \subseteq {r.id} /\ r.todo = {}
      BY DEF MoveToWorkspace, FInv, ProcessSound, Moving
<1>2. run'[p] = s
      BY BecomesTyped DEF FInv
<1>3. /\ OnlyMovedBy(p) /\ IDs' = IDs
      /\ s.steady /\ ~s.failed =>
           \A w \in s.moved :
             niri'.windows[w].by = {p} => niri'.windows[w].ws = s.goal
      BY WorkspaceReached
<1>4. ProcessSound(p)'
      BY <1>1, <1>2, <1>3 DEF ProcessSound, Seeking, Moving
<1>5. ASSUME s.steady
      PROVE  /\ ~niri.dark /\ r.output \in Outputs
             /\ r.reference \in 1..Len(niri.layout[r.output])
             /\ niri.layout[r.output][r.reference] = r.goal
      BY <1>1, <1>5 DEF FInv, AsItWas
<1>6. AsItWas(p)'
  <2>1. niri'.layout = niri.layout /\ niri'.dark = niri.dark
        BY <1>3 DEF OnlyMovedBy
  <2> QED
      BY <1>2, <1>5, <2>1 DEF AsItWas
<1>7. s.steady => s.at # "workspace"
  <2>1. Dark \notin Outputs
        BY LayoutAssumption
  <2> QED
      BY <1>5, <2>1
<1>8. OnTarget(p)'
      BY <1>2, <1>3, <1>7 DEF OnTarget
<1>9. p = "meeting" => MeetingOnly'
  <2>1. ASSUME p = "meeting"
        PROVE  MeetingOnly'
    <3>1. run["meeting"] = r /\ run'["meeting"] = s /\ history' = history
          BY <1>2, <2>1 DEF MoveToWorkspace, Alone
    <3>2. /\ r.id \notin history.opening /\ niri.windows[r.id].app = MeetingApp
          /\ history.opening \subseteq IDs /\ history.opening \subseteq r.before
          /\ r.id \notin r.before
          /\ r.command = "open-url" /\ r.app = MeetingApp
          /\ \A w \in r.moved :
               w \notin history.opening /\ niri.windows[w].app = MeetingApp
          BY <1>1, <3>1 DEF FInv, MeetingOnly, Moving
    <3>3. \A w \in IDs : niri'.windows[w].app = niri.windows[w].app
          BY <1>3 DEF OnlyMovedBy
    <3>4. s.id = r.id
          BY <1>1, <3>2
    <3>5. \A w \in s.moved :
            w \notin history'.opening /\ niri'.windows[w].app = MeetingApp
          BY <1>1, <3>1, <3>2, <3>3
    <3>6. /\ r.id \in IDs' /\ niri'.windows[r.id].app = MeetingApp
          /\ history'.opening \subseteq IDs'
          BY <1>1, <1>3, <3>1, <3>2, <3>3
    <3> QED
        BY <3>1, <3>2, <3>4, <3>5, <3>6 DEF MeetingOnly
  <2> QED
      BY <2>1
<1>10. firefox' \in FirefoxType
      BY DEF MoveToWorkspace, FInv, TypeOK
<1> QED
    BY <1>1, <1>3, <1>4, <1>6, <1>8, <1>9, <1>10, ProcessActs DEF MoveToWorkspace

LEMMA MovedExits ==
  ASSUME FInv, NEW p \in Launchers, NEW ok \in BOOLEAN, MoveToWorkspace(p, ok),
         NEW r \in ProcessType, r = run[p], NEW s \in ProcessType, Becomes(p, s),
         s.at = "exited" /\ s.todo = {}, s.command = r.command /\ s.app = r.app,
         \/ s.moved = {} /\ ~s.ok
         \/ /\ r.command = "launch-profile" /\ s.goal = r.goal
            /\ s.moved = r.moved \cup {r.id} /\ s.failed = (r.failed \/ ~ok)
            /\ s.steady = r.steady
  PROVE  FInv'
<1>1. r.at = "workspace" /\ r.id \in IDs /\ r.moved \subseteq IDs
      BY DEF MoveToWorkspace, FInv, ProcessSound, Moving
<1>2. run'[p] = s
      BY BecomesTyped DEF FInv
<1>3. /\ OnlyMovedBy(p) /\ IDs' = IDs
      /\ s.steady /\ ~s.failed =>
           \A w \in s.moved :
             niri'.windows[w].by = {p} => niri'.windows[w].ws = s.goal
      BY WorkspaceReached
<1>4. ProcessSound(p)'
      BY <1>1, <1>2, <1>3 DEF ProcessSound, Seeking, Moving
<1>5. AsItWas(p)'
      BY <1>2 DEF AsItWas
<1>6. OnTarget(p)'
      BY <1>2, <1>3 DEF OnTarget
<1>7. p = "meeting" => MeetingOnly'
  <2>1. ASSUME p = "meeting"
        PROVE  MeetingOnly'
    <3>1. run["meeting"] = r /\ run'["meeting"] = s /\ history' = history
          BY <1>2, <2>1 DEF MoveToWorkspace, Alone
    <3>2. /\ r.command = "open-url" /\ r.app = MeetingApp
          /\ history.opening \subseteq IDs
          BY <3>1 DEF FInv, MeetingOnly
    <3> QED
        BY <1>3, <3>1, <3>2 DEF MeetingOnly, Moving
  <2> QED
      BY <2>1
<1>8. firefox' \in FirefoxType
      BY DEF MoveToWorkspace, FInv, TypeOK
<1> QED
    BY <1>1, <1>3, <1>4, <1>5, <1>6, <1>7, <1>8, ProcessActs DEF MoveToWorkspace

LEMMA MoveToWorkspaceActs ==
  ASSUME FInv, NEW p \in Launchers, NEW ok \in BOOLEAN, MoveToWorkspace(p, ok)
  PROVE  FInv'
<1>1. PICK r \in ProcessType : r = run[p]
      BY DEF FInv, TypeOK
<1>2. /\ r.at = "workspace" /\ r.command \in LaunchCommands
      /\ r.todo \subseteq Nat /\ r.moved \subseteq Nat /\ r.id \in Nat
      /\ r.failed \in BOOLEAN
      BY <1>1 DEF MoveToWorkspace, ProcessType
<1>3. PICK failed \in BOOLEAN : failed = (r.failed \/ ~ok)
      BY <1>2
<1>4. PICK m \in ProcessType :
        m = [r EXCEPT !.failed = failed, !.moved = r.moved \cup {r.id}]
  <2>1. r.moved \cup {r.id} \in SUBSET Nat
        BY <1>2
  <2> QED
      BY <2>1 DEF ProcessType
<1>5. /\ m.failed = failed /\ m.moved = r.moved \cup {r.id}
      /\ m.command = r.command /\ m.app = r.app /\ m.goal = r.goal
      /\ m.steady = r.steady /\ m.output = r.output /\ m.todo = r.todo
      /\ m.reference = r.reference /\ m.before = r.before /\ m.id = r.id
      BY <1>4 DEF ProcessType
<1>6. \/ /\ r.command = "open-url" /\ ~failed
         /\ Becomes(p, [m EXCEPT !.at = "focus"])
      \/ /\ r.command = "open-url" /\ failed
         /\ Becomes(p, Ended(m, FALSE))
      \/ \E w \in r.todo :
           Becomes(p, [m EXCEPT !.at = FirstMove(p), !.id = w,
                                !.todo = r.todo \ {w}])
      \/ /\ r.command = "launch-profile" /\ r.todo = {}
         /\ Becomes(p, Ended(m, TRUE))
      BY <1>1, <1>3, <1>4, <1>5 DEF MoveToWorkspace, Becomes
<1>7. ASSUME r.command = "open-url", ~failed,
             Becomes(p, [m EXCEPT !.at = "focus"])
      PROVE  FInv'
  <2>1. PICK s \in ProcessType : s = [m EXCEPT !.at = "focus"]
        BY DEF ProcessType
  <2>2. /\ s.at = "focus" /\ s.failed = m.failed /\ s.moved = m.moved
        /\ s.command = m.command /\ s.app = m.app /\ s.goal = m.goal
        /\ s.steady = m.steady /\ s.output = m.output /\ s.todo = m.todo
        /\ s.reference = m.reference /\ s.before = m.before /\ s.id = m.id
        BY <2>1 DEF ProcessType
  <2>3. /\ s.command = r.command /\ s.app = r.app /\ s.goal = r.goal
        /\ s.steady = r.steady /\ s.output = r.output
        /\ s.reference = r.reference /\ s.before = r.before
        /\ s.moved = r.moved \cup {r.id} /\ s.id = r.id /\ s.todo = r.todo
        BY <1>5, <2>2
  <2>4. s.failed = (r.failed \/ ~ok) /\ ~s.failed
        BY <1>3, <1>5, <1>7, <2>2
  <2>5. Becomes(p, s)
        BY <1>7, <2>1
  <2> QED
      BY <1>1, <1>7, <2>2, <2>3, <2>4, <2>5, MovedActs
<1>8. ASSUME NEW w \in r.todo,
             Becomes(p, [m EXCEPT !.at = FirstMove(p), !.id = w,
                                  !.todo = r.todo \ {w}])
      PROVE  FInv'
  <2>1. PICK at \in Moving :
          at = FirstMove(p) /\ (r.output # Dark <=> at = "monitor")
        BY <1>1 DEF Moving, FirstMove
  <2>2. PICK s \in ProcessType :
          s = [m EXCEPT !.at = at, !.id = w, !.todo = r.todo \ {w}]
    <3>1. r.todo \ {w} \in SUBSET Nat /\ w \in Nat
          BY <1>2
    <3> QED
        BY <3>1 DEF ProcessType, Moving
  <2>3. /\ s.at = at /\ s.failed = m.failed /\ s.moved = m.moved
        /\ s.command = m.command /\ s.app = m.app /\ s.goal = m.goal
        /\ s.steady = m.steady /\ s.output = m.output /\ s.todo = r.todo \ {w}
        /\ s.reference = m.reference /\ s.before = m.before /\ s.id = w
        BY <2>2 DEF ProcessType
  <2>4. Becomes(p, s)
        BY <1>8, <2>1, <2>2
  <2> QED
      BY <1>1, <1>3, <1>5, <2>1, <2>3, <2>4, MovedActs
<1>9. ASSUME NEW good \in BOOLEAN, Becomes(p, Ended(m, good)),
             good => r.command = "launch-profile"
      PROVE  FInv'
  <2>1. PICK s \in ProcessType : s = Ended(m, good)
        BY EndedTyped DEF FInv
  <2>2. PICK q \in ProcessType : q = Process(m.command, m.app, m.goal)
    <3>1. m.command \in LaunchCommands /\ m.app \in Apps /\ m.goal \in Workspaces
          BY DEF ProcessType
    <3> QED
        BY <3>1, ProcessTyped DEF FInv
  <2>3. /\ q.command = m.command /\ q.app = m.app /\ q.goal = m.goal
        /\ q.todo = {} /\ q.moved = {}
        BY <2>2 DEF Process
  <2>4. CASE good
    <3>1. s = [q EXCEPT !.at = "exited", !.ok = TRUE, !.id = m.id,
                        !.moved = m.moved, !.failed = m.failed,
                        !.steady = m.steady]
          BY <2>1, <2>2, <2>4 DEF Ended, ProcessType
    <3>2. /\ s.at = "exited" /\ s.todo = {} /\ s.command = m.command
          /\ s.app = m.app /\ s.goal = m.goal /\ s.moved = m.moved
          /\ s.failed = m.failed /\ s.steady = m.steady
          BY <2>3, <3>1 DEF ProcessType
    <3> QED
      <4>1. /\ s.command = r.command /\ s.app = r.app /\ s.goal = r.goal
            /\ s.moved = r.moved \cup {r.id} /\ s.steady = r.steady
            BY <1>5, <3>2
      <4>2. s.failed = (r.failed \/ ~ok)
            BY <1>3, <1>5, <3>2
      <4>3. Becomes(p, s) /\ r.command = "launch-profile"
            BY <1>9, <2>1, <2>4
      <4> QED
          BY <1>1, <3>2, <4>1, <4>2, <4>3, MovedExits
  <2>5. CASE ~good
    <3>1. s = [q EXCEPT !.at = "exited", !.ok = FALSE]
          BY <2>1, <2>2, <2>5 DEF Ended
    <3>2. /\ s.at = "exited" /\ s.todo = {} /\ s.command = m.command
          /\ s.app = m.app /\ s.moved = {} /\ s.ok = FALSE
          BY <2>3, <3>1 DEF ProcessType
    <3> QED
        BY <1>1, <1>5, <1>9, <2>1, <3>2, MovedExits
  <2> QED
      BY <2>4, <2>5
<1> QED
    BY <1>6, <1>7, <1>8, <1>9

LEMMA LauncherStepActs ==
  ASSUME FInv, NEW p \in Launchers, LauncherStep(p)
  PROVE  FInv'
BY ResolveActs, SnapshotActs, StartFirefoxActs, ObserveMatchActs, SettleActs,
   ObserveAnyActs, ObserveTimeoutActs, MoveToMonitorActs, MoveToWorkspaceActs,
   FocusActs
DEF LauncherStep

-----------------------------------------------------------------------------
(* Steps of the desktop *)

LEMMA WindowOpens ==
  ASSUME FInv, NEW app \in Apps \cup {Other}, NEW shows \in Nat,
         NEW ws \in Workspaces, niri' = Opened(app, shows, ws),
         firefox' \in FirefoxType, UNCHANGED <<run, worker, script, history>>
  PROVE  FInv'
<1>1. /\ niri' \in NiriType /\ niri'.layout = niri.layout
      /\ \A p \in Launchers : OnlyMovedBy(p)
      BY OpenedWindows DEF FInv, OnlyMovedBy
<1>2. TypeOK'
      BY <1>1 DEF FInv, TypeOK
<1>3. LayoutSound' /\ NoLauncherLeft'
      BY <1>1, PlacesKept DEF FInv, NoLauncherLeft, Free
<1>4. MeetingOnly'
      BY <1>1, MeetingKept DEF Launchers
<1>5. ASSUME NEW q \in Launchers
      PROVE  ProcessSound(q)' /\ AsItWas(q)' /\ OnTarget(q)'
  <2>1. PICK p \in Launchers : p # q
        BY DEF Launchers
  <2> QED
      BY <1>1, <2>1, OthersKept
<1> QED
    BY <1>2, <1>3, <1>4, <1>5 DEF FInv

LEMMA AppearActs ==
  ASSUME FInv, NEW w \in firefox.coming, Appear(w)
  PROVE  FInv'
<1>1. w \in ComingType
      BY DEF FInv, TypeOK, FirefoxType
<1>2. w.app \in Apps /\ w.shows \in Nat /\ Home[w.app] \in Workspaces
      BY <1>1, WorkspacesAreNat DEF ComingType
<1>3. firefox' \in FirefoxType
      BY DEF Appear, FInv, TypeOK, FirefoxType
<1> QED
    BY <1>2, <1>3, WindowOpens DEF Appear

LEMMA UserOpensActs ==
  ASSUME FInv, NEW app \in UserApps, UserOpens(app)
  PROVE  FInv'
<1>1. app \in Apps \cup {Other}
      BY DesktopAssumption
<1>2. PICK ws \in Workspaces : ws = (IF app = Other THEN Active ELSE Home[app])
      BY <1>1, WorkspacesAreNat
<1>3. firefox' \in FirefoxType
      BY DEF UserOpens, FInv, TypeOK
<1> QED
    BY <1>1, <1>2, <1>3, WindowOpens DEF UserOpens

(* Any change of the workspaces or the monitors that keeps each workspace   *)
(* in one place: only processes that have ended can still be steady.        *)
LEMMA ChangeActs ==
  ASSUME FInv, NEW layout, NEW dark \in BOOLEAN, Change(layout, dark),
         layout \in [Outputs -> Seq(Workspaces)], LayoutSound'
  PROVE  FInv'
<1>1. /\ niri' = [niri EXCEPT !.layout = layout, !.dark = dark]
      /\ niri' \in NiriType /\ niri'.windows = niri.windows /\ IDs' = IDs
      BY DEF Change, FInv, TypeOK, NiriType, IDs
<1>2. ASSUME NEW p \in Launchers
      PROVE  /\ run'[p] \in ProcessType
             /\ run'[p].steady => run[p].steady /\ run[p].at = "exited"
             /\ run'[p].at = run[p].at /\ run'[p].moved = run[p].moved
             /\ run'[p].todo = run[p].todo /\ run'[p].id = run[p].id
             /\ run'[p].command = run[p].command /\ run'[p].app = run[p].app
             /\ run'[p].goal = run[p].goal /\ run'[p].before = run[p].before
             /\ run'[p].failed = run[p].failed /\ run'[p].ok = run[p].ok
             /\ run'[p].output = run[p].output
  <2>1. PICK r \in ProcessType : r = run[p]
        BY DEF FInv, TypeOK
  <2>2. PICK steady \in BOOLEAN : steady = (r.steady /\ r.at = "exited")
        BY DEF ProcessType
  <2>3. PICK s \in ProcessType : s = [r EXCEPT !.steady = steady]
        BY DEF ProcessType
  <2>4. run'[p] = s
        BY <2>1, <2>2, <2>3 DEF Change
  <2>5. /\ s.steady = steady /\ s.at = r.at /\ s.moved = r.moved
        /\ s.todo = r.todo /\ s.id = r.id /\ s.command = r.command
        /\ s.app = r.app /\ s.goal = r.goal /\ s.before = r.before
        /\ s.failed = r.failed /\ s.ok = r.ok /\ s.output = r.output
        BY <2>3 DEF ProcessType
  <2> QED
      BY <2>1, <2>2, <2>4, <2>5
<1>3. TypeOK'
  <2>1. run' \in [Launchers -> ProcessType]
        BY <1>2 DEF Change
  <2>2. history' \in HistoryType
    <3>1. history.changes + 1 \in Nat
          BY DEF FInv, TypeOK, HistoryType
    <3> QED
        BY <3>1 DEF Change, FInv, TypeOK, HistoryType
  <2> QED
      BY <1>1, <2>1, <2>2 DEF Change, FInv, TypeOK
<1>4. NoLauncherLeft'
      BY <1>2 DEF FInv, NoLauncherLeft, Free, Change, Launchers
<1>5. MeetingOnly'
  <2>1. history'.opening = history.opening
        BY DEF Change, FInv, TypeOK, HistoryType
  <2> QED
      BY <1>1, <1>2, <2>1 DEF FInv, MeetingOnly, Launchers
<1>6. ASSUME NEW p \in Launchers
      PROVE  ProcessSound(p)' /\ AsItWas(p)' /\ OnTarget(p)'
  <2>1. ProcessSound(p)'
    <3>1. ProcessSound(p)
          BY DEF FInv
    <3> QED
        BY <1>1, <1>2, <3>1 DEF ProcessSound
  <2>2. AsItWas(p)'
        BY <1>2 DEF AsItWas
  <2>3. OnTarget(p)'
    <3>1. OnTarget(p)
          BY DEF FInv
    <3> QED
        BY <1>1, <1>2, <3>1 DEF OnTarget, Moving
  <2> QED
      BY <2>1, <2>2, <2>3
<1> QED
    BY <1>3, <1>4, <1>5, <1>6 DEF FInv

LEMMA SwitchMonitorsActs ==
  ASSUME FInv, SwitchMonitors
  PROVE  FInv'
<1>1. PICK dark \in BOOLEAN : dark = ~niri.dark
  <2>1. niri.dark \in BOOLEAN
        BY DEF FInv, TypeOK, NiriType
  <2> QED
      BY <2>1
<1>2. /\ niri.layout \in [Outputs -> Seq(Workspaces)]
      /\ Change(niri.layout, dark)
      BY <1>1 DEF SwitchMonitors, FInv, TypeOK, NiriType
<1>3. niri'.layout = niri.layout
      BY <1>2 DEF Change, FInv, TypeOK, NiriType
<1>4. LayoutSound'
      BY <1>3, PlacesKept DEF FInv
<1> QED
    BY <1>2, <1>4, ChangeActs

LEMMA ReversedProperties ==
  ASSUME NEW s \in Seq(Workspaces)
  PROVE  /\ Reversed(s) \in Seq(Workspaces) /\ Len(Reversed(s)) = Len(s)
         /\ \A i \in 1..Len(s) : /\ Len(s) + 1 - i \in 1..Len(s)
                                 /\ Reversed(s)[i] = s[Len(s) + 1 - i]
<1>1. PICK n \in Nat : n = Len(s) /\ DOMAIN s = 1..n
      OBVIOUS
<1>2. \A i \in 1..n : n + 1 - i \in 1..n
      OBVIOUS
<1>3. \A i \in 1..n : s[i] \in Workspaces
      BY <1>1
<1>4. Reversed(s) = [i \in 1..n |-> s[n + 1 - i]]
      BY <1>1 DEF Reversed
<1>5. [i \in 1..n |-> s[n + 1 - i]] \in [1..n -> Workspaces]
      BY <1>2, <1>3
<1>6. Reversed(s) \in Seq(Workspaces) /\ Len(Reversed(s)) = n
      BY <1>4, <1>5, SeqDef, LenProperties
<1> QED
    BY <1>1, <1>2, <1>4, <1>6

(* A workspace is in one place: the first part of LayoutSound. *)
LEMMA OnePlace ==
  ASSUME LayoutSound, NEW q \in Outputs, NEW t \in Outputs,
         NEW a \in 1..Len(niri.layout[q]), NEW b \in 1..Len(niri.layout[t]),
         niri.layout[q][a] = niri.layout[t][b]
  PROVE  q = t /\ a = b
  BY DEF LayoutSound

LEMMA ReorderActs ==
  ASSUME FInv, NEW o \in Outputs, Reorder(o)
  PROVE  FInv'
<1>1. /\ niri.layout \in [Outputs -> Seq(Workspaces)] /\ niri.dark \in BOOLEAN
      /\ niri.layout[o] \in Seq(Workspaces)
      BY DEF FInv, TypeOK, NiriType
<1>2. PICK s \in Seq(Workspaces) : s = niri.layout[o]
      BY <1>1
<1>3. PICK layout \in [Outputs -> Seq(Workspaces)] :
        layout = [niri.layout EXCEPT ![o] = Reversed(s)]
      BY <1>1, ReversedProperties
<1>4. Change(layout, niri.dark)
      BY <1>2, <1>3 DEF Reorder
<1>5. niri'.layout = layout
      BY <1>4 DEF Change, FInv, TypeOK, NiriType
<1>6. /\ layout[o] = Reversed(s)
      /\ \A q \in Outputs : q # o => layout[q] = niri.layout[q]
      /\ \A q \in Outputs : Len(layout[q]) = Len(niri.layout[q])
      BY <1>1, <1>2, <1>3, ReversedProperties
<1>7. LayoutSound'
  <2> DEFINE Was(q, i) == IF q = o THEN Len(s) + 1 - i ELSE i
  <2>1. ASSUME NEW q \in Outputs, NEW i \in 1..Len(layout[q])
        PROVE  /\ Was(q, i) \in 1..Len(niri.layout[q])
               /\ layout[q][i] = niri.layout[q][Was(q, i)]
        BY <1>2, <1>6, ReversedProperties
  <2>2. ASSUME NEW q \in Outputs, NEW i \in 1..Len(layout[q]),
               NEW j \in 1..Len(layout[q]), Was(q, i) = Was(q, j)
        PROVE  i = j
    <3>1. Len(s) \in Nat /\ Len(layout[q]) \in Nat
          BY <1>3
    <3> QED
        BY <2>2, <3>1
  <2>3. ASSUME NEW q \in Outputs, NEW i \in 1..Len(niri.layout[q])
        PROVE  /\ Was(q, i) \in 1..Len(layout[q])
               /\ layout[q][Was(q, i)] = niri.layout[q][i]
    <3>1. CASE q # o
          BY <1>6, <3>1
    <3>2. CASE q = o
      <4>1. i \in 1..Len(s) /\ Len(s) \in Nat
            BY <1>2, <3>2
      <4>2. /\ Len(s) + 1 - i \in 1..Len(s)
            /\ Len(s) + 1 - (Len(s) + 1 - i) = i
            BY <4>1
      <4>3. Reversed(s)[Len(s) + 1 - i] = s[i]
            BY <4>2, ReversedProperties
      <4> QED
          BY <1>2, <1>6, <3>2, <4>2, <4>3
    <3> QED
        BY <3>1, <3>2
  <2> HIDE DEF Was
  <2>4. ASSUME NEW q \in Outputs, NEW t \in Outputs,
               NEW i \in 1..Len(layout[q]), NEW j \in 1..Len(layout[t]),
               layout[q][i] = layout[t][j]
        PROVE  q = t /\ i = j
    <3>1. PICK a \in 1..Len(niri.layout[q]) :
            a = Was(q, i) /\ layout[q][i] = niri.layout[q][a]
          BY <2>1
    <3>2. PICK b \in 1..Len(niri.layout[t]) :
            b = Was(t, j) /\ layout[t][j] = niri.layout[t][b]
          BY <2>1
    <3>3. niri.layout[q][a] = niri.layout[t][b]
          BY <2>4, <3>1, <3>2
    <3>4. LayoutSound
          BY DEF FInv
    <3>5. q = t /\ a = b
          BY <3>3, <3>4, OnePlace
    <3>6. Was(q, i) = Was(q, j) /\ j \in 1..Len(layout[q])
      <4>1. Was(q, i) = Was(t, j) /\ q = t
            BY ONLY <3>1, <3>2, <3>5, Zenon
      <4>2. j \in 1..Len(layout[t])
            OBVIOUS
      <4> QED
          BY ONLY <4>1, <4>2, Zenon
    <3>7. i = j
          BY <2>2, <3>6
    <3> QED
        BY <3>5, <3>7
  <2>5. ASSUME NEW ws \in Workspaces
        PROVE  \E q \in Outputs : \E i \in 1..Len(layout[q]) : layout[q][i] = ws
    <3>1. PICK q \in Outputs :
            \E i \in 1..Len(niri.layout[q]) : niri.layout[q][i] = ws
          BY DEF FInv, LayoutSound
    <3>2. PICK i \in 1..Len(niri.layout[q]) : niri.layout[q][i] = ws
          BY <3>1
    <3> QED
        BY <2>3, <3>2
  <2>6. \A q \in Outputs : Len(layout[q]) # 0
        BY <1>6 DEF FInv, LayoutSound
  <2>7. \A q, t \in Outputs :
          \A i \in 1..Len(layout[q]), j \in 1..Len(layout[t]) :
            layout[q][i] = layout[t][j] => q = t /\ i = j
        BY <2>4
  <2>8. \A ws \in Workspaces : \E q \in Outputs :
          \E i \in 1..Len(layout[q]) : layout[q][i] = ws
        BY <2>5
  <2>9. \A q, t \in Outputs :
          \A i \in 1..Len(niri'.layout[q]), j \in 1..Len(niri'.layout[t]) :
            niri'.layout[q][i] = niri'.layout[t][j] => q = t /\ i = j
        BY ONLY <1>5, <2>7
  <2>10. \A ws \in Workspaces : \E q \in Outputs :
           \E i \in 1..Len(niri'.layout[q]) : niri'.layout[q][i] = ws
        BY ONLY <1>5, <2>8
  <2>11. \A q \in Outputs : Len(niri'.layout[q]) # 0
        BY ONLY <1>5, <2>6
  <2> QED
      BY <2>9, <2>10, <2>11, Zenon DEF LayoutSound
<1> QED
    BY <1>1, <1>4, <1>7, ChangeActs

-----------------------------------------------------------------------------
(* Steps of the worker and of the script *)

(* A new process has moved nothing and knows nothing. *)
LEMMA Starts ==
  ASSUME FInv, NEW p \in Launchers, NEW command \in LaunchCommands,
         NEW app \in Apps, NEW goal \in Workspaces,
         Becomes(p, Process(command, app, goal)), niri' = niri
  PROVE  /\ run' \in [Launchers -> ProcessType]
         /\ run'[p].at = "resolve" /\ run'[p].command = command
         /\ run'[p].app = app /\ run'[p].moved = {}
         /\ \A q \in Launchers : q # p => run'[q] = run[q]
         /\ LayoutSound' /\ niri' \in NiriType /\ IDs' = IDs
         /\ \A q \in Launchers :
              ProcessSound(q)' /\ AsItWas(q)' /\ OnTarget(q)'
<1>1. PICK s \in ProcessType : s = Process(command, app, goal)
      BY ProcessTyped DEF FInv
<1>2. /\ s.at = "resolve" /\ s.command = command /\ s.app = app
      /\ s.moved = {} /\ s.todo = {} /\ s.failed = FALSE
      /\ s.steady => ~niri.dark
      BY <1>1 DEF Process
<1>3. /\ run' \in [Launchers -> ProcessType] /\ run'[p] = s
      /\ \A q \in Launchers : q # p => run'[q] = run[q]
      BY <1>1, BecomesTyped DEF FInv
<1>4. OnlyMovedBy(p) /\ IDs' = IDs /\ LayoutSound'
      BY NothingMoved
<1>5. ProcessSound(p)' /\ AsItWas(p)' /\ OnTarget(p)'
  <2>1. ProcessSound(p)'
        BY <1>2, <1>3 DEF ProcessSound, Moving
  <2>2. AsItWas(p)'
        BY <1>2, <1>3 DEF AsItWas
  <2>3. OnTarget(p)'
        BY <1>2, <1>3 DEF OnTarget
  <2> QED
      BY <2>1, <2>2, <2>3
<1>6. niri' \in NiriType
      BY DEF FInv, TypeOK
<1> QED
    BY <1>2, <1>3, <1>4, <1>5, <1>6, OthersKept

(* A step in which niri and the processes stand still. *)
LEMMA WorkerActs ==
  ASSUME FInv, UNCHANGED <<niri, firefox, run, history>>,
         worker' \in WorkerType, script' \in Nat, NoLauncherLeft'
  PROVE  FInv'
<1>1. TypeOK'
      BY DEF FInv, TypeOK
<1>2. LayoutSound'
      BY PlacesKept DEF FInv
<1>3. MeetingOnly'
      BY DEF FInv, MeetingOnly, IDs
<1>4. ASSUME NEW p \in Launchers
      PROVE  ProcessSound(p)' /\ AsItWas(p)' /\ OnTarget(p)'
  <2>1. ProcessSound(p) /\ AsItWas(p) /\ OnTarget(p)
        BY DEF FInv
  <2>2. ProcessSound(p)'
        BY <2>1 DEF ProcessSound, IDs
  <2>3. AsItWas(p)' /\ OnTarget(p)'
        BY <2>1 DEF AsItWas, OnTarget
  <2> QED
      BY <2>2, <2>3
<1> QED
    BY <1>1, <1>2, <1>3, <1>4 DEF FInv

LEMMA TerminateActs ==
  ASSUME FInv, Terminate
  PROVE  FInv'
<1>1. worker' \in WorkerType /\ script' \in Nat
      BY DEF Terminate, Quiet, FInv, TypeOK, WorkerType
<1>2. NoLauncherLeft'
      BY DEF Terminate, FInv, TypeOK, WorkerType, NoLauncherLeft
<1> QED
    BY <1>1, <1>2, WorkerActs DEF Terminate, Quiet

LEMMA StopServiceActs ==
  ASSUME FInv, StopService
  PROVE  FInv'
<1>1. worker' \in WorkerType /\ script' \in Nat
      BY DEF StopService, Quiet, FInv, TypeOK, WorkerType
<1>2. NoLauncherLeft'
      BY DEF StopService, FInv, TypeOK, WorkerType, NoLauncherLeft, Free
<1> QED
    BY <1>1, <1>2, WorkerActs DEF StopService, Quiet

LEMMA ReapActs ==
  ASSUME FInv, Reap
  PROVE  FInv'
<1>1. worker' \in WorkerType /\ script' \in Nat
      BY DEF Reap, Quiet, FInv, TypeOK, WorkerType
<1>2. NoLauncherLeft'
      BY DEF Reap, NoLauncherLeft, Free
<1> QED
    BY <1>1, <1>2, WorkerActs DEF Reap, Quiet

LEMMA WorkerReturnsActs ==
  ASSUME FInv, WorkerReturns
  PROVE  FInv'
<1>1. worker' \in WorkerType /\ script' \in Nat
      BY DEF WorkerReturns, Quiet, FInv, TypeOK, WorkerType
<1>2. NoLauncherLeft'
      BY DEF WorkerReturns, FInv, NoLauncherLeft, Free
<1> QED
    BY <1>1, <1>2, WorkerActs DEF WorkerReturns, Quiet

LEMMA AbortActs ==
  ASSUME FInv, Abort
  PROVE  FInv'
<1>1. worker' \in WorkerType /\ script' \in Nat
      BY DEF Abort, FInv, TypeOK
<1>2. NoLauncherLeft'
      BY DEF Abort, FInv, NoLauncherLeft, Free
<1> QED
    BY <1>1, <1>2, WorkerActs DEF Abort

LEMMA BeginOpenActs ==
  ASSUME FInv, NEW ok \in BOOLEAN, BeginOpen(ok)
  PROVE  FInv'
<1>1. worker' \in WorkerType /\ script' \in Nat
  <2>1. worker.n + 1 \in Nat
        BY DEF FInv, TypeOK, WorkerType
  <2> QED
      BY <2>1 DEF BeginOpen, Quiet, FInv, TypeOK, WorkerType
<1>2. CASE ~ok
  <2>1. UNCHANGED <<niri, firefox, run, history>>
        BY <1>2 DEF BeginOpen, Quiet
  <2>2. NoLauncherLeft'
        BY <2>1 DEF BeginOpen, FInv, NoLauncherLeft, Free
  <2> QED
      BY <1>1, <2>1, <2>2, WorkerActs
<1>3. CASE ok
  <2>1. /\ Becomes("meeting", Process("open-url", MeetingApp, Meeting))
        /\ niri' = niri /\ history' = [history EXCEPT !.opening = IDs]
        BY <1>3 DEF BeginOpen, Becomes, Quiet
  <2>2. /\ run' \in [Launchers -> ProcessType]
        /\ run'["meeting"].at = "resolve" /\ run'["meeting"].command = "open-url"
        /\ run'["meeting"].app = MeetingApp /\ run'["meeting"].moved = {}
        /\ LayoutSound' /\ niri' \in NiriType /\ IDs' = IDs
        /\ \A q \in Launchers :
             ProcessSound(q)' /\ AsItWas(q)' /\ OnTarget(q)'
        BY <2>1, WorkspacesAreNat, Starts DEF Launchers, LaunchCommands
  <2>3. history' \in HistoryType /\ history'.opening = IDs
        BY <2>1, IDsAreNat DEF FInv, TypeOK, HistoryType
  <2>4. TypeOK'
        BY <1>1, <2>2, <2>3 DEF BeginOpen, Quiet, FInv, TypeOK
  <2>5. MeetingOnly'
        BY <2>2, <2>3 DEF MeetingOnly, Moving
  <2>6. NoLauncherLeft'
        BY <1>3 DEF BeginOpen, FInv, TypeOK, WorkerType, NoLauncherLeft
  <2> QED
      BY <2>2, <2>4, <2>5, <2>6 DEF FInv
<1> QED
    BY <1>2, <1>3

LEMMA ScriptLaunches ==
  ASSUME FInv, NEW command \in LaunchCommands, NEW app \in Apps,
         NEW goal \in Workspaces,
         Becomes("startup", Process(command, app, goal)),
         UNCHANGED <<niri, firefox, worker, history>>, script' \in Nat
  PROVE  FInv'
<1>1. /\ run' \in [Launchers -> ProcessType]
      /\ run'["meeting"] = run["meeting"]
      /\ LayoutSound' /\ niri' \in NiriType /\ IDs' = IDs
      /\ \A q \in Launchers :
           ProcessSound(q)' /\ AsItWas(q)' /\ OnTarget(q)'
      BY Starts DEF Launchers
<1>2. TypeOK'
      BY <1>1 DEF FInv, TypeOK
<1>3. MeetingOnly' /\ NoLauncherLeft'
      BY <1>1 DEF FInv, MeetingOnly, NoLauncherLeft, Free
<1> QED
    BY <1>1, <1>2, <1>3 DEF FInv

LEMMA LaunchActs ==
  ASSUME FInv, LaunchNext \/ LaunchFocus
  PROVE  FInv'
<1>1. CASE LaunchNext
  <2>1. /\ script \in 1..Len(Profiles) /\ script \in Nat
        /\ Profiles[script] \in Apps /\ Home[Profiles[script]] \in Workspaces
    <3>1. Profiles \in Seq(Apps)
          BY DesktopAssumption
    <3>2. script \in 1..Len(Profiles)
          BY <1>1, <3>1 DEF LaunchNext
    <3> QED
        BY <3>2, WorkspacesAreNat
  <2>2. script' \in Nat
        BY <1>1, <2>1 DEF LaunchNext
  <2>3. Becomes("startup", Process("launch-profile", Profiles[script],
                                   Home[Profiles[script]]))
        BY <1>1 DEF LaunchNext, Becomes
  <2> QED
      BY <1>1, <2>1, <2>2, <2>3, ScriptLaunches DEF LaunchNext, LaunchCommands
<1>2. CASE LaunchFocus
  <2>1. /\ Profiles[1] \in Apps /\ Home[Profiles[1]] \in Workspaces
        /\ LastLaunch \in Nat
        BY WorkspacesAreNat DEF LastLaunch
  <2>2. script' \in Nat
        BY <1>2, <2>1 DEF LaunchFocus
  <2>3. Becomes("startup", Process("focus-workspace", Profiles[1],
                                   Home[Profiles[1]]))
        BY <1>2 DEF LaunchFocus, Becomes
  <2> QED
      BY <1>2, <2>1, <2>2, <2>3, ScriptLaunches DEF LaunchFocus, LaunchCommands
<1> QED
    BY <1>1, <1>2

-----------------------------------------------------------------------------
(* The invariant holds *)

LEMMA FInvAtFirst == Init => FInv
<1> SUFFICES ASSUME Init
             PROVE  FInv
    OBVIOUS
<1>1. \A o \in Outputs : Layout[o] \in Seq(Workspaces) /\ Layout[o] # <<>>
      BY LayoutAssumption
<1>2. /\ niri.windows = <<>> /\ niri.layout = Layout /\ niri.dark = FALSE
      /\ niri \in NiriType /\ IDs = {}
  <2>1. Layout \in [Outputs -> Seq(Workspaces)]
        BY LayoutAssumption
  <2>2. <<>> \in Seq(WindowType) /\ Len(<<>>) = 0 /\ 1..0 = {}
        OBVIOUS
  <2> QED
      BY <2>1, <2>2 DEF Init, NiriType, IDs
<1>3. PICK s \in ProcessType :
        s = [Process("open-url", MeetingApp, Meeting) EXCEPT !.at = "idle"]
      BY <1>2, WorkspacesAreNat, NewProcess DEF LaunchCommands
<1>4. /\ s.at = "idle" /\ s.command = "open-url" /\ s.app = MeetingApp
      /\ s.moved = {} /\ s.todo = {} /\ s.failed = FALSE
      BY <1>3 DEF Process
<1>5. run \in [Launchers -> ProcessType] /\ \A p \in Launchers : run[p] = s
      BY <1>3 DEF Init
<1>6. TypeOK
      BY <1>2, <1>5 DEF Init, TypeOK, FirefoxType, WorkerType, HistoryType
<1>7. LayoutSound
  <2>1. \A o \in Outputs : DOMAIN Layout[o] = 1..Len(Layout[o]) /\ Len(Layout[o]) # 0
        BY <1>1
  <2>2. \A o, q \in Outputs :
          \A i \in 1..Len(Layout[o]), j \in 1..Len(Layout[q]) :
            Layout[o][i] = Layout[q][j] => o = q /\ i = j
        BY <2>1, LayoutAssumption
  <2>3. \A ws \in Workspaces : \E o \in Outputs :
          \E i \in 1..Len(Layout[o]) : Layout[o][i] = ws
        BY <2>1 DEF Workspaces, Places
  <2> QED
      BY <1>2, <2>1, <2>2, <2>3 DEF LayoutSound
<1>8. MeetingOnly
      BY <1>2, <1>4, <1>5 DEF Init, MeetingOnly, Moving, Launchers
<1>9. NoLauncherLeft
      BY <1>4, <1>5 DEF NoLauncherLeft, Free, Launchers
<1>10. ASSUME NEW p \in Launchers
       PROVE  ProcessSound(p) /\ AsItWas(p) /\ OnTarget(p)
  <2>1. run[p] = s
        BY <1>5
  <2>2. ProcessSound(p)
        BY <1>4, <2>1 DEF ProcessSound, Moving
  <2>3. AsItWas(p) /\ OnTarget(p)
        BY <1>4, <2>1 DEF AsItWas, OnTarget
  <2> QED
      BY <2>2, <2>3
<1> QED
    BY <1>6, <1>7, <1>8, <1>9, <1>10 DEF FInv

LEMMA FInvKept == FInv /\ [Next]_vars => FInv'
<1> SUFFICES ASSUME FInv, [Next]_vars
             PROVE  FInv'
    OBVIOUS
<1>1. ASSUME NEW w \in firefox.coming, Appear(w)
      PROVE  FInv'
      BY <1>1, AppearActs
<1>2. ASSUME NEW app \in UserApps, UserOpens(app)
      PROVE  FInv'
      BY <1>2, UserOpensActs
<1>3. ASSUME NEW o \in Outputs, Reorder(o)
      PROVE  FInv'
      BY <1>3, ReorderActs
<1>4. CASE SwitchMonitors
      BY <1>4, SwitchMonitorsActs
<1>5. ASSUME NEW p \in Launchers, LauncherStep(p) \/ Fail(p)
      PROVE  FInv'
      BY <1>5, LauncherStepActs, FailActs
<1>6. ASSUME NEW ok \in BOOLEAN, BeginOpen(ok)
      PROVE  FInv'
      BY <1>6, BeginOpenActs
<1>7. CASE StopService \/ WorkerStep
      BY <1>7, StopServiceActs, TerminateActs, KillActs, ReapActs,
         WorkerReturnsActs DEF WorkerStep
<1>8. CASE ScriptStep
      BY <1>5, <1>8, LaunchActs, AbortActs DEF ScriptStep, Launchers
<1>9. CASE UNCHANGED vars
  <2>1. UNCHANGED <<niri, firefox, run, history>> /\ NoLauncherLeft'
        BY <1>9 DEF vars, FInv, NoLauncherLeft, Free
  <2> QED
      BY <1>9, <2>1, WorkerActs DEF vars, FInv, TypeOK
<1> QED
    BY <1>1, <1>2, <1>3, <1>4, <1>5, <1>6, <1>7, <1>8, <1>9
    DEF Next, Launchers

LEMMA DesktopInvariant == Spec => []FInv
BY FInvAtFirst, FInvKept, PTL DEF Spec

-----------------------------------------------------------------------------
(* Theorems *)

(* Client.Open never returns while its launcher still runs: whatever order  *)
(* the deadline, the stop, the kill and the launcher's own end come in, no  *)
(* command of an earlier join is left when the next one begins.             *)
THEOREM NoLauncherOutlivesItsCaller == Spec => []NoLauncherLeft
<1>1. FInv => NoLauncherLeft
      BY DEF FInv
<1> QED
    BY <1>1, DesktopInvariant, PTL

(* The windows that were on the desktop before a join stay where they are:  *)
(* the snapshot is taken before Firefox starts, and only a window that is   *)
(* missing from it, of the account's profile, is ever moved.                *)
THEOREM JoinsMoveTheirOwnWindow == Spec => []OthersUntouched
<1>1. FInv => OthersUntouched
  <2> SUFFICES ASSUME FInv
               PROVE  OthersUntouched
      OBVIOUS
  <2>1. PICK r \in ProcessType : r = run["meeting"]
        BY DEF FInv, TypeOK, Launchers
  <2>2. /\ r.command = "open-url"
        /\ \A w \in r.moved :
             w \notin history.opening /\ niri.windows[w].app = MeetingApp
        BY <2>1 DEF FInv, MeetingOnly
  <2>3. r.moved \subseteq {r.id}
    <3>1. ProcessSound("meeting")
          BY DEF FInv, Launchers
    <3> QED
        BY <2>1, <2>2, <3>1 DEF ProcessSound
  <2>4. Cardinality(r.moved) <= 1
    <3>1. r.moved = {} \/ r.moved = {r.id}
          BY <2>3
    <3>2. Cardinality({}) = 0 /\ Cardinality({r.id}) = 1
          BY FS_EmptySet, FS_Singleton, Zenon
    <3>3. Cardinality(r.moved) = 0 \/ Cardinality(r.moved) = 1
          BY <3>1, <3>2, Zenon
    <3> QED
        BY <3>3
  <2> QED
      BY <2>1, <2>2, <2>4 DEF OthersUntouched
<1> QED
    BY <1>1, DesktopInvariant, PTL

(* A launch that reports success has put its windows on the workspace it    *)
(* was asked for, also when the window opened on another monitor, unless    *)
(* the layout changed under it or the other launcher took the window.       *)
THEOREM WindowsEndWhereAsked == Spec => []Placed
<1>1. FInv => Placed
  <2> SUFFICES ASSUME FInv, NEW p \in Launchers, run[p].at = "exited", run[p].ok
               PROVE  /\ run[p].command = "open-url" => run[p].moved = {run[p].id}
                      /\ /\ run[p].steady
                         /\ run[p].failed => run[p].command = "open-url"
                         => \A w \in run[p].moved :
                              niri.windows[w].by = {p} =>
                                niri.windows[w].ws = run[p].goal
      BY DEF Placed
  <2>1. ProcessSound(p) /\ OnTarget(p)
        BY DEF FInv
  <2>2. PICK r \in ProcessType : r = run[p]
        BY DEF FInv, TypeOK
  <2>3. r.command = "open-url" => r.moved = {r.id} /\ ~r.failed
        BY <2>1, <2>2 DEF ProcessSound
  <2>4. ASSUME r.steady, ~r.failed, NEW w \in r.moved, niri.windows[w].by = {p}
        PROVE  niri.windows[w].ws = r.goal
        BY <2>1, <2>2, <2>4 DEF OnTarget, Moving
  <2> QED
      BY <2>2, <2>3, <2>4
<1> QED
    BY <1>1, DesktopInvariant, PTL
=============================================================================
