--------------------------- MODULE Authorization ---------------------------
(***************************************************************************)
(* The authorization bundle of one account (storage/authorization.go,      *)
(* storage/atomic.go) and its writers: `meeting-notifier setup' commands   *)
(* (app.SetupAccount), any number at a time, and the token refresh of the  *)
(* daemon (googlecalendar/token_source.go).  Writers hold the account's    *)
(* advisory file lock; readers do not.  Bundles of other accounts are      *)
(* other files under other locks.                                          *)
(*                                                                         *)
(* A setup is named by the random generation it draws.  Of a token only    *)
(* the grant it came from matters, which is that of the setup that asked   *)
(* for it; of the file, whether its content was flushed before the rename. *)
(***************************************************************************)
EXTENDS Integers

CONSTANTS
  Setups,     \* setup commands, numbered; 0 is no generation
  MaxFaults   \* crashes, power losses and failed operations

ASSUME SetupsAssumption == Setups \subseteq Nat \ {0}
ASSUME MaxFaultsAssumption == MaxFaults \in Nat

VARIABLES
  file,        \* the bundle that a reader of the account's file gets
  durable,     \* the bundle that is certain to survive a power loss
  lock,        \* holder of the advisory lock
  pc,          \* where each writer is
  temp,        \* the bundle in each writer's temporary file
  up,          \* the daemon runs with this account
  loaded,      \* the bundle it loaded when it started
  result,      \* the outcome of a poll, on its way to the owner loop
  health,      \* storage.Health of the account, in state.json
  revoked,     \* grants that Google has withdrawn
  superseded,  \* generations that a later setup has replaced
  faults       \* faults so far

fileVars == <<file, durable, superseded>>
daemonVars == <<up, loaded, result, health>>
vars == <<fileVars, daemonVars, lock, pc, temp, revoked, faults>>

Daemon == 0
Free == -1
Writers == Setups \cup {Daemon}

BundleType == [gen: Setups \cup {0}, grant: Setups \cup {0}, flushed: BOOLEAN]
NoBundle == [gen |-> 0, grant |-> 0, flushed |-> TRUE]
Torn == [gen |-> 0, grant |-> 0, flushed |-> FALSE]

HealthType == [needsAuth: BOOLEAN, gen: Setups \cup {0}]
Healthy == [needsAuth |-> FALSE, gen |-> 0]

Init ==
  /\ file = NoBundle /\ durable = NoBundle /\ superseded = {}
  /\ lock = Free
  /\ pc = [w \in Writers |-> "start"]
  /\ temp = [w \in Writers |-> NoBundle]
  /\ up = FALSE /\ loaded = NoBundle /\ result = "none" /\ health = Healthy
  /\ revoked = {} /\ faults = 0

Fault == faults < MaxFaults /\ faults' = faults + 1

Goto(w, to) == pc' = [pc EXCEPT ![w] = to]

-----------------------------------------------------------------------------
(* Setup.Prepare: consent, identity and calendars.  A setup that gets no    *)
(* further has changed nothing.                                             *)
Prepare(p) ==
  /\ pc[p] = "start"
  /\ \E to \in {"ready", "failed"} : Goto(p, to)
  /\ UNCHANGED <<fileVars, daemonVars, lock, temp, revoked, faults>>

(* withAccountLock: wait for the lock. *)
AcquireLock(w) ==
  /\ pc[w] = "ready" /\ lock = Free
  /\ lock' = w /\ Goto(w, "locked")
  /\ UNCHANGED <<fileVars, daemonVars, temp, revoked, faults>>

(* Mutant: the generation is not compared. *)
AlwaysCurrent == TRUE

(* UpdateToken compares the bundle it reads under the lock with the one the *)
(* daemon loaded.                                                           *)
GenerationCurrent == file.gen = loaded.gen

(* Mutant: the content is not flushed before the rename. *)
WrittenOnly(b) == [b EXCEPT !.flushed = FALSE]

(* The temporary file: created, written, flushed and closed. *)
Written(b) == [b EXCEPT !.flushed = TRUE]

(* SaveAuthorization up to the rename. *)
WriteSetup(p) ==
  /\ pc[p] = "locked"
  /\ temp' = [temp EXCEPT ![p] =
                Written([gen |-> p, grant |-> p, flushed |-> FALSE])]
  /\ Goto(p, "written")
  /\ UNCHANGED <<fileVars, daemonVars, lock, revoked, faults>>

(* UpdateToken up to the rename: the bundle on disk with the new token. *)
WriteToken ==
  /\ pc[Daemon] = "locked" /\ file # Torn /\ GenerationCurrent
  /\ temp' = [temp EXCEPT ![Daemon] =
                Written([file EXCEPT !.grant = loaded.grant])]
  /\ Goto(Daemon, "written")
  /\ UNCHANGED <<fileVars, daemonVars, lock, revoked, faults>>

(* ErrStaleAuthorization, or a bundle that cannot be read: a failed poll. *)
RefuseToken ==
  /\ pc[Daemon] = "locked" /\ ~(file # Torn /\ GenerationCurrent)
  /\ lock' = Free /\ Goto(Daemon, "start") /\ result' = "failed"
  /\ UNCHANGED <<fileVars, up, loaded, health, temp, revoked, faults>>

Rename(w) ==
  /\ pc[w] = "written"
  /\ file' = temp[w] /\ Goto(w, "renamed")
  /\ superseded' = IF w = Daemon THEN superseded
                                 ELSE superseded \cup {file.gen}
  /\ UNCHANGED <<durable, daemonVars, lock, temp, revoked, faults>>

(* Mutant: the directory is not flushed. *)
DirectoryNotFlushed == durable

(* Sync of the parent directory makes the rename permanent. *)
DirectoryFlushed == file

SyncDirectory(w) ==
  /\ pc[w] = "renamed"
  /\ durable' = DirectoryFlushed /\ Goto(w, "synced")
  /\ UNCHANGED <<file, superseded, daemonVars, lock, temp, revoked, faults>>

(* The rest of a poll: the calls succeed, fail, or Google refuses the grant. *)
PollOutcomes ==
  {"ok", "failed"} \cup
    (IF loaded.grant \in revoked THEN {"authentication"} ELSE {})

(* With its new token saved the daemon goes on to poll. *)
Unlock(w) ==
  /\ pc[w] = "synced" /\ lock' = Free
  /\ \/ w # Daemon /\ Goto(w, "saved") /\ UNCHANGED result
     \/ w = Daemon /\ Goto(w, "start") /\ result' \in PollOutcomes
  /\ UNCHANGED <<fileVars, up, loaded, health, temp, revoked, faults>>

(* Mutant: every failed write is said to have changed nothing. *)
AlwaysPreserved(stage) == "preserved"

(* setupWriteError: what the user is told after a failure at this stage. *)
WriteError(stage) ==
  IF stage \in {"renamed", "synced"} THEN "ambiguous" ELSE "preserved"

(* Mutant: the lock survives the failure of its holder. *)
LockKept(w) == lock

(* The lock is released after an error as after success, and by the kernel  *)
(* when its holder dies.                                                    *)
LockLeft(w) == IF lock = w THEN Free ELSE lock

Writing == {"ready", "locked", "written", "renamed", "synced"}

(* An operation of withAccountLock or atomicWrite returns an error. *)
WriteFails(w) ==
  /\ pc[w] \in Writing /\ Fault
  /\ lock' = LockLeft(w)
  /\ \/ w # Daemon /\ Goto(w, WriteError(pc[w])) /\ UNCHANGED result
     \/ w = Daemon /\ Goto(w, "start") /\ result' = "failed"
  /\ UNCHANGED <<fileVars, up, loaded, health, temp, revoked>>

-----------------------------------------------------------------------------
(* The daemon *)

(* Mutant: the failure of any generation disables the account. *)
DisabledByAnyGeneration(b, h) ==
  CASE b = Torn -> "malformed"
    [] b # Torn /\ b.gen = 0 -> "missing"
    [] OTHER -> IF h.needsAuth THEN "auth-required" ELSE "available"

(* availability.Classify *)
Classify(b, h) ==
  CASE b = Torn -> "malformed"
    [] b # Torn /\ b.gen = 0 -> "missing"
    [] OTHER -> IF h.needsAuth /\ h.gen # 0 /\ h.gen = b.gen
                  THEN "auth-required" ELSE "available"

(* runDaemon: an account that is not available is left out, and without an  *)
(* account the service exits, to be started again.                          *)
Start ==
  /\ ~up /\ Classify(file, health) = "available"
  /\ up' = TRUE /\ loaded' = file
  /\ UNCHANGED <<fileVars, result, health, lock, pc, temp, revoked, faults>>

(* SyncAccount with the bundle loaded at start-up: with the token at hand,   *)
(* or with a new one that has to be saved first.                            *)
Poll ==
  /\ up /\ pc[Daemon] = "start" /\ result = "none"
  /\ \/ result' \in PollOutcomes /\ UNCHANGED pc
     \/ loaded.grant \notin revoked /\ Goto(Daemon, "ready")
        /\ UNCHANGED result
  /\ UNCHANGED <<fileVars, up, loaded, health, lock, temp, revoked, faults>>

(* applyPollFailure, and the reset of the health in reconcile. *)
RecordPoll ==
  /\ result # "none"
  /\ result' = "none"
  /\ health' = IF result = "authentication"
                 THEN [needsAuth |-> TRUE, gen |-> loaded.gen]
                 ELSE Healthy
  /\ UNCHANGED <<fileVars, up, loaded, lock, pc, temp, revoked, faults>>

(* Mutant: the running daemon is not stopped. *)
DaemonKeptAt(points) == UNCHANGED <<up, result, lock>> /\ pc' = points

(* The daemon's process ends; the writers are where `points' says. *)
DaemonEndsAt(points) ==
  /\ up' = FALSE /\ result' = "none" /\ lock' = LockLeft(Daemon)
  /\ pc' = [points EXCEPT ![Daemon] = "start"]

(* systemctl --user restart, only after the bundle was saved. *)
RestartService(p) ==
  /\ pc[p] = "saved"
  /\ \/ DaemonEndsAt([pc EXCEPT ![p] = "finished"]) /\ UNCHANGED faults
     \/ /\ Fault /\ Goto(p, "restart-required")
        /\ UNCHANGED <<up, result, lock>>
  /\ UNCHANGED <<fileVars, loaded, health, temp, revoked>>

-----------------------------------------------------------------------------
(* The world *)

Revoke(p) ==
  /\ pc[p] # "start" /\ p \notin revoked
  /\ revoked' = revoked \cup {p}
  /\ UNCHANGED <<fileVars, daemonVars, lock, pc, temp, faults>>

DaemonCrash ==
  /\ up /\ Fault /\ DaemonEndsAt(pc)
  /\ UNCHANGED <<fileVars, loaded, health, temp, revoked>>

SetupCrash(p) ==
  /\ pc[p] \in Writing \cup {"saved"} /\ Fault
  /\ lock' = LockLeft(p) /\ Goto(p, "dead")
  /\ UNCHANGED <<fileVars, daemonVars, temp, revoked>>

(* The file that a power loss leaves: one that was not flushed is torn. *)
AfterPowerLoss(b) == IF b.flushed THEN b ELSE Torn

(* Everything stops; a rename that was not made permanent may be undone. *)
PowerLoss ==
  /\ Fault
  /\ \E b \in {file, durable} :
       file' = AfterPowerLoss(b) /\ durable' = AfterPowerLoss(b)
  /\ up' = FALSE /\ result' = "none" /\ lock' = Free
  /\ pc' = [w \in Writers |->
              IF w = Daemon THEN "start"
              ELSE IF pc[w] \in Writing \cup {"saved"} THEN "dead"
              ELSE pc[w]]
  /\ UNCHANGED <<superseded, loaded, health, temp, revoked>>

-----------------------------------------------------------------------------
(* One step of a write, by setup or daemon. *)
Write(w) ==
  \/ AcquireLock(w) \/ Rename(w) \/ SyncDirectory(w) \/ Unlock(w)
  \/ WriteFails(w)

SetupStep(p) == Prepare(p) \/ WriteSetup(p) \/ Write(p) \/ RestartService(p)

DaemonStep ==
  Start \/ Poll \/ WriteToken \/ RefuseToken \/ Write(Daemon) \/ RecordPoll

World ==
  \/ \E p \in Setups : Revoke(p) \/ SetupCrash(p)
  \/ DaemonCrash \/ PowerLoss

Next == (\E p \in Setups : SetupStep(p)) \/ DaemonStep \/ World

Spec == Init /\ [][Next]_vars

(* Writers go on, the lock is handed to whoever waits for it (the kernel    *)
(* queues the waiters) and systemd starts the service.  No setup has to     *)
(* begin, and nothing has to fail.                                          *)
Fairness ==
  /\ \A w \in Writers :
       /\ SF_vars(AcquireLock(w))
       /\ WF_vars(Rename(w) \/ SyncDirectory(w) \/ Unlock(w))
  /\ \A p \in Setups : WF_vars(WriteSetup(p)) /\ WF_vars(RestartService(p))
  /\ WF_vars(WriteToken \/ RefuseToken)
  /\ WF_vars(Start) /\ WF_vars(RecordPoll)

FairSpec == Spec /\ Fairness

-----------------------------------------------------------------------------
Ended == {"failed", "preserved", "ambiguous", "dead", "finished",
          "restart-required"}

(* Type invariant of the authorization store. *)
TypeOK ==
  /\ file \in BundleType /\ durable \in BundleType /\ loaded \in BundleType
  /\ temp \in [Writers -> BundleType]
  /\ lock \in Writers \cup {Free}
  /\ pc \in [Writers -> {"start", "saved"} \cup Writing \cup Ended]
  /\ up \in BOOLEAN
  /\ result \in {"none", "ok", "failed", "authentication"}
  /\ health \in HealthType
  /\ revoked \subseteq Setups /\ superseded \subseteq Setups \cup {0}
  /\ faults \in 0..MaxFaults

(* A token is only ever stored with the generation it was granted for:      *)
(* UpdateToken of a daemon that loaded an older bundle never puts its token *)
(* into the bundle of a later setup.                                        *)
TokensBelong == file.grant = file.gen /\ durable.grant = durable.gen

(* The README: "leaves only complete old-or-new content, never a partial     *)
(* bundle", whatever step of atomicWrite a crash or power loss interrupts.   *)
NeverPartial == file # Torn

Reported == {"saved", "finished", "restart-required"}

(* Once SaveAuthorization has reported success the bundle is there for good: *)
(* no token refresh, failed setup or power loss brings an older one back;    *)
(* only a later setup replaces it.                                           *)
SetupNeverLost ==
  \A p \in Setups :
    pc[p] \in Reported /\ p \notin superseded => durable.gen = p

(* "Existing authorization was preserved" (setupWriteError) is true whenever *)
(* setup says so.                                                            *)
PreservedIsPreserved ==
  \A p \in Setups :
    pc[p] \in {"failed", "preserved"} => file.gen # p /\ durable.gen # p

(* An account is only left out for authorization when Google did refuse the  *)
(* grant of the bundle on disk: the failure of an older generation, however  *)
(* late it is recorded, does not disable a new setup.                        *)
OnlyRefusedIsDisabled ==
  Classify(file, health) = "auth-required" => file.gen \in revoked

(* A setup that waits for the lock comes to an end, whoever holds the lock   *)
(* and however its holder ends.                                              *)
SetupEnds == \A p \in Setups : pc[p] = "ready" ~> pc[p] \in Ended

(* Without faults a saved setup reaches the daemon: it comes to run with the *)
(* bundle on disk, unless Google refuses that one.                           *)
SetupReachesDaemon ==
  \A p \in Setups :
    pc[p] = "saved" ~> \/ up /\ loaded.gen = file.gen
                       \/ file.gen \in revoked
                       \/ faults > 0
=============================================================================
