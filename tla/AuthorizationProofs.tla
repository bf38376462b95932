------------------------ MODULE AuthorizationProofs ------------------------
(***************************************************************************)
(* Proofs about Authorization.tla, for any set of concurrent setups and    *)
(* any number of faults: the safety properties of the bundle and of the    *)
(* account's health.                                                       *)
(*                                                                         *)
(* None of the properties is inductive by itself.  IInv adds who may be in *)
(* the critical section, what the writer in it has prepared, and that a    *)
(* bundle is only ever read or staged whole.  Each action has a lemma.     *)
(***************************************************************************)
EXTENDS Authorization, TLAPS

(* A whole bundle, with the token of its own generation; no bundle is one. *)
Bundle(g) == [gen |-> g, grant |-> g, flushed |-> TRUE]
Whole(b) == \E g \in Setups \cup {0} : b = Bundle(g)

AllWhole ==
  /\ Whole(file) /\ Whole(durable) /\ Whole(loaded)
  /\ \A w \in Writers : Whole(temp[w])

Holding == {"locked", "written", "renamed", "synced"}

(* The lock is held by the one writer that is between lock and unlock. *)
LockHeld == \A w \in Writers : pc[w] \in Holding <=> lock = w

(* What the writer in the critical section has achieved so far. *)
Staged ==
  /\ pc[Daemon] = "written" => temp[Daemon].gen = file.gen
  /\ \A p \in Setups :
       /\ pc[p] = "written" => temp[p].gen = p
       /\ pc[p] \in {"renamed", "synced"} => file.gen = p
       /\ pc[p] = "synced" => durable.gen = p

(* A bundle that was reported as saved is there, before and after a power   *)
(* loss, until another setup replaces it.                                   *)
Kept ==
  \A p \in Setups :
    pc[p] \in Reported /\ p \notin superseded => file.gen = p /\ durable.gen = p

(* A setup that has not come to its rename has left no trace. *)
Unseen ==
  \A p \in Setups :
    pc[p] \in {"start", "ready", "locked", "written", "failed", "preserved"}
      => file.gen # p /\ durable.gen # p

(* A refusal that is on its way or on record is one of Google's. *)
Refused ==
  /\ ~up => result = "none" /\ pc[Daemon] = "start"
  /\ result = "authentication" => loaded.gen \in revoked
  /\ health.needsAuth => health.gen \in revoked

IInv ==
  TypeOK /\ AllWhole /\ LockHeld /\ Staged /\ Kept /\ Unseen /\ Refused

-----------------------------------------------------------------------------
(* The daemon and the free lock are no setups. *)
LEMMA WriterFacts ==
  /\ Daemon \notin Setups /\ Daemon \in Writers /\ Free \notin Writers
  /\ \A p \in Setups : p \in Writers /\ p # Daemon /\ p # 0
  BY SetupsAssumption DEF Daemon, Free, Writers

(* A whole bundle is typed, is not torn and survives a power loss; written   *)
(* again with its own token it is the same.                                  *)
LEMMA WholeFacts ==
  ASSUME NEW b, Whole(b)
  PROVE  /\ b \in BundleType /\ b.grant = b.gen /\ b # Torn
         /\ b.gen \in Setups \cup {0}
         /\ AfterPowerLoss(b) = b
         /\ Written([b EXCEPT !.grant = b.gen]) = b
<1>1. PICK g \in Setups \cup {0} :
        b = [gen |-> g, grant |-> g, flushed |-> TRUE]
  BY DEF Whole, Bundle
<1>2. b \in BundleType
  BY <1>1 DEF BundleType
<1>3. b.gen = g /\ b.grant = g /\ b.flushed = TRUE
  BY <1>1
<1>4. b # Torn
  BY <1>3 DEF Torn
<1>5. AfterPowerLoss(b) = b
  BY <1>3 DEF AfterPowerLoss
<1>6. Written([b EXCEPT !.grant = b.gen]) = b
  BY <1>1, <1>3 DEF Written
<1> QED
  BY <1>2, <1>3, <1>4, <1>5, <1>6

(* What a setup writes, and the bundle of an account never set up. *)
LEMMA WholeNew ==
  /\ Whole(NoBundle) /\ NoBundle.gen = 0
  /\ \A p \in Setups :
       LET b == Written([gen |-> p, grant |-> p, flushed |-> FALSE])
       IN  Whole(b) /\ b.gen = p
<1>1. NoBundle = Bundle(0) /\ NoBundle.gen = 0
  BY DEF Bundle, NoBundle
<1>2. ASSUME NEW p \in Setups
      PROVE  Written([gen |-> p, grant |-> p, flushed |-> FALSE]) = Bundle(p)
  <2>1. PICK b : b = [gen |-> p, grant |-> p, flushed |-> FALSE]
    OBVIOUS
  <2>2. b \in [gen: {p}, grant: {p}, flushed: BOOLEAN]
    BY <2>1
  <2>3. PICK c : c = [b EXCEPT !.flushed = TRUE]
    OBVIOUS
  <2>4. c \in [gen: {p}, grant: {p}, flushed: {TRUE}]
    BY <2>2, <2>3
  <2>5. c = Bundle(p)
    BY <2>4 DEF Bundle
  <2> QED
    BY <2>1, <2>3, <2>5 DEF Written
<1>3. \A p \in Setups : Bundle(p).gen = p
  BY DEF Bundle
<1> QED
  BY <1>1, <1>2, <1>3, Zenon DEF Whole

(* The store starts empty. *)
LEMMA InitInv == Init => IInv
<1> SUFFICES ASSUME Init PROVE IInv
  OBVIOUS
<1>1. AllWhole
  BY WholeNew DEF Init, AllWhole
<1>2. TypeOK
  <2>1. NoBundle \in BundleType
    BY WholeNew, WholeFacts
  <2>2. Healthy \in HealthType
    BY DEF Healthy, HealthType
  <2>3. pc \in [Writers -> {"start", "saved"} \cup Writing \cup Ended]
    BY DEF Init
  <2>4. temp \in [Writers -> BundleType]
    BY <2>1 DEF Init
  <2>5. faults \in 0..MaxFaults
    BY MaxFaultsAssumption DEF Init
  <2> QED
    BY <2>1, <2>2, <2>3, <2>4, <2>5 DEF Init, TypeOK
<1>3. LockHeld /\ Staged
  BY WriterFacts DEF Init, LockHeld, Staged, Holding
<1>4. Kept /\ Unseen
  BY WriterFacts, WholeNew DEF Init, Kept, Unseen, Reported, Writers
<1>5. Refused
  BY DEF Init, Refused, Healthy, Writers
<1> QED
  BY <1>1, <1>2, <1>3, <1>4, <1>5 DEF IInv

(* Prepare keeps IInv: it only moves a setup that has left no trace. *)
LEMMA PrepareInv ==
  ASSUME IInv, NEW p \in Setups, Prepare(p)
  PROVE  IInv'
<1> USE WriterFacts DEF IInv, Prepare, Goto, fileVars, daemonVars
<1>1. AllWhole'
  BY DEF AllWhole
<1>2. TypeOK'
  BY DEF TypeOK, Writing, Ended
<1>3. LockHeld'
  BY DEF LockHeld, Holding, TypeOK
<1>4. Staged'
  BY DEF Staged, LockHeld, Holding, TypeOK
<1>5. Kept'
  BY DEF Kept, Reported, TypeOK
<1>6. Unseen'
  BY DEF Unseen, TypeOK
<1>7. Refused'
  BY DEF Refused, TypeOK
<1> QED
  BY <1>1, <1>2, <1>3, <1>4, <1>5, <1>6, <1>7

(* The lock was free, so no other writer is between lock and unlock. *)
LEMMA AcquireInv ==
  ASSUME IInv, NEW w \in Writers, AcquireLock(w)
  PROVE  IInv'
<1> USE WriterFacts DEF IInv, AcquireLock, Goto, fileVars, daemonVars
<1>1. AllWhole'
  BY DEF AllWhole
<1>2. TypeOK'
  BY DEF TypeOK, Writing, Ended
<1>3. LockHeld'
  BY DEF LockHeld, Holding, TypeOK
<1>4. Staged'
  BY DEF Staged, LockHeld, Holding, TypeOK
<1>5. Kept'
  BY DEF Kept, Reported, TypeOK
<1>6. Unseen'
  BY DEF Unseen, TypeOK
<1>7. Refused'
  BY DEF Refused, TypeOK
<1> QED
  BY <1>1, <1>2, <1>3, <1>4, <1>5, <1>6, <1>7

(* The setup stages its own bundle. *)
LEMMA WriteSetupInv ==
  ASSUME IInv, NEW p \in Setups, WriteSetup(p)
  PROVE  IInv'
<1> USE WriterFacts DEF IInv, WriteSetup, Goto, fileVars, daemonVars
<1>s. PICK b : /\ b = Written([gen |-> p, grant |-> p, flushed |-> FALSE])
                /\ Whole(b) /\ b.gen = p /\ b \in BundleType
  BY WholeNew, WholeFacts
<1>t. temp' = [temp EXCEPT ![p] = b]
  BY <1>s
<1>1. AllWhole'
  BY <1>s, <1>t DEF AllWhole, TypeOK
<1>2. TypeOK'
  BY <1>s, <1>t DEF TypeOK, Writing, Ended
<1>3. LockHeld'
  BY DEF LockHeld, Holding, TypeOK
<1>4. Staged'
  BY <1>s, <1>t DEF Staged, LockHeld, Holding, TypeOK
<1>5. Kept'
  BY DEF Kept, Reported, TypeOK
<1>6. Unseen'
  BY DEF Unseen, TypeOK
<1>7. Refused'
  BY DEF Refused, TypeOK
<1> QED
  BY <1>1, <1>2, <1>3, <1>4, <1>5, <1>6, <1>7

(* The daemon stages the bundle on disk with a token of the same grant. *)
LEMMA WriteTokenInv ==
  ASSUME IInv, WriteToken
  PROVE  IInv'
<1> USE WriterFacts
      DEF IInv, WriteToken, GenerationCurrent, Goto, fileVars, daemonVars
<1>w. Whole(file) /\ Whole(durable) /\ Whole(loaded)
  BY DEF AllWhole
<1>f. /\ file \in BundleType /\ file.gen \in Setups \cup {0}
      /\ loaded.gen \in Setups \cup {0} /\ loaded.grant = loaded.gen
  BY <1>w, WholeFacts
<1>t. temp' = [temp EXCEPT ![Daemon] = file]
  BY <1>w, <1>f, WholeFacts
<1>1. AllWhole'
  BY <1>w, <1>t DEF AllWhole, TypeOK
<1>2. TypeOK'
  BY <1>f, <1>t DEF TypeOK, Writing, Ended
<1>3. LockHeld'
  BY DEF LockHeld, Holding, TypeOK
<1>4. Staged'
  BY <1>t DEF Staged, LockHeld, Holding, TypeOK
<1>5. Kept'
  BY DEF Kept, Reported, TypeOK
<1>6. Unseen'
  BY DEF Unseen, TypeOK
<1>7. Refused'
  BY DEF Refused, TypeOK
<1> QED
  BY <1>1, <1>2, <1>3, <1>4, <1>5, <1>6, <1>7

(* A refused token leaves the file alone. *)
LEMMA RefuseTokenInv ==
  ASSUME IInv, RefuseToken
  PROVE  IInv'
<1> USE WriterFacts DEF IInv, RefuseToken, Goto, fileVars, daemonVars
<1>1. AllWhole'
  BY DEF AllWhole
<1>2. TypeOK'
  BY DEF TypeOK, Writing, Ended
<1>3. LockHeld'
  BY DEF LockHeld, Holding, TypeOK
<1>4. Staged'
  BY DEF Staged, LockHeld, Holding, TypeOK
<1>5. Kept'
  BY DEF Kept, Reported, TypeOK
<1>6. Unseen'
  BY DEF Unseen, TypeOK
<1>7. Refused'
  BY DEF Refused, TypeOK
<1> QED
  BY <1>1, <1>2, <1>3, <1>4, <1>5, <1>6, <1>7

(* The rename shows the staged bundle; that of a setup supersedes the old. *)
LEMMA RenameInv ==
  ASSUME IInv, NEW w \in Writers, Rename(w)
  PROVE  IInv'
<1> USE WriterFacts DEF IInv, Rename, Goto, fileVars, daemonVars
<1>w. Whole(file) /\ Whole(durable) /\ Whole(loaded)
  BY DEF AllWhole
<1>f. /\ file \in BundleType /\ file.gen \in Setups \cup {0}
      /\ loaded.gen \in Setups \cup {0} /\ loaded.grant = loaded.gen
  BY <1>w, WholeFacts
<1>1. AllWhole'
  BY DEF AllWhole
<1>2. TypeOK'
  <2>1. file' \in BundleType
    BY WholeFacts DEF AllWhole
  <2>2. superseded' \subseteq Setups \cup {0}
    BY <1>f DEF TypeOK
  <2> QED
    BY <2>1, <2>2 DEF TypeOK, Writing, Ended
<1>3. LockHeld'
  BY DEF LockHeld, Holding, TypeOK
<1>4. Staged'
  BY DEF Staged, LockHeld, Holding, TypeOK
<1>5. Kept'
  <2>1. CASE w = Daemon
    BY <2>1 DEF Kept, Staged, Reported, TypeOK
  <2>2. CASE w # Daemon
    BY <2>2 DEF Kept, Reported, TypeOK
  <2> QED
    BY <2>1, <2>2
<1>6. Unseen'
  <2>1. CASE w = Daemon
    BY <2>1 DEF Unseen, Staged, TypeOK
  <2>2. CASE w # Daemon
    <3>1. w \in Setups /\ file'.gen = w
      BY <2>2 DEF Staged, Writers
    <3> QED
      BY <3>1 DEF Unseen, TypeOK
  <2> QED
    BY <2>1, <2>2
<1>7. Refused'
  BY DEF Refused, TypeOK
<1> QED
  BY <1>1, <1>2, <1>3, <1>4, <1>5, <1>6, <1>7

(* The directory is flushed. *)
LEMMA SyncInv ==
  ASSUME IInv, NEW w \in Writers, SyncDirectory(w)
  PROVE  IInv'
<1> USE WriterFacts
      DEF IInv, SyncDirectory, DirectoryFlushed, Goto, fileVars, daemonVars
<1>1. AllWhole'
  BY DEF AllWhole
<1>2. TypeOK'
  BY DEF TypeOK, Writing, Ended
<1>3. LockHeld'
  BY DEF LockHeld, Holding, TypeOK
<1>4. Staged'
  BY DEF Staged, LockHeld, Holding, TypeOK
<1>5. Kept'
  BY DEF Kept, Reported, TypeOK
<1>6. Unseen'
  BY DEF Unseen, TypeOK
<1>7. Refused'
  BY DEF Refused, TypeOK
<1> QED
  BY <1>1, <1>2, <1>3, <1>4, <1>5, <1>6, <1>7

(* The writer leaves the critical section. *)
LEMMA UnlockInv ==
  ASSUME IInv, NEW w \in Writers, Unlock(w)
  PROVE  IInv'
<1> USE WriterFacts DEF IInv, Unlock, PollOutcomes, Goto, fileVars, daemonVars
<1>w. Whole(file) /\ Whole(durable) /\ Whole(loaded)
  BY DEF AllWhole
<1>f. /\ file \in BundleType /\ file.gen \in Setups \cup {0}
      /\ loaded.gen \in Setups \cup {0} /\ loaded.grant = loaded.gen
  BY <1>w, WholeFacts
<1>1. AllWhole'
  BY DEF AllWhole
<1>2. TypeOK'
  BY DEF TypeOK, Writing, Ended
<1>3. LockHeld'
  BY DEF LockHeld, Holding, TypeOK
<1>4. Staged'
  BY DEF Staged, LockHeld, Holding, TypeOK
<1>5. Kept'
  <2>1. CASE w = Daemon
    BY <2>1 DEF Kept, Reported, TypeOK
  <2>2. CASE w # Daemon
    <3>1. w \in Setups /\ file.gen = w /\ durable.gen = w
      BY <2>2 DEF Staged, Writers
    <3> QED
      BY <2>2, <3>1 DEF Kept, Reported, TypeOK
  <2> QED
    BY <2>1, <2>2
<1>6. Unseen'
  BY DEF Unseen, TypeOK
<1>7. Refused'
  <2>1. CASE w = Daemon
    BY <1>f, <2>1 DEF Refused, TypeOK
  <2>2. CASE w # Daemon
    BY <2>2 DEF Refused, TypeOK
  <2> QED
    BY <2>1, <2>2
<1> QED
  BY <1>1, <1>2, <1>3, <1>4, <1>5, <1>6, <1>7

(* A failed operation: the lock is given back, and the report fits the stage. *)
LEMMA WriteFailsInv ==
  ASSUME IInv, NEW w \in Writers, WriteFails(w)
  PROVE  IInv'
<1> USE WriterFacts, MaxFaultsAssumption
      DEF IInv, WriteFails, WriteError, LockLeft, Writing, Fault, Goto,
          fileVars, daemonVars
<1>1. AllWhole'
  BY DEF AllWhole
<1>2. TypeOK'
  BY DEF TypeOK, Writing, Ended
<1>3. LockHeld'
  BY DEF LockHeld, Holding, TypeOK
<1>4. Staged'
  BY DEF Staged, LockHeld, Holding, TypeOK
<1>5. Kept'
  BY DEF Kept, Reported, TypeOK
<1>6. Unseen'
  BY DEF Unseen, TypeOK
<1>7. Refused'
  BY DEF Refused, TypeOK
<1> QED
  BY <1>1, <1>2, <1>3, <1>4, <1>5, <1>6, <1>7

(* The daemon starts with the bundle on disk. *)
LEMMA StartInv ==
  ASSUME IInv, Start
  PROVE  IInv'
<1> USE WriterFacts DEF IInv, Start, fileVars, daemonVars
<1>1. AllWhole'
  BY DEF AllWhole
<1>2. TypeOK'
  BY DEF TypeOK, Writing, Ended
<1>3. LockHeld'
  BY DEF LockHeld, Holding, TypeOK
<1>4. Staged'
  BY DEF Staged, LockHeld, Holding, TypeOK
<1>5. Kept'
  BY DEF Kept, Reported, TypeOK
<1>6. Unseen'
  BY DEF Unseen, TypeOK
<1>7. Refused'
  BY DEF Refused, TypeOK
<1> QED
  BY <1>1, <1>2, <1>3, <1>4, <1>5, <1>6, <1>7

(* A poll is refused only for a grant that was withdrawn. *)
LEMMA PollInv ==
  ASSUME IInv, Poll
  PROVE  IInv'
<1> USE WriterFacts DEF IInv, Poll, PollOutcomes, Goto, fileVars, daemonVars
<1>w. Whole(file) /\ Whole(durable) /\ Whole(loaded)
  BY DEF AllWhole
<1>f. /\ file \in BundleType /\ file.gen \in Setups \cup {0}
      /\ loaded.gen \in Setups \cup {0} /\ loaded.grant = loaded.gen
  BY <1>w, WholeFacts
<1>1. AllWhole'
  BY DEF AllWhole
<1>2. TypeOK'
  BY DEF TypeOK, Writing, Ended
<1>3. LockHeld'
  BY DEF LockHeld, Holding, TypeOK
<1>4. Staged'
  BY DEF Staged, LockHeld, Holding, TypeOK
<1>5. Kept'
  BY DEF Kept, Reported, TypeOK
<1>6. Unseen'
  BY DEF Unseen, TypeOK
<1>7. Refused'
  BY <1>f DEF Refused, TypeOK
<1> QED
  BY <1>1, <1>2, <1>3, <1>4, <1>5, <1>6, <1>7

(* The health records the generation that was refused. *)
LEMMA RecordPollInv ==
  ASSUME IInv, RecordPoll
  PROVE  IInv'
<1> USE WriterFacts DEF IInv, RecordPoll, Healthy, fileVars, daemonVars
<1>w. Whole(file) /\ Whole(durable) /\ Whole(loaded)
  BY DEF AllWhole
<1>f. /\ file \in BundleType /\ file.gen \in Setups \cup {0}
      /\ loaded.gen \in Setups \cup {0} /\ loaded.grant = loaded.gen
  BY <1>w, WholeFacts
<1>1. AllWhole'
  BY DEF AllWhole
<1>2. TypeOK'
  <2>1. health' \in HealthType
    BY <1>f DEF HealthType
  <2> QED
    BY <2>1 DEF TypeOK
<1>3. LockHeld'
  BY DEF LockHeld, Holding, TypeOK
<1>4. Staged'
  BY DEF Staged, LockHeld, Holding, TypeOK
<1>5. Kept'
  BY DEF Kept, Reported, TypeOK
<1>6. Unseen'
  BY DEF Unseen, TypeOK
<1>7. Refused'
  BY DEF Refused, TypeOK
<1> QED
  BY <1>1, <1>2, <1>3, <1>4, <1>5, <1>6, <1>7

(* The restart ends the daemon, or fails and is reported. *)
LEMMA RestartInv ==
  ASSUME IInv, NEW p \in Setups, RestartService(p)
  PROVE  IInv'
<1> USE WriterFacts, MaxFaultsAssumption
      DEF IInv, RestartService, DaemonEndsAt, LockLeft, Fault, Goto,
          fileVars, daemonVars
<1>1. AllWhole'
  BY DEF AllWhole
<1>2. TypeOK'
  <2>1. pc' \in [Writers -> {"start", "saved"} \cup Writing \cup Ended]
    BY DEF TypeOK, Writing, Ended
  <2>2. faults' \in 0..MaxFaults /\ lock' \in Writers \cup {Free}
    BY DEF TypeOK
  <2>3. /\ up' \in BOOLEAN
        /\ result' \in {"none", "ok", "failed", "authentication"}
    BY DEF TypeOK
  <2> QED
    BY <2>1, <2>2, <2>3 DEF TypeOK
<1>3. LockHeld'
  BY DEF LockHeld, Holding, TypeOK
<1>4. Staged'
  BY DEF Staged, LockHeld, Holding, TypeOK
<1>5. Kept'
  BY DEF Kept, Reported, TypeOK
<1>6. Unseen'
  BY DEF Unseen, TypeOK
<1>7. Refused'
  BY DEF Refused, TypeOK
<1> QED
  BY <1>1, <1>2, <1>3, <1>4, <1>5, <1>6, <1>7

(* Google withdraws a grant. *)
LEMMA RevokeInv ==
  ASSUME IInv, NEW p \in Setups, Revoke(p)
  PROVE  IInv'
<1> USE WriterFacts DEF IInv, Revoke, fileVars, daemonVars
<1>1. AllWhole'
  BY DEF AllWhole
<1>2. TypeOK'
  BY DEF TypeOK, Writing, Ended
<1>3. LockHeld'
  BY DEF LockHeld, Holding, TypeOK
<1>4. Staged'
  BY DEF Staged, LockHeld, Holding, TypeOK
<1>5. Kept'
  BY DEF Kept, Reported, TypeOK
<1>6. Unseen'
  BY DEF Unseen, TypeOK
<1>7. Refused'
  BY DEF Refused, TypeOK
<1> QED
  BY <1>1, <1>2, <1>3, <1>4, <1>5, <1>6, <1>7

(* The daemon dies and its lock with it. *)
LEMMA DaemonCrashInv ==
  ASSUME IInv, DaemonCrash
  PROVE  IInv'
<1> USE WriterFacts, MaxFaultsAssumption
      DEF IInv, DaemonCrash, DaemonEndsAt, LockLeft, Fault, fileVars,
          daemonVars
<1>1. AllWhole'
  BY DEF AllWhole
<1>2. TypeOK'
  <2>1. pc' \in [Writers -> {"start", "saved"} \cup Writing \cup Ended]
    BY DEF TypeOK, Writing, Ended
  <2>2. faults' \in 0..MaxFaults /\ lock' \in Writers \cup {Free}
    BY DEF TypeOK
  <2>3. /\ up' \in BOOLEAN
        /\ result' \in {"none", "ok", "failed", "authentication"}
    BY DEF TypeOK
  <2> QED
    BY <2>1, <2>2, <2>3 DEF TypeOK
<1>3. LockHeld'
  BY DEF LockHeld, Holding, TypeOK
<1>4. Staged'
  BY DEF Staged, LockHeld, Holding, TypeOK
<1>5. Kept'
  BY DEF Kept, Reported, TypeOK
<1>6. Unseen'
  BY DEF Unseen, TypeOK
<1>7. Refused'
  BY DEF Refused, TypeOK
<1> QED
  BY <1>1, <1>2, <1>3, <1>4, <1>5, <1>6, <1>7

(* A setup dies and its lock with it. *)
LEMMA SetupCrashInv ==
  ASSUME IInv, NEW p \in Setups, SetupCrash(p)
  PROVE  IInv'
<1> USE WriterFacts, MaxFaultsAssumption
      DEF IInv, SetupCrash, LockLeft, Writing, Fault, Goto, fileVars,
          daemonVars
<1>1. AllWhole'
  BY DEF AllWhole
<1>2. TypeOK'
  BY DEF TypeOK, Writing, Ended
<1>3. LockHeld'
  BY DEF LockHeld, Holding, TypeOK
<1>4. Staged'
  BY DEF Staged, LockHeld, Holding, TypeOK
<1>5. Kept'
  BY DEF Kept, Reported, TypeOK
<1>6. Unseen'
  BY DEF Unseen, TypeOK
<1>7. Refused'
  BY DEF Refused, TypeOK
<1> QED
  BY <1>1, <1>2, <1>3, <1>4, <1>5, <1>6, <1>7

(* A power loss leaves one of two whole bundles, and no writer. *)
LEMMA PowerLossInv ==
  ASSUME IInv, PowerLoss
  PROVE  IInv'
<1> USE WriterFacts, MaxFaultsAssumption
      DEF IInv, PowerLoss, Writing, Fault, fileVars, daemonVars
<1>w. Whole(file) /\ Whole(durable) /\ Whole(loaded)
  BY DEF AllWhole
<1>f. /\ file \in BundleType /\ file.gen \in Setups \cup {0}
      /\ loaded.gen \in Setups \cup {0} /\ loaded.grant = loaded.gen
  BY <1>w, WholeFacts
<1>g. PICK b \in {file, durable} : file' = b /\ durable' = b
  BY <1>w, WholeFacts
<1>1. AllWhole'
  BY <1>w, <1>g DEF AllWhole
<1>2. TypeOK'
  <2>1. pc' \in [Writers -> {"start", "saved"} \cup Writing \cup Ended]
    BY DEF TypeOK, Ended
  <2>2. file' \in BundleType /\ durable' \in BundleType
    BY <1>g DEF TypeOK
  <2>3. faults' \in 0..MaxFaults
    BY DEF TypeOK
  <2> QED
    BY <2>1, <2>2, <2>3 DEF TypeOK
<1>3. LockHeld'
  BY DEF LockHeld, Holding, TypeOK
<1>4. Staged'
  BY DEF Staged, LockHeld, Holding, TypeOK
<1>5. Kept'
  BY <1>g DEF Kept, Reported, TypeOK
<1>6. Unseen'
  BY <1>g DEF Unseen, TypeOK
<1>7. Refused'
  BY DEF Refused, TypeOK
<1> QED
  BY <1>1, <1>2, <1>3, <1>4, <1>5, <1>6, <1>7

(* Every step keeps IInv. *)
LEMMA NextInv == IInv /\ [Next]_vars => IInv'
<1> SUFFICES ASSUME IInv, [Next]_vars PROVE IInv'
  OBVIOUS
<1>1. ASSUME NEW w \in Writers, Write(w) PROVE IInv'
  BY <1>1, AcquireInv, RenameInv, SyncInv, UnlockInv, WriteFailsInv DEF Write
<1>2. ASSUME NEW p \in Setups, SetupStep(p) PROVE IInv'
  BY <1>1, <1>2, WriterFacts, PrepareInv, WriteSetupInv, RestartInv DEF SetupStep
<1>3. ASSUME DaemonStep PROVE IInv'
  BY <1>1, <1>3, WriterFacts, StartInv, PollInv, WriteTokenInv, RefuseTokenInv,
     RecordPollInv DEF DaemonStep
<1>4. ASSUME World PROVE IInv'
  BY <1>4, RevokeInv, SetupCrashInv, DaemonCrashInv, PowerLossInv DEF World
<1>5. CASE UNCHANGED vars
  <2>1. AllWhole' /\ LockHeld' /\ Staged'
    BY <1>5 DEF IInv, AllWhole, LockHeld, Staged, vars, fileVars, daemonVars
  <2>2. TypeOK' /\ Kept' /\ Unseen' /\ Refused'
    BY <1>5 DEF IInv, TypeOK, Kept, Unseen, Refused, vars, fileVars, daemonVars
  <2> QED
    BY <2>1, <2>2 DEF IInv
<1> QED
  BY <1>2, <1>3, <1>4, <1>5 DEF Next

(* The invariant holds in every reachable state. *)
LEMMA Invariant == Spec => []IInv
  BY InitInv, NextInv, PTL DEF Spec

-----------------------------------------------------------------------------
(* The state of the authorization store keeps its type, for any number of    *)
(* setups and faults.                                                        *)
THEOREM TypeCorrect == Spec => []TypeOK
<1>1. IInv => TypeOK
  BY DEF IInv
<1> QED
  BY <1>1, Invariant, PTL

(* A token is stored only with the generation it was granted for: a daemon   *)
(* that loaded an older bundle never writes its token into a later setup's   *)
(* (UpdateToken), on disk or after a power loss.                             *)
THEOREM TokensStayWithTheirSetup == Spec => []TokensBelong
<1>1. IInv => TokensBelong
  BY WholeFacts DEF IInv, AllWhole, TokensBelong
<1> QED
  BY <1>1, Invariant, PTL

(* atomicWrite leaves the old bundle or the new one, never part of one.      *)
THEOREM NoPartialBundle == Spec => []NeverPartial
<1>1. IInv => NeverPartial
  BY WholeFacts DEF IInv, AllWhole, NeverPartial
<1> QED
  BY <1>1, Invariant, PTL

(* A setup that SaveAuthorization has reported as saved survives everything  *)
(* but a later setup: refreshes, failed setups, crashes and power losses.    *)
THEOREM SavedSetupIsKept == Spec => []SetupNeverLost
<1>1. IInv => SetupNeverLost
  BY DEF IInv, Kept, SetupNeverLost
<1> QED
  BY <1>1, Invariant, PTL

(* A setup that ends with "Existing authorization was preserved"             *)
(* (setupWriteError), or before it wrote, has left no trace on disk.         *)
THEOREM PreservedMeansUntouched == Spec => []PreservedIsPreserved
<1>1. IInv => PreservedIsPreserved
  BY DEF IInv, Unseen, PreservedIsPreserved
<1> QED
  BY <1>1, Invariant, PTL

(* An account is left out for authorization only when Google has refused the *)
(* grant of the bundle on disk (Classify), never for an older setup's.       *)
THEOREM DisabledMeansRefused == Spec => []OnlyRefusedIsDisabled
<1>1. ASSUME IInv PROVE OnlyRefusedIsDisabled
  <2>1. file # Torn
    BY <1>1, WholeFacts DEF IInv, AllWhole
  <2>2. SUFFICES ASSUME Classify(file, health) = "auth-required"
                 PROVE  file.gen \in revoked
    BY DEF OnlyRefusedIsDisabled
  <2>3. health.needsAuth /\ health.gen = file.gen
    BY <2>1, <2>2 DEF Classify
  <2> QED
    BY <1>1, <2>3 DEF IInv, Refused
<1> QED
  BY <1>1, Invariant, PTL

=============================================================================
