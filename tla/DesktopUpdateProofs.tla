------------------------- MODULE DesktopUpdateProofs -------------------------
(***************************************************************************)
(* Proofs about DesktopUpdate: its type invariant, that helpers install    *)
(* one at a time while nobody runs from the installation, that pruning     *)
(* never takes a helper's files, and that only an installer which has      *)
(* outlived its helper brings an older version back; for any number of     *)
(* terminals and commands that update beside the Desktop, any number of    *)
(* releases and any bound MaxBusy.                                         *)
(***************************************************************************)
EXTENDS DesktopUpdate, FiniteSetTheorems, TLAPS

(* One helper holds the installation lock exclusively... *)
OneInstalls == \A o, p \in Exclusive : o = p

(* ...and then nobody shares it. *)
NobodyShares == Exclusive # {} => Shared = {}

(* What an orphan installs has been accepted.  The release that a helper    *)
(* installs has been, and is older neither than the files it replaces nor   *)
(* than what an orphan may put in their place meanwhile.                    *)
Ahead ==
    /\ \A r \in orphans : r <= accepted
    /\ \A o \in Owners : pc[o] = "installing" =>
          /\ installed <= rel[o] /\ rel[o] <= accepted
          /\ \A r \in orphans : r <= rel[o]

(* The part of the invariant about the native updater. *)
NInv ==
    /\ NativeTypeOK /\ OneInstalls /\ NobodyShares
    /\ PayloadStays /\ Ahead

IInv == NInv /\ TypeOK

-----------------------------------------------------------------------------
(* The native updater keeps its part of the invariant.                     *)

(* A process that moves without taking the installation lock, and without  *)
(* starting from the installed files, leaves the lock as it is or frees it. *)
LEMMA LockStands ==
    ASSUME NativeTypeOK, OneInstalls, NobodyShares, NEW o \in Owners,
           NEW to \in {"idle", "checked", "preparing", "prepared"} \cup HelperPCs,
           to \notin {"exclusive", "installing"},
           pc[o] \in {"idle"} \cup HelperPCs => to \in {"idle"} \cup HelperPCs,
           pc' = [pc EXCEPT ![o] = to], session' = session
    PROVE  OneInstalls' /\ NobodyShares'
  <1>1. Exclusive' \subseteq Exclusive
    BY DEF Exclusive, NativeTypeOK
  <1>2. Shared' \subseteq Shared
    BY DEF Shared, NativeTypeOK, HelperPCs
  <1> QED  BY <1>1, <1>2 DEF OneInstalls, NobodyShares

(* A staging directory grows old. *)
LEMMA ExpireKeeps ==
    ASSUME NInv, NEW o \in Owners, Expire(o)
    PROVE  NInv'
  <1> USE UpdateAssumption DEF NInv, Expire, Goes, Exits, job, installation,
          Versions, Exclusive, Shared, HelperPCs
  <1>1. NativeTypeOK'
    BY DEF NativeTypeOK
  <1> QED  BY <1>1 DEF OneInstalls, NobodyShares, PayloadStays, Ahead

(* A process starts, prunes and fetches; a terminal only when nobody       *)
(* installs.                                                               *)
LEMMA FetchKeeps ==
    ASSUME NInv, NEW o \in Owners, Fetch(o)
    PROVE  NInv'
  <1> USE UpdateAssumption DEF NInv, Fetch, Prunable, Pruned, StillOld,
          HoldsStaging, Goes, Exits, job, installation, Versions, Exclusive,
          Shared, HelperPCs
  <1>1. NativeTypeOK'
    BY DEF NativeTypeOK
  <1>2. OneInstalls'
    BY DEF OneInstalls, NativeTypeOK
  <1>3. NobodyShares'
    BY DEF NobodyShares, NativeTypeOK
  <1>4. PayloadStays'
    BY DEF PayloadStays, NativeTypeOK
  <1>5. Ahead'
    BY DEF Ahead, NativeTypeOK, OneInstalls
  <1> QED  BY <1>1, <1>2, <1>3, <1>4, <1>5

(* A release is accepted, or the process ends. *)
LEMMA AcceptKeeps ==
    ASSUME NInv, NEW o \in Owners, NEW onward \in BOOLEAN, Accept(o, onward)
    PROVE  NInv'
  <1> USE UpdateAssumption DEF NInv, Accept, Accepts, Goes, Exits, job,
          installation, Versions, Exclusive, Shared, HelperPCs
  <1>1. NativeTypeOK'
    BY DEF NativeTypeOK
  <1>2. OneInstalls' /\ NobodyShares'
    <2>1. \E to \in {"checked", "idle"} : pc' = [pc EXCEPT ![o] = to]
      OBVIOUS
    <2> QED  BY <2>1, LockStands
  <1>3. PayloadStays'
    BY DEF PayloadStays, NativeTypeOK
  <1>4. Ahead'
    BY DEF Ahead, NativeTypeOK, OneInstalls
  <1> QED  BY <1>1, <1>2, <1>3, <1>4

(* A staging directory is made, and others are pruned. *)
LEMMA StageKeeps ==
    ASSUME NInv, NEW o \in Owners, Stage(o)
    PROVE  NInv'
  <1> USE UpdateAssumption DEF NInv, Stage, Prunable, Pruned, StillOld,
          HoldsStaging, Goes, Exits, job, installation, Versions, Exclusive,
          Shared, HelperPCs
  <1>1. NativeTypeOK'
    BY DEF NativeTypeOK
  <1>2. OneInstalls' /\ NobodyShares'
    BY LockStands
  <1>3. PayloadStays'
    BY DEF PayloadStays, NativeTypeOK
  <1>4. Ahead'
    BY DEF Ahead, NativeTypeOK, OneInstalls
  <1> QED  BY <1>1, <1>2, <1>3, <1>4

(* The payload is complete. *)
LEMMA StagedKeeps ==
    ASSUME NInv, NEW o \in Owners, Staged(o)
    PROVE  NInv'
  <1> USE UpdateAssumption DEF NInv, Staged, Goes, Exits, job, installation,
          Versions, Exclusive, Shared, HelperPCs
  <1>1. NativeTypeOK'
    BY DEF NativeTypeOK
  <1>2. OneInstalls' /\ NobodyShares'
    BY LockStands
  <1>3. PayloadStays'
    BY DEF PayloadStays, NativeTypeOK
  <1>4. Ahead'
    BY DEF Ahead, NativeTypeOK, OneInstalls
  <1> QED  BY <1>1, <1>2, <1>3, <1>4

(* The payload is dropped. *)
LEMMA StageFailsKeeps ==
    ASSUME NInv, NEW o \in Owners, StageFails(o)
    PROVE  NInv'
  <1> USE UpdateAssumption DEF NInv, StageFails, Goes, Exits, job,
          installation, Versions, Exclusive, Shared, HelperPCs
  <1>1. NativeTypeOK'
    BY DEF NativeTypeOK
  <1>2. OneInstalls' /\ NobodyShares'
    BY LockStands
  <1>3. PayloadStays'
    BY DEF PayloadStays, NativeTypeOK
  <1>4. Ahead'
    BY DEF Ahead, NativeTypeOK, OneInstalls
  <1> QED  BY <1>1, <1>2, <1>3, <1>4

(* The job is read before the helper has the installation lock. *)
LEMMA ReadJobKeeps ==
    ASSUME NInv, NEW o \in Owners, NEW v \in Versions, NEW next \in {"helper", "read"},
           pc[o] \in {"prepared", "helper"}, ReadJob(o, v, next)
    PROVE  NInv'
  <1> USE UpdateAssumption DEF NInv, ReadJob, Remembered, Accepts, Goes, Exits,
          job, installation, Versions, Exclusive, Shared, HelperPCs
  <1>1. NativeTypeOK'
    BY DEF NativeTypeOK
  <1>2. OneInstalls' /\ NobodyShares'
    <2>1. \E to \in {"helper", "read", "idle"} : pc' = [pc EXCEPT ![o] = to]
      OBVIOUS
    <2> QED  BY <2>1, LockStands
  <1>3. PayloadStays'
    BY DEF PayloadStays, NativeTypeOK
  <1>4. Ahead'
    BY DEF Ahead, NativeTypeOK, OneInstalls
  <1> QED  BY <1>1, <1>2, <1>3, <1>4

(* The helper locks its staging directory, or ends without one. *)
LEMMA HelperLocksKeeps ==
    ASSUME NInv, NEW o \in Owners, HelperLocks(o)
    PROVE  NInv'
  <1> USE UpdateAssumption DEF NInv, HelperLocks, Goes, Exits, job,
          installation, Versions, Exclusive, Shared, HelperPCs
  <1>1. NativeTypeOK'
    BY DEF NativeTypeOK
  <1>2. OneInstalls' /\ NobodyShares'
    <2>1. \E to \in {"locked", "idle"} : pc' = [pc EXCEPT ![o] = to]
      OBVIOUS
    <2> QED  BY <2>1, LockStands
  <1>3. PayloadStays'
    BY DEF PayloadStays, NativeTypeOK
  <1>4. Ahead'
    BY DEF Ahead, NativeTypeOK, OneInstalls
  <1> QED  BY <1>1, <1>2, <1>3, <1>4

(* The parent has left: the job is read again before the wait. *)
LEMMA ParentGoneKeeps ==
    ASSUME NInv, NEW o \in Owners, ParentGone(o)
    PROVE  NInv'
  <1> USE UpdateAssumption DEF NInv, ParentGone, Remembered, Accepts, Goes,
          Exits, job, installation, Versions, Exclusive, Shared, HelperPCs
  <1>1. NativeTypeOK'
    BY DEF NativeTypeOK
  <1>2. OneInstalls' /\ NobodyShares'
    <2>1. \E to \in {"waiting", "ended"} : pc' = [pc EXCEPT ![o] = to]
      OBVIOUS
    <2> QED  BY <2>1, LockStands
  <1>3. PayloadStays'
    BY DEF PayloadStays, NativeTypeOK
  <1>4. Ahead'
    BY DEF Ahead, NativeTypeOK, OneInstalls
  <1> QED  BY <1>1, <1>2, <1>3, <1>4

(* The parent did not leave. *)
LEMMA ParentTimeoutKeeps ==
    ASSUME NInv, NEW o \in Owners, ParentTimeout(o)
    PROVE  NInv'
  <1> USE UpdateAssumption DEF NInv, ParentTimeout, Goes, Exits, job,
          installation, Versions, Exclusive, Shared, HelperPCs
  <1>1. NativeTypeOK'
    BY DEF NativeTypeOK
  <1>2. OneInstalls' /\ NobodyShares'
    BY LockStands
  <1>3. PayloadStays'
    BY DEF PayloadStays, NativeTypeOK
  <1>4. Ahead'
    BY DEF Ahead, NativeTypeOK, OneInstalls
  <1> QED  BY <1>1, <1>2, <1>3, <1>4

(* The lock is taken when nobody shares it. *)
LEMMA TakeExclusiveKeeps ==
    ASSUME NInv, NEW o \in Owners, TakeExclusive(o)
    PROVE  NInv'
  <1> USE UpdateAssumption DEF NInv, TakeExclusive, Goes, Exits, job,
          installation, Versions, Exclusive, Shared, HelperPCs
  <1>1. NativeTypeOK'
    BY DEF NativeTypeOK
  <1>2. OneInstalls'
    BY DEF OneInstalls, NativeTypeOK
  <1>3. NobodyShares'
    BY DEF NobodyShares, NativeTypeOK
  <1>4. PayloadStays'
    BY DEF PayloadStays, NativeTypeOK
  <1>5. Ahead'
    BY DEF Ahead, NativeTypeOK, OneInstalls
  <1> QED  BY <1>1, <1>2, <1>3, <1>4, <1>5

(* Somebody did not leave. *)
LEMMA ExclusiveTimeoutKeeps ==
    ASSUME NInv, NEW o \in Owners, ExclusiveTimeout(o)
    PROVE  NInv'
  <1> USE UpdateAssumption DEF NInv, ExclusiveTimeout, Goes, Exits, job,
          installation, Versions, Exclusive, Shared, HelperPCs
  <1>1. NativeTypeOK'
    BY DEF NativeTypeOK
  <1>2. OneInstalls' /\ NobodyShares'
    BY LockStands
  <1>3. PayloadStays'
    BY DEF PayloadStays, NativeTypeOK
  <1>4. Ahead'
    BY DEF Ahead, NativeTypeOK, OneInstalls
  <1> QED  BY <1>1, <1>2, <1>3, <1>4

(* Under the lock, the job and the installed version decide. *)
LEMMA RecheckKeeps ==
    ASSUME NInv, NEW o \in Owners, Recheck(o)
    PROVE  NInv'
  <1> USE UpdateAssumption DEF NInv, Recheck, Remembered, Accepts, JobIsValid,
          MayInstall, Goes, Exits, job, installation, Versions, Exclusive,
          Shared, HelperPCs
  <1>1. NativeTypeOK'
    BY DEF NativeTypeOK
  <1>2. OneInstalls'
    BY DEF OneInstalls, NativeTypeOK
  <1>3. NobodyShares'
    BY DEF NobodyShares, NativeTypeOK
  <1>4. PayloadStays'
    BY DEF PayloadStays, NativeTypeOK
  <1>5. Ahead'
    BY DEF Ahead, NativeTypeOK, OneInstalls
  <1> QED  BY <1>1, <1>2, <1>3, <1>4, <1>5

(* The installation becomes the release, which is newer. *)
LEMMA InstallsKeeps ==
    ASSUME NInv, NEW o \in Owners, Installs(o)
    PROVE  NInv'
  <1> USE UpdateAssumption DEF NInv, Installs, Goes, Exits, job, installation,
          Versions, Exclusive, Shared, HelperPCs
  <1>1. NativeTypeOK'
    BY DEF NativeTypeOK
  <1>2. OneInstalls' /\ NobodyShares'
    BY LockStands
  <1>3. PayloadStays'
    BY DEF PayloadStays, NativeTypeOK
  <1>4. Ahead'
    BY DEF Ahead, NativeTypeOK, OneInstalls
  <1> QED  BY <1>1, <1>2, <1>3, <1>4

(* A failed installer leaves the old or the new version. *)
LEMMA InstallFailsKeeps ==
    ASSUME NInv, NEW o \in Owners, InstallFails(o)
    PROVE  NInv'
  <1> USE UpdateAssumption DEF NInv, InstallFails, Partly, Goes, Exits, job,
          installation, Versions, Exclusive, Shared, HelperPCs
  <1>1. NativeTypeOK'
    BY DEF NativeTypeOK
  <1>2. OneInstalls' /\ NobodyShares'
    BY LockStands
  <1>3. PayloadStays'
    BY DEF PayloadStays, NativeTypeOK
  <1>4. Ahead'
    BY DEF Ahead, NativeTypeOK, OneInstalls
  <1> QED  BY <1>1, <1>2, <1>3, <1>4

(* The outcome is recorded and the staging directory emptied. *)
LEMMA FinishKeeps ==
    ASSUME NInv, NEW o \in Owners, NEW recorded \in BOOLEAN, Finish(o, recorded)
    PROVE  NInv'
  <1> USE UpdateAssumption DEF NInv, Finish, Goes, Exits, job, installation,
          Versions, Exclusive, Shared, HelperPCs
  <1>1. NativeTypeOK'
    BY DEF NativeTypeOK
  <1>2. OneInstalls' /\ NobodyShares'
    <2>1. \E to \in {"recorded", "idle"} : pc' = [pc EXCEPT ![o] = to]
      OBVIOUS
    <2> QED  BY <2>1, LockStands
  <1>3. PayloadStays'
    BY DEF PayloadStays, NativeTypeOK
  <1>4. Ahead'
    BY DEF Ahead, NativeTypeOK, OneInstalls
  <1> QED  BY <1>1, <1>2, <1>3, <1>4

(* The helper ends and starts the frontend, or fails to. *)
LEMMA RelaunchKeeps ==
    ASSUME NInv, NEW o \in Owners, NEW started \in BOOLEAN, Relaunch(o, started)
    PROVE  NInv'
  <1> USE UpdateAssumption DEF NInv, Relaunch, Goes, Exits, job, installation,
          Versions, Exclusive, Shared, HelperPCs
  <1>1. NativeTypeOK'
    BY DEF NativeTypeOK
  <1>2. OneInstalls' /\ NobodyShares'
    BY LockStands
  <1>3. PayloadStays'
    BY DEF PayloadStays, NativeTypeOK
  <1>4. Ahead'
    BY DEF Ahead, NativeTypeOK, OneInstalls
  <1> QED  BY <1>1, <1>2, <1>3, <1>4

(* A process dies; an installer that it had started ends or goes on.       *)
LEMMA DiesKeeps ==
    ASSUME NInv, NEW o \in Owners, Dies(o)
    PROVE  NInv'
  <1> USE DEF NInv, Dies, Exits, Versions
  <1>1. /\ pc' \in [Owners -> {"idle", "fetched", "checked", "preparing", "prepared"}
                              \cup HelperPCs]
        /\ bin' \in [Owners -> Versions] /\ rel' \in [Owners -> Versions]
    BY UpdateAssumption DEF NativeTypeOK
  <1>2. installed' \in Versions /\ whole' \in BOOLEAN /\ orphans' \subseteq Versions
    BY DEF NativeTypeOK, Partly, installation
  <1>3. NativeTypeOK'
    BY <1>1, <1>2 DEF NativeTypeOK
  <1>4. OneInstalls' /\ NobodyShares'
    BY LockStands
  <1>5. PayloadStays'
    BY DEF PayloadStays, NativeTypeOK
  <1>6. Ahead'
    <2>1. \A p \in Owners : pc'[p] = "installing" =>
              p # o /\ pc[p] = "installing" /\ rel'[p] = rel[p]
      BY DEF NativeTypeOK
    <2>2. CASE pc[o] # "installing"
      BY <2>1, <2>2 DEF Ahead, installation
    <2>3. CASE pc[o] = "installing"
      <3>1. \A p \in Owners : pc'[p] # "installing"
        BY <2>1, <2>3 DEF OneInstalls, Exclusive
      <3>2. orphans' \subseteq orphans \cup {rel[o]}
        BY <2>3
      <3> QED  BY <2>3, <3>1, <3>2 DEF Ahead
    <2> QED  BY <2>2, <2>3
  <1> QED  BY <1>3, <1>4, <1>5, <1>6

(* An orphan changes the installed files, and no lock.                     *)
LEMMA OrphanKeeps ==
    ASSUME NInv, NEW r \in orphans, OrphanWorks(r)
    PROVE  NInv'
  <1> USE DEF NInv, OrphanWorks, Partly, job, Versions, NativeTypeOK
  <1>1. NativeTypeOK'
    OBVIOUS
  <1>2. OneInstalls' /\ NobodyShares' /\ PayloadStays'
    BY DEF OneInstalls, NobodyShares, PayloadStays, Exclusive, Shared
  <1>3. Ahead'
    BY DEF Ahead
  <1> QED  BY <1>1, <1>2, <1>3

(* A process ends, and other sessions may end with it. *)
LEMMA ExitsKeeps ==
    ASSUME NInv, NEW o \in Owners, Exits(o), \A s \in Sessions : session'[s] \in {session[s], "off"},
           session' \in [Sessions -> {"off", "leased"}],
           UNCHANGED <<installation, accepted, dir, old>>
    PROVE  NInv'
  <1> USE UpdateAssumption DEF NInv, Goes, Exits, job, installation, Versions,
          Exclusive, Shared, HelperPCs
  <1>1. NativeTypeOK'
    BY DEF NativeTypeOK
  <1>2. OneInstalls'
    BY DEF OneInstalls, NativeTypeOK
  <1>3. NobodyShares'
    BY DEF NobodyShares, NativeTypeOK
  <1>4. PayloadStays'
    BY DEF PayloadStays, NativeTypeOK
  <1>5. Ahead'
    BY DEF Ahead, NativeTypeOK, OneInstalls
  <1> QED  BY <1>1, <1>2, <1>3, <1>4, <1>5

(* A session starts when nobody installs. *)
LEMMA StartSessionKeeps ==
    ASSUME NInv, NEW s \in Sessions, StartSession(s), UNCHANGED unsharedVars
    PROVE  NInv'
  <1> USE UpdateAssumption DEF NInv, StartSession, LeaseFree, unsharedVars,
          Goes, Exits, job, installation, Versions, Exclusive, Shared,
          HelperPCs
  <1>1. NativeTypeOK'
    BY DEF NativeTypeOK
  <1>2. NobodyShares'
    BY DEF NobodyShares, NativeTypeOK
  <1> QED  BY <1>1, <1>2 DEF OneInstalls, PayloadStays, Ahead

(* Sessions end. *)
LEMMA SessionsKeeps ==
    ASSUME NInv, \A s \in Sessions : session'[s] \in {session[s], "off"},
           session' \in [Sessions -> {"off", "leased"}], UNCHANGED unsharedVars
    PROVE  NInv'
  <1> USE UpdateAssumption DEF NInv, unsharedVars, Goes, Exits, job,
          installation, Versions, Exclusive, Shared, HelperPCs
  <1>1. NativeTypeOK'
    BY DEF NativeTypeOK
  <1>2. NobodyShares'
    BY DEF NobodyShares, NativeTypeOK
  <1> QED  BY <1>1, <1>2 DEF OneInstalls, PayloadStays, Ahead

(* What the native updater does not see leaves its part alone. *)
LEMMA NativeStutters ==
    ASSUME NInv, UNCHANGED nativeVars
    PROVE  NInv'
  BY DEF NInv, nativeVars, NativeTypeOK, OneInstalls, NobodyShares,
         PayloadStays, Ahead, Exclusive, Shared

-----------------------------------------------------------------------------
(* The Desktop and the processes of the terminal keep the invariant.       *)

(* Every step of a job's helper. *)
LEMMA HelperStepKeeps ==
    ASSUME NInv, NEW o \in Owners, HelperStep(o)
    PROVE  NInv'
  <1>1. bin[o] \in Versions
    BY DEF NInv, NativeTypeOK
  <1> QED
    BY <1>1, ReadJobKeeps, HelperLocksKeeps, TakeExclusiveKeeps, ExclusiveTimeoutKeeps,
       RecheckKeeps, InstallsKeeps, InstallFailsKeeps
    DEF HelperStep, HelperReads

(* Every step of a terminal's or a command's update. *)
LEMMA CLIKeeps ==
    ASSUME NInv, NEW o \in CLIs, CLISteps(o)
    PROVE  NInv'
  <1>1. o \in Owners
    BY DEF CLIs, Owners
  <1>2. bin[o] \in Versions
    BY <1>1 DEF NInv, NativeTypeOK
  <1>3. CASE HandOff(o, bin[o])
    BY <1>1, <1>2, <1>3, ReadJobKeeps DEF HandOff
  <1> QED
    BY <1>1, <1>3, FetchKeeps, AcceptKeeps, StageKeeps, StagedKeeps, StageFailsKeeps,
       HelperStepKeeps, ParentGoneKeeps, FinishKeeps, RelaunchKeeps, DiesKeeps
    DEF CLISteps

(* The process that the Desktop runs to check and to prepare. *)
LEMMA RunStepsKeeps ==
    ASSUME NInv, RunSteps
    PROVE  NInv'
  <1>1. Desktop \in Owners /\ (phase = "preparing") \in BOOLEAN
    BY DEF Owners
  <1> QED
    BY <1>1, AcceptKeeps, StageKeeps, StagedKeeps, StageFailsKeeps, DiesKeeps DEF RunSteps

(* The Desktop's job ends: cancelled, refused or without its flush. *)
LEMMA JobEndsKeeps ==
    ASSUME NInv, FlushFails \/ NotAcknowledged \/ Cancel
    PROVE  NInv'
  <1>1. Desktop \in Owners /\ session \in [Sessions -> {"off", "leased"}]
    BY DEF Owners, NInv, NativeTypeOK
  <1> QED  BY <1>1, ExitsKeeps DEF FlushFails, NotAcknowledged, Cancel

(* The Desktop quits, with or without a helper that goes on. *)
LEMMA QuitKeeps ==
    ASSUME NInv, Restart \/ UserQuits
    PROVE  NInv'
  <1>1. Desktop \in Owners
    BY DEF Owners
  <1>2. /\ \A s \in Sessions : session'[s] \in {session[s], "off"}
        /\ session' \in [Sessions -> {"off", "leased"}]
    BY DEF Restart, UserQuits, Leave, NInv, NativeTypeOK, Sessions
  <1>3. CASE UNCHANGED unsharedVars
    BY <1>2, <1>3, SessionsKeeps
  <1>4. CASE UserQuits /\ Exits(Desktop)
    BY <1>1, <1>2, <1>4, ExitsKeeps DEF UserQuits
  <1> QED  BY <1>3, <1>4 DEF Restart, UserQuits, unsharedVars

(* Sessions start when nobody installs, and end at any time. *)
LEMMA SessionsKeepLock ==
    ASSUME NInv, StartProxy \/ StopProxy \/ StartSidecar \/ SidecarDies
    PROVE  NInv'
  <1>1. CASE StartProxy \/ StartSidecar
    BY <1>1, StartSessionKeeps DEF StartProxy, StartSidecar, Sessions
  <1>2. CASE StopProxy \/ SidecarDies
    <2>1. /\ \A s \in Sessions : session'[s] \in {session[s], "off"}
          /\ session' \in [Sessions -> {"off", "leased"}]
      BY <1>2 DEF StopProxy, SidecarDies, EndSession, NInv, NativeTypeOK, Sessions
    <2> QED  BY <1>2, <2>1, SessionsKeeps DEF StopProxy, SidecarDies
  <1> QED  BY <1>1, <1>2

(* The helper of the Desktop's job: it waits, installs, records, relaunches *)
(* and may give up or die at any of these.                                  *)
LEMMA DesktopHelperKeeps ==
    ASSUME NInv, DesktopHelper \/ DesktopRelaunched \/ HelperGivesUp \/ HelperDies
    PROVE  NInv'
  <1>1. Desktop \in Owners
    BY DEF Owners
  <1> QED
    BY <1>1, HelperStepKeeps, ParentGoneKeeps, ParentTimeoutKeeps, FinishKeeps,
       RelaunchKeeps, DiesKeeps
    DEF DesktopHelper, DesktopRelaunched, HelperGivesUp, HelperDies

(* Every step keeps the native updater's part. *)
LEMMA NextNInv == NInv /\ [Next]_vars => NInv'
  <1> SUFFICES ASSUME NInv, [Next]_vars PROVE NInv'
    OBVIOUS
  <1>1. Desktop \in Owners /\ (NInv => installed \in Versions)
    BY DEF Owners, NInv, NativeTypeOK
  <1>2. CASE UNCHANGED nativeVars
    BY <1>2, NativeStutters
  <1>3. CASE (\E o \in Owners : Expire(o)) \/ \E r \in orphans : OrphanWorks(r)
    BY <1>3, ExpireKeeps, OrphanKeeps
  <1>4. CASE \E install \in BOOLEAN : Perform(install)
    BY <1>1, <1>4, FetchKeeps DEF Perform
  <1>5. CASE StartJob
    BY <1>1, <1>5, ReadJobKeeps DEF StartJob, HandOff
  <1>6. CASE \/ AskPrompt \/ PromptRuns \/ RegenerateImage \/ WorkEnds \/ RunEnds
             \/ BeginInstalling \/ Flushed \/ Acknowledged \/ StartJobDies \/ UserStarts
    BY <1>2, <1>6
    DEF AskPrompt, PromptRuns, RegenerateImage, WorkEnds, RunEnds, BeginInstalling,
        Flushed, Acknowledged, StartJobDies, UserStarts
  <1>7. CASE UNCHANGED vars
    BY <1>2, <1>7 DEF vars
  <1> QED
    BY <1>3, <1>4, <1>5, <1>6, <1>7, CLIKeeps, RunStepsKeeps, JobEndsKeeps, QuitKeeps,
       SessionsKeepLock, DesktopHelperKeeps
    DEF Next

(* Every step keeps the types of the application's own variables. *)
LEMMA NextTypeOK == TypeOK /\ NativeTypeOK' /\ [Next]_vars => TypeOK'
  <1> USE DEF TypeOK, appVars
  <1> SUFFICES ASSUME TypeOK, NativeTypeOK', [Next]_vars PROVE TypeOK'
    OBVIOUS
  <1>1. CASE \/ AskPrompt \/ PromptRuns \/ RegenerateImage \/ WorkEnds \/ StartProxy
             \/ StopProxy \/ StartSidecar \/ SidecarDies
    BY <1>1 DEF AskPrompt, PromptRuns, RegenerateImage, WorkEnds, StartProxy, StopProxy,
       StartSidecar, SidecarDies
  <1>2. CASE \/ \E install \in BOOLEAN : Perform(install)
             \/ RunSteps \/ RunEnds \/ BeginInstalling \/ Flushed \/ FlushFails
             \/ StartJob \/ Acknowledged \/ NotAcknowledged \/ StartJobDies
    BY <1>2 DEF Perform, RunSteps, RunEnds, BeginInstalling, Flushed, FlushFails, StartJob,
       Acknowledged, NotAcknowledged, StartJobDies
  <1>3. CASE \/ Restart \/ Cancel \/ UserQuits \/ UserStarts \/ DesktopHelper
             \/ DesktopRelaunched
    BY <1>3 DEF Restart, Leave, Cancel, UserQuits, UserStarts, DesktopHelper,
       DesktopRelaunched
  <1>4. CASE HelperGivesUp \/ HelperDies
    BY <1>4 DEF HelperGivesUp, HelperDies, LosesDesktop
  <1>5. CASE \/ UNCHANGED appVars
             \/ \E o \in CLIs : CLISteps(o)
    BY <1>5 DEF CLISteps
  <1> QED  BY <1>1, <1>2, <1>3, <1>4, <1>5 DEF Next, vars

(* The initial state satisfies the invariant. *)
LEMMA InitIInv == Init => IInv
  <1> SUFFICES ASSUME Init PROVE IInv
    OBVIOUS
  <1>1. NativeTypeOK
    BY UpdateAssumption DEF Init, NativeInit, NativeTypeOK, Versions
  <1>2. TypeOK
    BY <1>1 DEF Init, TypeOK
  <1> QED
    BY <1>1, <1>2 DEF Init, NativeInit, IInv, NInv, OneInstalls,
       NobodyShares, PayloadStays, Ahead, Exclusive

(* The inductive invariant holds in every reachable state. *)
LEMMA SpecIInv == Spec => []IInv
  <1>1. IInv /\ [Next]_vars => IInv'
    BY NextNInv, NextTypeOK DEF IInv, NInv
  <1> QED  BY <1>1, InitIInv, PTL DEF Spec

-----------------------------------------------------------------------------
(* Results. *)

(* While a helper has the installation lock no CLI, ACP or proxy process    *)
(* runs and no other helper has it (exclusive, lease), for any number of    *)
(* updaters; an installer that has outlived its helper has no lock.         *)
THEOREM InstallingHelperIsAlone == Spec => []HelperIsAlone
  <1>1. IInv => HelperIsAlone
    <2> SUFFICES ASSUME IInv, Exclusive # {}
                 PROVE  Shared = {} /\ Cardinality(Exclusive) = 1
      BY DEF IInv, HelperIsAlone
    <2>1. PICK o \in Exclusive : TRUE
      OBVIOUS
    <2>2. Exclusive = {o}
      BY <2>1 DEF IInv, NInv, OneInstalls
    <2> QED  BY <2>2, FS_Singleton DEF IInv, NInv, NobodyShares
  <1> QED  BY <1>1, SpecIInv, PTL

(* As long as its helper lives, pruning never takes away the files that an  *)
(* installer works on (staging::lock, prune), however many processes prune. *)
THEOREM PayloadIsKept == Spec => []PayloadStays
  BY SpecIInv, PTL DEF IInv, NInv

(* What one step may do to the versions. *)
Upgrade ==
    /\ accepted' >= accepted
    /\ installed' < installed => installed' \in orphans
    /\ \A o \in Owners : pc'[o] = "installing" =>
          IF pc[o] = "installing" THEN installed' \in {installed} \cup orphans
                                  ELSE rel[o] > installed

(* A step that leaves the native updater alone changes no version. *)
LEMMA StutterUpgrades ==
    ASSUME NInv, UNCHANGED <<installed, accepted>>, UNCHANGED pc
    PROVE  Upgrade
  BY DEF Upgrade, NInv, NativeTypeOK, Versions

(* A process that moves without reaching the installer changes no version, *)
(* and accepts no older release than the remembered one.                   *)
LEMMA MoveUpgrades ==
    ASSUME NInv, NEW o \in Owners, NEW to, to # "installing",
           pc' = [pc EXCEPT ![o] = to], installed' = installed,
           accepted' \in {accepted, Remembered(o), IF Accepts(o) THEN rel[o] ELSE accepted}
    PROVE  Upgrade
  BY DEF Upgrade, NInv, NativeTypeOK, Remembered, Accepts, Versions

(* An orphan installs its own version, if any. *)
LEMMA OrphanUpgrades ==
    ASSUME NInv, NEW r \in orphans, OrphanWorks(r)
    PROVE  Upgrade
  BY DEF Upgrade, OrphanWorks, Partly, NInv, NativeTypeOK, Versions

(* The steps of any job, helper or not, that are not the Desktop's alone. *)
LEMMA JobUpgrades ==
    ASSUME NInv, NEW o \in Owners, NEW onward, NEW v,
           \/ Fetch(o) \/ Accept(o, onward) \/ Stage(o) \/ Staged(o) \/ StageFails(o)
           \/ HandOff(o, v) \/ HelperStep(o) \/ ParentGone(o) \/ ParentTimeout(o)
           \/ (\E recorded \in BOOLEAN : Finish(o, recorded))
           \/ (\E started \in BOOLEAN : Relaunch(o, started)) \/ Dies(o)
    PROVE  Upgrade
  <1> USE DEF Goes, Exits, installation
  <1>1. CASE Fetch(o) \/ Accept(o, onward) \/ Stage(o) \/ Staged(o) \/ StageFails(o)
    BY <1>1, MoveUpgrades DEF Fetch, Accept, Stage, Staged, StageFails
  <1>2. CASE HandOff(o, v) \/ HelperReads(o)
    BY <1>2, MoveUpgrades DEF HandOff, HelperReads, ReadJob
  <1>3. CASE \/ HelperLocks(o) \/ ParentGone(o) \/ ParentTimeout(o) \/ TakeExclusive(o)
             \/ ExclusiveTimeout(o)
    BY <1>3, MoveUpgrades
    DEF HelperLocks, ParentGone, ParentTimeout, TakeExclusive, ExclusiveTimeout
  <1>4. CASE Recheck(o)
    BY <1>4 DEF Recheck, Upgrade, NInv, NativeTypeOK, Versions, Remembered, Accepts,
       JobIsValid, MayInstall
  <1>5. CASE \/ \E recorded \in BOOLEAN : Finish(o, recorded)
             \/ \E started \in BOOLEAN : Relaunch(o, started)
    BY <1>5, MoveUpgrades DEF Finish, Relaunch
  <1>6. CASE Installs(o) \/ InstallFails(o) \/ Dies(o)
    <2>1. pc[o] = "installing" => \A p \in Owners : pc'[p] # "installing"
      BY <1>6
      DEF Installs, InstallFails, Dies, NInv, NativeTypeOK, OneInstalls, Exclusive
    <2>2. CASE pc[o] = "installing"
      BY <1>6, <2>1, <2>2
      DEF Installs, InstallFails, Dies, Partly, Upgrade, NInv, NativeTypeOK, Versions, Ahead
    <2>3. CASE Dies(o) /\ pc[o] # "installing"
      BY <2>3, MoveUpgrades DEF Dies
    <2> QED  BY <1>6, <2>2, <2>3 DEF Installs, InstallFails
  <1> QED  BY <1>1, <1>2, <1>3, <1>4, <1>5, <1>6 DEF HelperStep

(* Every step of the system is an upgrade or leaves the version alone. *)
LEMMA NextUpgrades == NInv /\ Next => Upgrade
  <1> SUFFICES ASSUME NInv, Next PROVE Upgrade
    OBVIOUS
  <1> USE DEF installation, unsharedVars, nativeVars
  <1>1. Desktop \in Owners
    BY DEF Owners
  <1>2. CASE (\E o \in Owners : Expire(o)) \/ \E r \in orphans : OrphanWorks(r)
    BY <1>2, StutterUpgrades, OrphanUpgrades DEF Expire
  <1>3. CASE \/ AskPrompt \/ PromptRuns \/ RegenerateImage \/ WorkEnds \/ StartProxy
             \/ StopProxy \/ StartSidecar \/ SidecarDies \/ RunEnds \/ BeginInstalling
             \/ Flushed \/ Acknowledged \/ StartJobDies \/ Restart \/ UserStarts
    BY <1>3, StutterUpgrades
    DEF AskPrompt, PromptRuns, RegenerateImage, WorkEnds, StartProxy, StopProxy,
        StartSidecar, SidecarDies, RunEnds, BeginInstalling, Flushed, Acknowledged,
        StartJobDies, Restart, UserStarts
  <1>4. CASE FlushFails \/ NotAcknowledged \/ Cancel \/ UserQuits
    BY <1>1, <1>4, MoveUpgrades, StutterUpgrades
    DEF FlushFails, NotAcknowledged, Cancel, UserQuits, Exits
  <1>5. CASE \/ (\E install \in BOOLEAN : Perform(install)) \/ RunSteps \/ StartJob
             \/ DesktopHelper \/ DesktopRelaunched \/ HelperGivesUp \/ HelperDies
    BY <1>1, <1>5, JobUpgrades
    DEF Perform, RunSteps, StartJob, DesktopHelper, DesktopRelaunched, HelperGivesUp,
        HelperDies
  <1>6. CASE \E o \in CLIs : CLISteps(o)
    BY <1>6, JobUpgrades DEF CLISteps, CLIs, Owners
  <1> QED  BY <1>2, <1>3, <1>4, <1>5, <1>6 DEF Next

(* Only an installer that has outlived its helper brings an older version   *)
(* back, or changes the files under a helper that installs; no helper       *)
(* installs what is there or older, and the remembered sequence never goes  *)
(* back (accept_sequence, install_staged).                                  *)
THEOREM OlderOnlyFromOrphans == Spec => OnlyOrphansDowngrade
  <1>1. IInv /\ [Next]_vars => [Upgrade]_vars
    BY NextUpgrades DEF IInv
  <1>2. [][Upgrade]_vars <=> OnlyOrphansDowngrade
    BY DEF OnlyOrphansDowngrade, Upgrade
  <1> QED  BY <1>1, <1>2, SpecIInv, PTL DEF Spec
=============================================================================
