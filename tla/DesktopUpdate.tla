--------------------------- MODULE DesktopUpdate ---------------------------
(***************************************************************************)
(* The Desktop's update service (update-service.ts, native-updates.ts)     *)
(* above the native updater, with the chats and the proxy that the restart *)
(* has to spare.  "sidecar" and "proxy" are two of the sessions that share *)
(* the installation lock; the Electron process holds no lock itself, and   *)
(* the helper waits for its process id.                                    *)
(***************************************************************************)
EXTENDS NativeUpdate

CONSTANT
    MaxBusy   \* bound on what begins beside the Desktop's own update (Room)

ASSUME BusyAssumption == MaxBusy \in Nat

VARIABLES
    desk,     \* the Electron process
    phase,    \* where UpdateService.execute is
    work,     \* a reply or an image; "pending" is a prompt before it runs
    parent,   \* the process that started the job's helper is still there
    lost      \* history: the helper is gone and has not started the Desktop

appVars == <<desk, phase, work, parent, lost>>
vars == <<nativeVars, appVars>>

CLIs == Terminals \cup Commands

Init ==
    /\ NativeInit
    /\ desk = "running" /\ phase = "none"
    /\ work = "none" /\ parent = FALSE /\ lost = FALSE

(* A bound: a reply or an image, the proxy and a terminal's job begin while   *)
(* fewer than MaxBusy of them, and of orphans, are under way.                 *)
Room ==
    LET begun == {o \in CLIs : pc[o] # "idle"}
                 \cup ({work, session["proxy"]} \ {"none", "off"})
    IN  Cardinality(begun) + Cardinality(orphans) < MaxBusy

(* status = 'installing' *)
Installing == phase \in {"flushing", "starting", "restarting"}

-----------------------------------------------------------------------------
(* Chats and the proxy, through agentHandle. *)

Up == desk = "running" /\ session["sidecar"] = "leased"

AskPrompt ==
    /\ Up /\ Room /\ ~Installing /\ work = "none"
    /\ work' = "pending"
    /\ UNCHANGED <<nativeVars, desk, phase, parent, lost>>

(* The security preflight ends; from here on the session is running. *)
PromptRuns ==
    /\ Up /\ work = "pending"
    /\ work' = "running"
    /\ UNCHANGED <<nativeVars, desk, phase, parent, lost>>

(* "agent:image-regenerate" is not among the channels an update refuses. *)
RegenerateImage ==
    /\ Up /\ Room /\ work = "none"
    /\ work' = "running"
    /\ UNCHANGED <<nativeVars, desk, phase, parent, lost>>

WorkEnds ==
    /\ work # "none"
    /\ work' = "none"
    /\ UNCHANGED <<nativeVars, desk, phase, parent, lost>>

StartProxy ==
    /\ Up /\ Room /\ ~Installing
    /\ StartSession("proxy")
    /\ UNCHANGED <<unsharedVars, appVars>>

StopProxy ==
    /\ EndSession("proxy")
    /\ UNCHANGED <<unsharedVars, appVars>>

StartSidecar ==
    /\ desk = "running"
    /\ StartSession("sidecar")
    /\ UNCHANGED <<unsharedVars, appVars>>

SidecarDies ==
    /\ EndSession("sidecar")
    /\ work' = "none"
    /\ UNCHANGED <<unsharedVars, desk, phase, parent, lost>>

-----------------------------------------------------------------------------
(* UpdateService.execute *)

canRestart == work # "running" /\ session["proxy"] = "off"

(* perform: an operation in progress is joined. *)
Perform(install) ==
    /\ desk = "running" /\ phase = "none"
    /\ Fetch(Desktop)
    /\ phase' = IF install THEN "preparing" ELSE "checking"
    /\ parent' = FALSE
    /\ UNCHANGED <<desk, work, lost>>

(* The steps of the CLI process it runs. *)
RunSteps ==
    /\ phase \in {"checking", "preparing"}
    /\ \/ Accept(Desktop, phase = "preparing")
       \/ Stage(Desktop) \/ Staged(Desktop) \/ StageFails(Desktop) \/ Dies(Desktop)
    /\ UNCHANGED appVars

RunEnds ==
    /\ phase \in {"checking", "preparing"} /\ pc[Desktop] \in {"idle", "prepared"}
    /\ phase' = IF pc[Desktop] = "prepared" THEN "waiting" ELSE "none"
    /\ UNCHANGED <<nativeVars, desk, work, parent, lost>>

BeginInstalling ==
    /\ phase = "waiting" /\ canRestart
    /\ phase' = "flushing"
    /\ UNCHANGED <<nativeVars, desk, work, parent, lost>>

(* prepareUpdateRestart: every window saves its drafts, within ten seconds. *)
Flushed ==
    /\ phase = "flushing"
    /\ phase' = "starting"
    /\ UNCHANGED <<nativeVars, desk, work, parent, lost>>

FlushFails ==
    /\ phase = "flushing"
    /\ phase' = "none"
    /\ Exits(Desktop)
    /\ UNCHANGED <<installation, accepted, dir, old, session, desk, work, parent, lost>>

(* --start-job reads the job and starts the helper... *)
StartJob ==
    /\ phase = "starting"
    /\ whole
    /\ HandOff(Desktop, installed)
    /\ parent' = TRUE
    /\ UNCHANGED <<desk, phase, work, lost>>

(* ...and waits for its "ready" file.  *)
Acknowledged ==
    /\ phase = "starting"
    /\ pc[Desktop] \in HelperPCs \ {"helper", "read"}
    /\ phase' = "restarting"
    /\ UNCHANGED <<nativeVars, desk, work, parent, lost>>

(* The job or the helper is refused, or the helper is killed after twenty     *)
(* seconds, perhaps just after it became ready.                               *)
NotAcknowledged ==
    /\ phase = "starting"
    /\ pc[Desktop] \in {"idle", "prepared", "helper", "read", "locked"}
    /\ phase' = "none"
    /\ Exits(Desktop)
    /\ UNCHANGED <<installation, accepted, dir, old, session, desk, work, parent, lost>>

(* The --start-job process fails on its own; its helper lives. *)
StartJobDies ==
    /\ phase = "starting" /\ pc[Desktop] \in HelperPCs
    /\ phase' = "none"
    /\ UNCHANGED <<nativeVars, desk, work, parent, lost>>

Leave ==
    /\ session' = [session EXCEPT !["sidecar"] = "off", !["proxy"] = "off"]
    /\ desk' = "gone" /\ phase' = "none" /\ work' = "none" /\ parent' = FALSE

(* restart: the proxy and the sidecar stop, and the application quits. *)
Restart ==
    /\ phase = "restarting"
    /\ Leave
    /\ UNCHANGED <<unsharedVars, lost>>

(* cancel aborts an operation that is not installing yet. *)
Cancel ==
    /\ phase \in {"checking", "preparing", "waiting"}
    /\ phase' = "none"
    /\ Exits(Desktop)
    /\ UNCHANGED <<installation, accepted, dir, old, session, desk, work, parent, lost>>

(* The user quits: dispose aborts the operation, but a helper that has been   *)
(* started is on its own.                                                     *)
UserQuits ==
    /\ desk = "running"
    /\ Leave
    /\ IF pc[Desktop] \in HelperPCs THEN UNCHANGED <<pc, job>> ELSE Exits(Desktop)
    /\ UNCHANGED <<installation, accepted, dir, old, lost>>

UserStarts ==
    /\ desk = "gone" /\ whole
    /\ desk' = "running" /\ lost' = FALSE
    /\ UNCHANGED <<nativeVars, phase, work, parent>>

-----------------------------------------------------------------------------
(* The helper of the Desktop's job.  A Desktop that goes on to close does so  *)
(* well within the three minutes that the helper waits for it.                *)

DesktopHelper ==
    \/ HelperStep(Desktop) /\ UNCHANGED appVars
    \/ ~parent /\ ParentGone(Desktop) /\ UNCHANGED appVars
    \/ parent /\ phase = "none" /\ ParentTimeout(Desktop) /\ UNCHANGED appVars
    \/ Finish(Desktop, TRUE) /\ UNCHANGED appVars

(* relaunch; a second instance gives way to one that is already open. *)
DesktopRelaunched ==
    /\ Relaunch(Desktop, TRUE)
    /\ desk' = "running" /\ lost' = FALSE
    /\ UNCHANGED <<phase, work, parent>>

(* The helper ends without it... *)
LosesDesktop ==
    /\ lost' = (desk = "gone" \/ phase = "restarting")
    /\ UNCHANGED <<desk, phase, work, parent>>

HelperGivesUp ==
    /\ Finish(Desktop, FALSE) \/ Relaunch(Desktop, FALSE)
    /\ LosesDesktop

(* ...or dies. *)
HelperDies ==
    /\ pc[Desktop] \in HelperPCs /\ Dies(Desktop)
    /\ LosesDesktop

(* The processes of the terminal's jobs. *)
CLISteps(o) ==
    /\ \/ Room /\ Fetch(o)
       \/ Accept(o, TRUE) \/ Stage(o) \/ Staged(o) \/ StageFails(o)
       \/ HandOff(o, bin[o])
       \/ HelperStep(o) \/ ParentGone(o)
       \/ \E recorded \in BOOLEAN : Finish(o, recorded)
       \/ \E started \in BOOLEAN : Relaunch(o, started)
       \/ Dies(o)
    /\ UNCHANGED appVars

Next ==
    \/ \E o \in Owners : Expire(o) /\ UNCHANGED appVars
    \/ \E r \in orphans : OrphanWorks(r) /\ UNCHANGED appVars
    \/ AskPrompt \/ PromptRuns \/ RegenerateImage \/ WorkEnds
    \/ StartProxy \/ StopProxy \/ StartSidecar \/ SidecarDies
    \/ \E install \in BOOLEAN : Perform(install)
    \/ RunSteps \/ RunEnds \/ BeginInstalling \/ Flushed \/ FlushFails
    \/ StartJob \/ Acknowledged \/ NotAcknowledged \/ StartJobDies \/ Restart
    \/ Cancel \/ UserQuits \/ UserStarts
    \/ DesktopHelper \/ DesktopRelaunched \/ HelperGivesUp \/ HelperDies
    \/ \E o \in CLIs : CLISteps(o)

Spec == Init /\ [][Next]_vars

(* The application's event loop and the helper process run; the helper's      *)
(* waits are bounded by their deadlines.                                      *)
FairSpec == Spec /\ WF_vars(Restart)
                 /\ WF_vars(DesktopHelper \/ DesktopRelaunched \/ HelperGivesUp)

-----------------------------------------------------------------------------
TypeOK ==
    /\ NativeTypeOK
    /\ desk \in {"running", "gone"}
    /\ phase \in {"none", "checking", "preparing", "waiting", "flushing", "starting",
                  "restarting"}
    /\ work \in {"none", "pending", "running"} /\ lost \in BOOLEAN

(* Only an installer that has outlived its helper can bring an older version  *)
(* back, its own, when it finishes late.  Nobody else changes the files under *)
(* a helper that installs, no helper goes on to install a version that is     *)
(* there or an older one, and the remembered sequence never goes back,        *)
(* whoever checks, prepares, installs and dies at the same time               *)
(* (accept_sequence, install_staged).                                         *)
OnlyOrphansDowngrade ==
    [][/\ accepted' >= accepted
       /\ installed' < installed => installed' \in orphans
       /\ \A o \in Owners : pc'[o] = "installing" =>
             IF pc[o] = "installing" THEN installed' \in {installed} \cup orphans
                                     ELSE rel[o] > installed]_vars

(* While a helper has the installation lock no CLI, ACP or proxy process runs *)
(* and no other helper has it, also when processes start, die and restart at  *)
(* that moment (exclusive, lease).  An installer that has outlived its helper *)
(* has no lock, and this does not hold for it.  Every variable keeps its type.*)
HelperIsAlone ==
    TypeOK /\ (Exclusive # {} => Shared = {} /\ Cardinality(Exclusive) = 1)

(* As long as its helper lives, an installer works on the files that the      *)
(* helper verified: pruning never takes them away, however old the directory  *)
(* is (staging::lock, prune).  An orphan's directory is not locked.           *)
PayloadStays == \A o \in Owners : pc[o] = "installing" => dir[o] = "staged"

(* A Desktop that closed for an update is started again, whether the update   *)
(* succeeds or not, unless its helper died or could not record or start.      *)
DesktopComesBack ==
    phase = "restarting" ~> (desk = "running" /\ phase = "none") \/ lost

(* The restart for an update never stops a running reply or image. *)
NoWorkForcedClosed == [][Restart => work # "running"]_vars
=============================================================================
