---------------------------- MODULE NativeUpdate ----------------------------
(***************************************************************************)
(* The native updater of one installation: `axiomcli update`, the TUI's    *)
(* /update and the Desktop's update jobs.  A job goes through processes of *)
(* one owner: the CLI fetches and accepts a release, downloads it into a   *)
(* staging directory and hands over to a copy of itself, the helper, which *)
(* outlives the program that is replaced, waits for everybody to leave,    *)
(* runs the installer, records the outcome and restarts the frontend.      *)
(*                                                                         *)
(* Shared by all of them, as files: the installation, the accepted feed,   *)
(* the staging directories and the installation lock (shared by every CLI, *)
(* ACP and proxy process, exclusive for the helper).  Locks are the        *)
(* kernel's: a process that dies drops its own.  The installer is a child  *)
(* of the helper (sh, pkexec, the NSIS setup, osascript) that holds none   *)
(* of them and is not killed with it: an orphan goes on, perhaps after its *)
(* user has answered a dialog, while the locks are free.  last-update.json *)
(* is only shown to the user; that writing it may fail is kept.            *)
(*                                                                         *)
(* A release is its version: feeds are signed, and sequence and version    *)
(* grow together.                                                          *)
(***************************************************************************)
EXTENDS Naturals, FiniteSets

CONSTANTS
    Terminals,     \* TUI processes that update themselves: they hold the lease
    Commands,      \* `axiomcli update` processes, which do not
    MaxVersion     \* bound on published versions

ASSUME UpdateAssumption == MaxVersion \in Nat \ {0}

Desktop == "desktop"
Owners == Terminals \cup Commands \cup {Desktop}
Versions == 1..MaxVersion
Sessions == {"sidecar", "proxy"}   \* other processes with a shared lease

VARIABLES
    installed,  \* the version of the installed files
    whole,      \* the installed CLI can start
    orphans,    \* the releases whose installers have outlived their helpers
    accepted,   \* accepted.json: the newest version ever accepted, or 0
    pc,         \* the process that works on an owner's job
    bin,        \* the version of its executable
    rel,        \* its release
    dir,        \* the staging directory of the owner's job
    old,        \* the directory is older than MAX_AGE
    session     \* which other processes run, with their shared lease

nativeVars == <<installed, whole, orphans, accepted, pc, bin, rel,
                dir, old, session>>

(* The helper's process, which has been handed the job... *)
HelperPCs == {"helper", "read", "locked", "waiting", "exclusive", "installing",
              "ended", "recorded"}
(* ...and the processes that hold the lock of their staging directory. *)
HoldsStaging(o) ==
    pc[o] \in {"preparing", "locked", "waiting", "exclusive", "installing", "ended"}

(* The installation lock. *)
Exclusive == {o \in Owners : pc[o] \in {"exclusive", "installing"}}
Shared == {s \in Sessions : session[s] = "leased"}
          \cup {o \in Terminals : pc[o] \notin {"idle"} \cup HelperPCs}

NativeInit ==
    /\ installed = 1 /\ whole = TRUE /\ orphans = {}
    /\ accepted = 0
    /\ pc = [o \in Owners |-> "idle"]
    /\ bin = [o \in Owners |-> 1]
    /\ rel = [o \in Owners |-> 1]
    /\ dir = [o \in Owners |-> "none"]
    /\ old = [o \in Owners |-> FALSE]
    /\ session = [s \in Sessions |-> "off"]

(* The installed files, and who may still change them with no helper. *)
installation == <<installed, whole, orphans>>
job == <<bin, rel>>

(* The owner's process is gone, and with it what it had in memory. *)
Exits(o) ==
    /\ pc' = [pc EXCEPT ![o] = "idle"]
    /\ bin' = [bin EXCEPT ![o] = 1]
    /\ rel' = [rel EXCEPT ![o] = 1]

Goes(o, to) == pc' = [pc EXCEPT ![o] = to] /\ UNCHANGED job

-----------------------------------------------------------------------------
(* Staging directories: staging.rs. *)

MutPrunable == {o \in Owners : dir[o] # "none" /\ (old[o] \/ dir[o] = "complete")}

(* A directory goes when it is finished or expired and nobody works in it; a *)
(* completion marker stays as long as files in use cannot be removed.        *)
Prunable == {o \in Owners :
    /\ dir[o] # "none"
    /\ old[o] \/ dir[o] = "complete"
    /\ ~HoldsStaging(o)}

Pruned(removed) ==
    [o \in Owners |-> IF o \notin Prunable THEN dir[o]
                      ELSE IF o \in removed THEN "none" ELSE "complete"]
StillOld(removed) == [o \in Owners |-> old[o] /\ o \notin removed]

Expire(o) ==
    /\ dir[o] # "none" /\ ~old[o]
    /\ old' = [old EXCEPT ![o] = TRUE]
    /\ UNCHANGED <<installation, accepted, pc, job, dir, session>>

-----------------------------------------------------------------------------
(* The process that checks and prepares. *)

(* command, run_with_resume: prune, then fetch.  Releases are published at   *)
(* any time and an answer may be late, or come from a mirror that lags.      *)
Fetch(o) ==
    /\ pc[o] = "idle" /\ whole
    /\ o \in Terminals => Exclusive = {}
    /\ \E r \in Versions : rel' = [rel EXCEPT ![o] = r]
    /\ pc' = [pc EXCEPT ![o] = "fetched"]
    /\ bin' = [bin EXCEPT ![o] = installed]
    /\ \E removed \in SUBSET Prunable : dir' = Pruned(removed) /\ old' = StillOld(removed)
    /\ UNCHANGED <<installation, accepted, session>>

(* accept_sequence, under feed.lock, then the comparison of versions. *)
Accepts(o) == rel[o] >= accepted

Accept(o, onward) ==
    /\ pc[o] = "fetched"
    /\ accepted' = IF Accepts(o) THEN rel[o] ELSE accepted
    /\ IF onward /\ Accepts(o) /\ rel[o] > bin[o] THEN Goes(o, "checked") ELSE Exits(o)
    /\ UNCHANGED <<installation, dir, old, session>>

(* prepare: one directory for each owner is the bound here. *)
Stage(o) ==
    /\ pc[o] = "checked" /\ dir[o] = "none"
    /\ Goes(o, "preparing")
    /\ \E removed \in SUBSET Prunable :
        /\ dir' = [Pruned(removed) EXCEPT ![o] = "partial"]
        /\ old' = StillOld(removed)
    /\ UNCHANGED <<installation, accepted, session>>

Staged(o) ==
    /\ pc[o] = "preparing"
    /\ dir' = [dir EXCEPT ![o] = "staged"]
    /\ Goes(o, "prepared")
    /\ UNCHANGED <<installation, accepted, old, session>>

(* An error drops the temporary directory. *)
StageFails(o) ==
    /\ pc[o] = "preparing"
    /\ dir' = [dir EXCEPT ![o] = "none"]
    /\ old' = [old EXCEPT ![o] = FALSE]
    /\ Exits(o)
    /\ UNCHANGED <<installation, accepted, session>>

(* read_job by an executable of version v; it accepts the release again. *)
JobIsValid(o, v) == dir[o] = "staged" /\ Accepts(o) /\ rel[o] > v
Remembered(o) == IF dir[o] = "staged" /\ Accepts(o) THEN rel[o] ELSE accepted

ReadJob(o, v, next) ==
    /\ accepted' = Remembered(o)
    /\ IF JobIsValid(o, v) THEN Goes(o, next) ELSE Exits(o)
    /\ UNCHANGED <<installation, dir, old, session>>

(* handoff: the process becomes the helper, and its lease closes.  spawn, for *)
(* the Desktop, runs in a new process of the installed version v.             *)
HandOff(o, v) ==
    /\ pc[o] = "prepared"
    /\ ReadJob(o, v, "helper")

-----------------------------------------------------------------------------
(* The helper: apply.rs, run. *)

HelperReads(o) ==
    /\ pc[o] = "helper"
    /\ ReadJob(o, bin[o], "read")

(* staging::lock needs the directory, whatever is left in it; then "ready". *)
HelperLocks(o) ==
    /\ pc[o] = "read"
    /\ IF dir[o] = "none" THEN Exits(o) ELSE Goes(o, "locked")
    /\ UNCHANGED <<installation, accepted, dir, old, session>>

(* wait_parent has returned; install_staged reads the job before it waits. *)
ParentGone(o) ==
    /\ pc[o] = "locked"
    /\ accepted' = Remembered(o)
    /\ Goes(o, IF JobIsValid(o, bin[o]) THEN "waiting" ELSE "ended")
    /\ UNCHANGED <<installation, dir, old, session>>

ParentTimeout(o) ==
    /\ pc[o] = "locked"
    /\ Goes(o, "ended")
    /\ UNCHANGED <<installation, accepted, dir, old, session>>

TakeExclusive(o) ==
    /\ pc[o] = "waiting" /\ Shared = {} /\ Exclusive = {}
    /\ Goes(o, "exclusive")
    /\ UNCHANGED <<installation, accepted, dir, old, session>>

MutExclusiveTimeout(o) == pc[o] = "waiting" /\ FALSE /\ UNCHANGED nativeVars
ExclusiveTimeout(o) ==
    /\ pc[o] = "waiting" /\ Shared \cup Exclusive # {}
    /\ Goes(o, "ended")
    /\ UNCHANGED <<installation, accepted, dir, old, session>>

(* Under the lock: the job again, and the version that is installed now.  The *)
(* update has succeeded if that is the release; any other version than the    *)
(* helper's own is an error.                                                  *)
MutMayInstall(o) == whole
MayInstall(o) == whole /\ installed = bin[o]

Recheck(o) ==
    /\ pc[o] = "exclusive"
    /\ accepted' = Remembered(o)
    /\ Goes(o, IF JobIsValid(o, bin[o]) /\ MayInstall(o) THEN "installing" ELSE "ended")
    /\ UNCHANGED <<installation, dir, old, session>>

(* install, and the startup check of the new version. *)
Installs(o) ==
    /\ pc[o] = "installing"
    /\ installed' = rel[o] /\ whole' = TRUE
    /\ Goes(o, "ended")
    /\ UNCHANGED <<orphans, accepted, dir, old, session>>

(* An installer has done all, none or a part of its work. *)
Partly(r) == installed' \in {installed, r} /\ whole' \in BOOLEAN

(* The installer fails or is refused, or what it installed does not start. *)
InstallFails(o) ==
    /\ pc[o] = "installing"
    /\ Partly(rel[o])
    /\ Goes(o, "ended")
    /\ UNCHANGED <<orphans, accepted, dir, old, session>>

(* record_outcome and staging::finish.  When the outcome cannot be written    *)
(* the helper cleans up and stops, and the frontend is not restarted.         *)
Finish(o, recorded) ==
    /\ pc[o] = "ended"
    /\ IF recorded THEN Goes(o, "recorded") ELSE Exits(o)
    /\ \E left \in {"none", "complete"} :
        /\ dir' = [dir EXCEPT ![o] = left]
        /\ old' = [old EXCEPT ![o] = @ /\ left # "none"]
    /\ UNCHANGED <<installation, accepted, session>>

(* relaunch; the frontend may not start, and never does from broken files. *)
Relaunch(o, started) ==
    /\ pc[o] = "recorded"
    /\ started => whole
    /\ Exits(o)
    /\ UNCHANGED <<installation, accepted, dir, old, session>>

(* The process of a job dies, and its locks are free.  An installer that it   *)
(* had started goes on without it; the copy of an AppImage, which is made by  *)
(* the helper itself, and an installer that ends at the same time do not.     *)
Dies(o) ==
    /\ pc[o] # "idle" /\ Exits(o)
    /\ \/ pc[o] # "installing" /\ UNCHANGED installation
       \/ pc[o] = "installing" /\ Partly(rel[o]) /\ UNCHANGED orphans
       \/ /\ pc[o] = "installing"
          /\ orphans' = orphans \cup {rel[o]}
          /\ UNCHANGED <<installed, whole>>
    /\ UNCHANGED <<accepted, dir, old, session>>

(* An orphan replaces files, whoever runs or installs meanwhile; it goes on,  *)
(* or ends, also because its payload is gone or its dialog is refused.        *)
OrphanWorks(r) ==
    /\ r \in orphans
    /\ Partly(r)
    /\ orphans' \in {orphans, orphans \ {r}}
    /\ UNCHANGED <<accepted, pc, job, dir, old, session>>

-----------------------------------------------------------------------------
(* Every other process takes the shared lease when it starts (lease). *)

MutLeaseFree == TRUE
LeaseFree == Exclusive = {}

StartSession(s) ==
    /\ session[s] = "off" /\ whole /\ LeaseFree
    /\ session' = [session EXCEPT ![s] = "leased"]

EndSession(s) ==
    /\ session[s] = "leased"
    /\ session' = [session EXCEPT ![s] = "off"]

unsharedVars == <<installation, accepted, pc, job, dir, old>>

-----------------------------------------------------------------------------
(* One step of an owner's processes, but for what the Desktop decides. *)
HelperStep(o) ==
    \/ HelperReads(o) \/ HelperLocks(o)
    \/ TakeExclusive(o) \/ ExclusiveTimeout(o) \/ Recheck(o)
    \/ Installs(o) \/ InstallFails(o)

NativeTypeOK ==
    /\ installed \in Versions /\ whole \in BOOLEAN /\ orphans \subseteq Versions
    /\ accepted \in 0..MaxVersion
    /\ pc \in [Owners -> {"idle", "fetched", "checked", "preparing", "prepared"}
                          \cup HelperPCs]
    /\ bin \in [Owners -> Versions] /\ rel \in [Owners -> Versions]
    /\ dir \in [Owners -> {"none", "partial", "staged", "complete"}]
    /\ old \in [Owners -> BOOLEAN]
    /\ session \in [Sessions -> {"off", "leased"}]
=============================================================================
