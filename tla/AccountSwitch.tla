---------------------------- MODULE AccountSwitch ----------------------------
(***************************************************************************)
(* The account switch of the ACP server: one shared SessionStore whose     *)
(* database is replaced when the account changes (session/connection.rs),  *)
(* the tracker that holds back a switch while account work is alive        *)
(* (acp.rs), and the handlers that switch (acp/account.rs and the /login   *)
(* and /logout commands of acp/prompts.rs).                                *)
(*                                                                         *)
(*  - a store work registers a guard, binds the store to the current       *)
(*    account and generation, operates on it and publishes the result;     *)
(*  - a prompt holds a guard too, but uses the unbound store;              *)
(*  - a command is a prompt that switches the account itself, excluded     *)
(*    from its own barrier; a handler switches without holding a guard.    *)
(***************************************************************************)
EXTENDS Naturals, FiniteSets

CONSTANTS
    Accounts,       \* account identifiers
    StoreWorks,     \* AccountStoreWork reservations
    Prompts,        \* prompt turns
    Commands,       \* /login and /logout prompts
    Handlers,       \* account_status, native_login_complete, logout requests
    Stubborn,       \* prompts that may outlive the drain timeout
    None,           \* no account, or nobody
    MaxGeneration   \* bound on store generations

(* A request is of one kind. *)
ASSUME SwitchAssumption ==
    /\ None \notin Accounts \cup StoreWorks \cup Prompts \cup Commands \cup Handlers
    /\ StoreWorks \cap Prompts = {} /\ StoreWorks \cap Commands = {}
    /\ Prompts \cap Commands = {}
    /\ Handlers \cap (StoreWorks \cup Prompts \cup Commands) = {}
    /\ Stubborn \subseteq Prompts
    /\ MaxGeneration \in Nat

Guarded == StoreWorks \cup Prompts \cup Commands
Switchers == Commands \cup Handlers

VARIABLES
    generation, account, connection,   \* StoreState
    switching, excluded, active,       \* AccountWorkState
    accountSwitching, sessions,        \* SessionRegistry
    transition,                        \* who holds account_transition
    cancelled,                         \* guards whose token is cancelled
    dropping,                          \* guards removed but not yet notified
    woken,                             \* the drain's Notified has fired
    work, home,                        \* where each guard holder is, and for whom
    step, request, target,             \* where each switcher is, and what it wants
    wrote,                             \* history: database operations
    resets, born, published            \* history: what the client is sent

storeVars == <<generation, account, connection>>
trackerVars == <<switching, excluded, active>>
registryVars == <<accountSwitching, sessions>>
drainVars == <<dropping, woken>>
workVars == <<work, home, wrote>>
clientVars == <<resets, born, published>>
switchVars == <<transition, step, request, target>>
vars == <<storeVars, trackerVars, registryVars, drainVars, workVars, clientVars,
          switchVars, cancelled>>

Home == [account : Accounts \cup {None}, generation : 0..MaxGeneration]
NoHome == [account |-> None, generation |-> 0]
Here == [account |-> account, generation |-> generation]

(* SessionStore::account_routed starts signed out. *)
Init ==
    /\ generation = 0 /\ account = None /\ connection = None
    /\ switching = FALSE /\ excluded = None /\ active = {}
    /\ accountSwitching = FALSE /\ sessions = {}
    /\ transition = None /\ cancelled = {} /\ dropping = {} /\ woken = FALSE
    /\ work = [w \in Guarded |-> "idle"] /\ home = [w \in Guarded |-> NoHome]
    /\ step = [s \in Switchers |-> "idle"] /\ target = [s \in Switchers |-> None]
    /\ request = [s \in Switchers |-> "none"]
    /\ wrote = {}
    /\ resets = 0
    /\ born = [w \in Guarded |-> 0] /\ published = [w \in Guarded |-> None]

-----------------------------------------------------------------------------
(* AccountWorkTracker::register and the guard's drop.                      *)

Register(w) ==
    /\ ~switching
    /\ active' = active \cup {w}
    /\ born' = [born EXCEPT ![w] = resets]
    /\ UNCHANGED <<switching, excluded, resets, published>>

(* The guard leaves the tracker under its lock; the wake-up follows.       *)
DropGuard(w) ==
    /\ active' = active \ {w}
    /\ dropping' = dropping \cup {w}
    /\ work' = [work EXCEPT ![w] = "done"]
    /\ UNCHANGED <<switching, excluded>>

NotifyWaiters(w) ==
    /\ w \in dropping
    /\ dropping' = dropping \ {w}
    /\ woken' = (\/ woken
                 \/ \E s \in Switchers : step[s] \in {"checking", "blocked"})
    /\ UNCHANGED <<storeVars, trackerVars, registryVars, workVars, clientVars,
                   switchVars, cancelled>>

-----------------------------------------------------------------------------
(* AccountStoreWork.                                                       *)

Ends(w) ==
    /\ DropGuard(w)
    /\ UNCHANGED <<storeVars, registryVars, woken, home, wrote, clientVars,
                   switchVars, cancelled>>

(* register_store, and bind_active_account against an open store. *)
RegisterStore(w) ==
    /\ w \in StoreWorks /\ work[w] = "idle"
    /\ connection # None
    /\ Register(w)
    /\ work' = [work EXCEPT ![w] = "bound"]
    /\ home' = [home EXCEPT ![w] = Here]
    /\ UNCHANGED <<storeVars, registryVars, drainVars, wrote, switchVars, cancelled>>

(* binding_matches *)
BindingMatches(w) == home[w] = Here

(* ensure_current, before and after the operation. *)
EnsureCurrent(w) ==
    /\ \/ work[w] = "bound" /\ work' = [work EXCEPT ![w] = "checked"]
       \/ work[w] = "operated" /\ work' = [work EXCEPT ![w] = "confirmed"]
    /\ w \notin cancelled /\ BindingMatches(w) /\ connection # None
    /\ UNCHANGED <<storeVars, trackerVars, registryVars, drainVars, home, wrote,
                   clientVars, switchVars, cancelled>>

(* The operation itself: SessionStore::lock checks the binding again.      *)
Operate(w) ==
    /\ work[w] = "checked"
    /\ BindingMatches(w) /\ connection # None
    /\ work' = [work EXCEPT ![w] = "operated"]
    /\ wrote' = wrote \cup {[by |-> w, account |-> connection, generation |-> generation]}
    /\ UNCHANGED <<storeVars, trackerVars, registryVars, drainVars, home,
                   clientVars, switchVars, cancelled>>

(* A check that fails ends the work. *)
StoreWorkFails(w) ==
    /\ work[w] \in {"bound", "checked", "operated"}
    /\ \/ w \in cancelled /\ work[w] # "checked"
       \/ ~BindingMatches(w) \/ connection = None
    /\ Ends(w)

(* Mutant: a publication checks its binding to the store only. *)
MutMayPublish(w) == BindingMatches(w) /\ connection # None

MayPublish(w) ==
    /\ ~switching /\ w \in active /\ w \notin cancelled
    /\ BindingMatches(w) /\ connection # None

(* AccountStoreWork::publish, under the tracker's lock, then the drop.     *)
Publish(w) ==
    /\ work[w] = "confirmed"
    /\ published' = [published EXCEPT ![w] = IF MayPublish(w) THEN resets ELSE None]
    /\ DropGuard(w)
    /\ UNCHANGED <<storeVars, registryVars, woken, home, wrote, resets, born,
                   switchVars, cancelled>>

StoreWork(w) ==
    \/ RegisterStore(w) \/ EnsureCurrent(w) \/ Operate(w) \/ StoreWorkFails(w)
    \/ Publish(w)

-----------------------------------------------------------------------------
(* Prompts: sessions of an account are loaded by guarded session handlers; *)
(* a prompt reserves a loaded session and the tracker without an await.    *)

LoadSession ==
    /\ ~switching /\ connection # None
    /\ sessions' = sessions \cup {Here}
    /\ UNCHANGED <<storeVars, trackerVars, accountSwitching, drainVars, workVars,
                   clientVars, switchVars, cancelled>>

StartPrompt(w) ==
    /\ w \in Prompts \cup Commands /\ work[w] = "idle"
    /\ Register(w)
    /\ work' = [work EXCEPT ![w] = "running"]
    /\ \E h \in sessions : home' = [home EXCEPT ![w] = h]
    /\ UNCHANGED <<storeVars, registryVars, drainVars, wrote, switchVars, cancelled>>

(* The driver appends to the unbound store until it has ended the turn.    *)
PromptAppend(w) ==
    /\ w \in Prompts /\ work[w] = "running"
    /\ connection # None
    /\ wrote' = wrote \cup {[by |-> w, account |-> connection, generation |-> generation]}
    /\ UNCHANGED <<storeVars, trackerVars, registryVars, drainVars, work, home,
                   clientVars, switchVars, cancelled>>

PromptEnds(w) ==
    /\ w \in Prompts /\ work[w] = "running"
    /\ Ends(w)

-----------------------------------------------------------------------------
(* The switching handlers.                                                 *)

MoveTo(s, to) == step' = [step EXCEPT ![s] = to]

Asks(s, r, t) ==
    /\ step[s] = "idle"
    /\ MoveTo(s, "waiting")
    /\ request' = [request EXCEPT ![s] = r]
    /\ target' = [target EXCEPT ![s] = t]
    /\ UNCHANGED <<storeVars, trackerVars, registryVars, drainVars, workVars,
                   clientVars, transition, cancelled>>

AskAccountStatus(s) == s \in Handlers /\ Asks(s, "status", None)
AskLogout(s) == s \in Handlers /\ Asks(s, "logout", None)

(* A login that has been completed and persisted.                          *)
AskNativeLogin(s) == s \in Handlers /\ \E t \in Accounts : Asks(s, "login", t)

SlashLogin(s) ==
    /\ s \in Commands /\ work[s] = "running"
    /\ \E t \in Accounts : Asks(s, "login", t)

SlashLogout(s) == s \in Commands /\ work[s] = "running" /\ Asks(s, "logout", None)

(* A command stopped before it asks for the switch. *)
CommandCancelled(s) ==
    /\ s \in Commands /\ step[s] = "idle" /\ work[s] = "running" /\ s \in cancelled
    /\ Ends(s)

(* account_transition.lock().await, which no cancellation interrupts.      *)
LockTransition(s) ==
    /\ step[s] = "waiting" /\ transition = None
    /\ transition' = s
    /\ MoveTo(s, IF request[s] = "status" THEN "locked" ELSE "starting")
    /\ UNCHANGED <<storeVars, trackerVars, registryVars, drainVars, workVars,
                   clientVars, request, target, cancelled>>

(* The handler returns; a command also drops its guard.                    *)
Leave(s, result) ==
    /\ transition' = None
    /\ MoveTo(s, result)
    /\ IF s \in Commands THEN DropGuard(s)
       ELSE UNCHANGED <<trackerVars, dropping, work>>

(* account_status validates under the lock, and switches only if the valid *)
(* account is not the active one, or there is none and the store is open.  *)
StatusSwitches(s) ==
    /\ step[s] = "locked"
    /\ \E t \in Accounts \cup {None} :
         /\ t # account
         /\ target' = [target EXCEPT ![s] = t]
    /\ MoveTo(s, "starting")
    /\ UNCHANGED <<storeVars, trackerVars, registryVars, drainVars, workVars,
                   clientVars, transition, request, cancelled>>

StatusSettled(s) ==
    /\ step[s] = "locked"
    /\ Leave(s, "ok")
    /\ UNCHANGED <<storeVars, registryVars, woken, home, wrote, clientVars, request,
                   target, cancelled>>

(* begin_account_switch; start_switch follows without an await.            *)
BeginFails(s) ==
    /\ step[s] \in {"starting", "restarting"} /\ accountSwitching
    /\ Leave(s, "failed")
    /\ UNCHANGED <<storeVars, registryVars, woken, home, wrote, clientVars, request,
                   target, cancelled>>

Begin(s) ==
    /\ step[s] \in {"starting", "restarting"} /\ ~accountSwitching /\ ~switching
    /\ accountSwitching' = TRUE
    /\ switching' = TRUE
    /\ excluded' = IF s \in Commands THEN s ELSE None
    /\ cancelled' = cancelled \cup {w \in active : w # excluded'}
    /\ MoveTo(s, IF step[s] = "starting" THEN "begun" ELSE "arming")
    /\ UNCHANGED <<storeVars, active, sessions, drainVars, workVars, clientVars,
                   transition, request, target>>

(* publish_account_switch_started *)
PublishReset(s) ==
    /\ step[s] = "begun"
    /\ resets' = resets + 1
    /\ MoveTo(s, "arming")
    /\ UNCHANGED <<storeVars, trackerVars, registryVars, drainVars, workVars, born,
                   published, transition, request, target, cancelled>>

(* Mutant: cancelled work counts as stopped. *)
MutDrained == active \subseteq cancelled \cup {excluded}

Drained == active \subseteq {excluded}

(* Mutant: the loaded sessions survive the switch. *)
MutDrainDone(s) ==
    /\ MoveTo(s, "closing")
    /\ UNCHANGED <<woken, sessions>>

(* drain_account_switch: once drained, the registry forgets its sessions. *)
DrainDone(s) ==
    /\ MoveTo(s, "closing")
    /\ sessions' = {}
    /\ UNCHANGED woken

(* Mutant: the Notified future is created after the check. *)
MutDrainLoop(s) ==
    \/ /\ step[s] = "arming"
       /\ IF Drained THEN DrainDone(s)
          ELSE MoveTo(s, "late") /\ UNCHANGED <<sessions, woken>>
    \/ /\ step[s] = "late"
       /\ woken' = FALSE /\ MoveTo(s, "blocked") /\ UNCHANGED sessions
    \/ /\ step[s] = "blocked" /\ woken
       /\ MoveTo(s, "arming") /\ UNCHANGED <<sessions, woken>>

(* drain_switch: the Notified future is created before the check, so that  *)
(* it hears of every drop that the check has not seen.                     *)
DrainLoop(s) ==
    \/ /\ step[s] = "arming"
       /\ woken' = FALSE /\ MoveTo(s, "checking") /\ UNCHANGED sessions
    \/ /\ step[s] = "checking"
       /\ IF Drained THEN DrainDone(s)
          ELSE MoveTo(s, "blocked") /\ UNCHANGED <<sessions, woken>>
    \/ /\ step[s] = "blocked" /\ woken
       /\ MoveTo(s, "arming") /\ UNCHANGED <<sessions, woken>>

Drain(s) ==
    /\ DrainLoop(s)
    /\ UNCHANGED <<storeVars, trackerVars, accountSwitching, dropping, workVars,
                   clientVars, transition, request, target, cancelled>>

(* Thirty seconds are enough for cancelled work to stop, so the timeout is *)
(* left to work that does not listen: a stubborn prompt, or a command that *)
(* waits for the transition lock this handler holds.                       *)
Deaf(w) == w \in Stubborn \/ (w \in Commands /\ step[w] = "waiting")

DrainTimeout(s) ==
    /\ step[s] = "blocked" /\ ~woken
    /\ ~Drained /\ \A w \in active \ {excluded} : Deaf(w)
    /\ Leave(s, "failed")
    /\ UNCHANGED <<storeVars, registryVars, woken, home, wrote, clientVars, request,
                   target, cancelled>>

(* activate_account and deactivate_account: close first ...                *)
CloseStore(s) ==
    /\ step[s] = "closing"
    /\ IF target[s] # None /\ target[s] = account /\ connection # None
       THEN MoveTo(s, "finishing") /\ UNCHANGED storeVars
       ELSE /\ generation < MaxGeneration
            /\ generation' = generation + 1
            /\ account' = None /\ connection' = None
            /\ MoveTo(s, IF target[s] = None THEN "finishing" ELSE "opening")
    /\ UNCHANGED <<trackerVars, registryVars, drainVars, workVars, clientVars,
                   transition, request, target, cancelled>>

(* Mutant: the account is recorded before its database is open. *)
MutOpenStore(s) ==
    /\ step[s] = "opening"
    /\ account' = target[s] /\ connection' \in {target[s], connection}
    /\ MoveTo(s, "finishing")
    /\ UNCHANGED <<generation, trackerVars, registryVars, drainVars, workVars,
                   clientVars, transition, request, target, cancelled>>

(* ... and open the exact account afterwards, or leave the store inactive. *)
OpenStore(s) ==
    /\ step[s] = "opening"
    /\ \/ account' = target[s] /\ connection' = target[s]
       \/ UNCHANGED <<account, connection>>
    /\ MoveTo(s, "finishing")
    /\ UNCHANGED <<generation, trackerVars, registryVars, drainVars, workVars,
                   clientVars, transition, request, target, cancelled>>

(* finish_account_switch *)
Finish(s) ==
    /\ step[s] = "finishing"
    /\ accountSwitching' = FALSE
    /\ switching' = FALSE /\ excluded' = None
    /\ MoveTo(s, "finished")
    /\ UNCHANGED <<storeVars, active, sessions, drainVars, workVars, clientVars,
                   transition, request, target, cancelled>>

(* A completed login is validated; if that fails the store is deactivated  *)
(* by a second switch under the same transition lock, which publishes no   *)
(* reset of its own.                                                       *)
Revalidate(s) ==
    /\ step[s] = "finished" /\ request[s] = "login" /\ target[s] # None
    /\ target' = [target EXCEPT ![s] = None]
    /\ MoveTo(s, "restarting")
    /\ UNCHANGED <<storeVars, trackerVars, registryVars, drainVars, workVars,
                   clientVars, transition, request, cancelled>>

SwitchDone(s) ==
    /\ step[s] = "finished"
    /\ Leave(s, "ok")
    /\ UNCHANGED <<storeVars, registryVars, woken, home, wrote, clientVars, request,
                   target, cancelled>>

Switch(s) ==
    \/ LockTransition(s) \/ StatusSwitches(s) \/ StatusSettled(s) \/ BeginFails(s)
    \/ Begin(s) \/ PublishReset(s) \/ Drain(s) \/ DrainTimeout(s) \/ CloseStore(s) \/ OpenStore(s) \/ Finish(s)
    \/ Revalidate(s) \/ SwitchDone(s)

-----------------------------------------------------------------------------
Next ==
    \/ \E w \in StoreWorks : StoreWork(w)
    \/ LoadSession
    \/ \E w \in Prompts \cup Commands : StartPrompt(w)
    \/ \E w \in Prompts : PromptAppend(w) \/ PromptEnds(w)
    \/ \E w \in Guarded : NotifyWaiters(w)
    \/ \E s \in Handlers : AskAccountStatus(s) \/ AskNativeLogin(s) \/ AskLogout(s)
    \/ \E s \in Commands : SlashLogin(s) \/ SlashLogout(s) \/ CommandCancelled(s)
    \/ \E s \in Switchers : Switch(s)

Spec == Init /\ [][Next]_vars

(* Tasks are polled, cancelled work stops, and every dropped guard wakes   *)
(* the drain.  Nothing obliges a request to be made.                       *)
Fairness ==
    /\ \A s \in Switchers : WF_vars(Switch(s))
    /\ \A w \in Guarded : WF_vars(NotifyWaiters(w))
    /\ \A w \in StoreWorks : WF_vars(work[w] # "idle" /\ StoreWork(w))
    /\ \A w \in Prompts \ Stubborn : WF_vars(w \in cancelled /\ PromptEnds(w))
    /\ \A s \in Commands : WF_vars(SlashLogin(s) \/ SlashLogout(s) \/ CommandCancelled(s))

FairSpec == Spec /\ Fairness

-----------------------------------------------------------------------------
(* Types, and what ties the parts of the store together: an open database  *)
(* is always the active account's.                                         *)
TypeOK ==
    /\ generation \in 0..MaxGeneration
    /\ account \in Accounts \cup {None} /\ connection = account
    /\ switching \in BOOLEAN /\ accountSwitching = switching
    /\ excluded \in Commands \cup {None}
    /\ active \subseteq Guarded /\ cancelled \subseteq Guarded /\ dropping \subseteq Guarded
    /\ sessions \subseteq Home /\ woken \in BOOLEAN
    /\ transition \in Switchers \cup {None}
    /\ work \in [Guarded -> {"idle", "bound", "checked", "operated", "confirmed",
                             "running", "done"}]
    /\ home \in [Guarded -> Home]
    /\ step \in [Switchers -> {"idle", "waiting", "locked", "starting", "restarting", "begun",
                               "arming", "checking", "blocked", "closing", "opening",
                               "finishing", "finished", "ok", "failed"}]
    /\ request \in [Switchers -> {"none", "status", "login", "logout"}]
    /\ target \in [Switchers -> Accounts \cup {None}]
    /\ wrote \subseteq [by : Guarded, account : Accounts, generation : 0..MaxGeneration]
    /\ resets \in Nat
    /\ born \in [Guarded -> Nat] /\ published \in [Guarded -> Nat \cup {None}]

(* "The tracker prevents a switch from completing while the work is alive, *)
(* while the bound store independently rejects a delayed operation": no    *)
(* bound work and no prompt ever touches a database other than the one of  *)
(* the account, and of the activation, it was started for.                 *)
WritesStayHome ==
    \A x \in wrote : home[x.by] = [account |-> x.account, generation |-> x.generation]

(* "If this closure runs, its notification/response is enqueued before     *)
(* start_switch can publish the account reset": no result computed from    *)
(* one account's data reaches the client after the reset that ends it.     *)
NoPublicationAfterReset ==
    \A w \in StoreWorks : published[w] # None => published[w] = born[w]

(* "Cancel and drain all previous-account work before the caller closes or *)
(* opens the dynamic store": the database is replaced only behind the      *)
(* barrier, when no reservation but the switching command's own is left.   *)
StoreChangesOnlyWhenDrained ==
    [][connection' # connection \/ generation' # generation =>
         /\ switching /\ accountSwitching
         /\ active \subseteq {excluded} /\ active' \subseteq {excluded}]_vars

(* Every switch opens the barrier again or reports that it could not be    *)
(* drained, whatever guard is dropped between the drain's check and its    *)
(* sleep (drain_switch).                                                   *)
SwitchSettles ==
    \A s \in Switchers : switching /\ transition = s ~> ~switching \/ step[s] = "failed"

(* "The Axiom account is changing; retry after account status settles":    *)
(* work refused by the barrier can be retried some time later.             *)
SwitchAlwaysSettles == switching ~> ~switching
=============================================================================
