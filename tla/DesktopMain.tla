---------------------------- MODULE DesktopMain ----------------------------
(***************************************************************************)
(* The desktop's main process (apps/desktop/src/main/index.ts): every      *)
(* state that the sidecar supervisor publishes is handed to the proxy      *)
(* supervisor at once, and quitting shuts both down.                       *)
(***************************************************************************)
EXTENDS SidecarSupervisor, ProxySupervisor

(* No visible context is no context for the proxy. *)
ASSUME DesktopAssumption == NoContext = None /\ None \notin Contexts

desktopVars == <<sidecarVars, proxyVars>>

Init == SidecarInit /\ ProxyInit

(* A step of the sidecar supervisor, with the stateChanged callback; the   *)
(* generation bounds the notifications too.                                *)
SidecarMoves ==
    /\ NothingToContinue
    /\ SidecarSteps \/ (generation < MaxGeneration /\ StateNotified)
    /\ SetAccount(visible')

ProxyMoves ==
    /\ Continuations \/ ProxyEvents
    /\ UNCHANGED sidecarVars

(* before-quit, or the restart after an update. *)
Quit ==
    /\ NothingToContinue
    /\ Stop
    /\ Dispose

Next == SidecarMoves \/ ProxyMoves \/ Quit

Spec == Init /\ [][Next]_desktopVars

(* What the processes and the runtime guarantee: a child told to end or    *)
(* killed exits, a launch and a search for an executable end, and what is  *)
(* answered is continued.                                                  *)
Fairness ==
    /\ WF_desktopVars(SidecarMoves /\ starting.at = "resolving" /\ starting' # starting)
    /\ \A c \in Clients :
         WF_desktopVars(SidecarMoves /\ process[c] \in {"closing", "dying"} /\ process'[c] # process[c])
    /\ WF_desktopVars(ProxyMoves /\ pendingStart.at = "launching" /\ pendingStart' # pendingStart)
    /\ WF_desktopVars(ProxyMoves /\ Continuations)
    /\ \A p \in Proxies : WF_desktopVars(ProxyMoves /\ proxies[p] = "ending" /\ proxies'[p] = "exited")

FairSpec == Spec /\ Fairness

-----------------------------------------------------------------------------
(* The types of both supervisors. *)
TypeOK == SidecarTypeOK /\ ProxyTypeOK

(* Never two sidecars, never two proxies, and no proxy that nobody owns:   *)
(* the children of a kind would share a session database or a port, and    *)
(* an orphan would serve an account that has been left.                    *)
OneChildEach == OneSidecar /\ OneProxy /\ NoOrphanProxy

(* Whatever ends a start, a stop or a child, what the user waits for is    *)
(* still driven: a lost sidecar by a restart while there are any left, a   *)
(* proxy that is starting or stopping by the call that will settle it.     *)
SupervisionGoesOn == NeverAbandoned /\ StatusIsDriven

(* The token that can be copied belongs to the proxy in use, which was     *)
(* launched for the account in use and for the runtime of the client in    *)
(* use: a lost, replaced or disconnected agent takes its proxy with it     *)
(* (stateChanged, setAccount), except while the application shuts down.    *)
TokenIsCurrent ==
    token # 0 => /\ child = token /\ launchedFor[token] = context
                 /\ shuttingDown \/ (client # 0 /\ context.runtime = client)

(* When the calls of stop and dispose have returned no child is left: not  *)
(* the sidecar spawned after the call, nor the proxy whose launch was      *)
(* under way (stop awaits startOnce, dispose the pending start).           *)
NothingOutlivesQuit ==
    /\ shuttingDown /\ (\A k \in DOMAIN closedBy : StopReturned(k)) => \A c \in Clients : ~Live(c)
    /\ DisposeReturned => \A p \in Proxies : ~LiveProxy(p)

(* Quitting ends: stop and dispose return.  The one thing the code waits   *)
(* for without a timeout is the handshake of a child that was spawned      *)
(* after stop was called (the initialize request has none).                *)
QuitCompletes ==
    shuttingDown ~> \/ DisposeReturned /\ \A k \in DOMAIN closedBy : StopReturned(k)
                    \/ starting.at = "initializing" /\ initializingClient # 0
=============================================================================
