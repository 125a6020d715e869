-------------------------- MODULE ProxySupervisor --------------------------
(***************************************************************************)
(* The desktop's supervisor of the local proxy process                     *)
(* (apps/desktop/src/main/proxy-supervisor.ts): the user starts and stops  *)
(* a proxy for the account and agent runtime shown to the supervisor       *)
(* (setAccount); a change of either stops it.  stop may be called while    *)
(* another stop, a launch or a start is awaited; the generation tells      *)
(* which call is still current.  A step is the code from one event to the  *)
(* next await that is not answered at once.                                *)
(***************************************************************************)
EXTENDS Naturals, FiniteSets

CONSTANTS
    NoContext,         \* no account or no connected runtime
    MaxProxies,        \* bound on the proxies launched
    MaxGeneration      \* bound on the user's calls: none once generation reaches it

ASSUME ProxyAssumption == MaxProxies \in Nat /\ MaxGeneration \in Nat

VARIABLES
    context,         \* the account and runtime in use
    generation,
    proxies,         \* the proxy processes launched
    launchedFor,     \* the context each was launched for
    child,           \* this.child, 0 when null
    token,           \* the proxy whose token is held, or 0
    disposed,        \* the generation of dispose's last call of stop, 0 before
    status,          \* state.status as published
    pendingStart,    \* startOnce: what it awaits, its generation, context and proxy
    stopping,        \* the proxies this.stopping waits for
    stopCalls        \* calls of stop not yet returned

proxyVars == <<context, generation, proxies, launchedFor, child, token, disposed, status,
               pendingStart, stopping, stopCalls>>

Proxies == 1..MaxProxies
NoStart == [at |-> "idle", generation |-> 0, context |-> NoContext, proxy |-> 0]
LiveProxy(p) == proxies[p] \in {"running", "ending"}

ProxyInit ==
    /\ context = NoContext /\ generation = 0
    /\ proxies = [p \in Proxies |-> "none"] /\ launchedFor = [p \in Proxies |-> NoContext]
    /\ child = 0 /\ token = 0 /\ disposed = 0 /\ status = "stopped"
    /\ pendingStart = NoStart /\ stopping = {} /\ stopCalls = {}

-----------------------------------------------------------------------------
MutTerminate(ps, p) == ps

(* terminate: end the proxy's input; it is killed when it does not exit. *)
Terminate(ps, p) == IF p # 0 /\ ps[p] = "running" THEN [ps EXCEPT ![p] = "ending"] ELSE ps

(* stop up to its await, called when this.child is c and the processes are *)
(* ps; `shown` is the status published before.                             *)
StopFrom(c, ps, shown) ==
    /\ generation' = generation + 1
    /\ token' = 0 /\ child' = 0
    /\ proxies' = Terminate(ps, c)
    /\ stopping' = stopping \cup ({c} \ {0})
    /\ stopCalls' = stopCalls \cup {[generation |-> generation + 1, waits |-> stopping']}
    /\ status' = IF c # 0 THEN "stopping" ELSE shown

(* setAccount, on every state of the agent; it publishes a fresh state.    *)
SetAccount(new) ==
    IF new = context THEN UNCHANGED proxyVars
    ELSE /\ context' = new
         /\ generation' = generation + 1
         /\ token' = 0 /\ child' = 0
         /\ proxies' = Terminate(proxies, child)
         /\ stopping' = stopping \cup ({child} \ {0})
         /\ stopCalls' = stopCalls \cup {[generation |-> generation + 1, waits |-> stopping']}
         /\ status' = "stopped"
         /\ UNCHANGED <<launchedFor, disposed, pendingStart>>

(* The user's stop, and the one before a sign-out. *)
StopProxy ==
    /\ generation < MaxGeneration
    /\ StopFrom(child, proxies, status)
    /\ UNCHANGED <<context, launchedFor, disposed, pendingStart>>

Dispose ==
    /\ disposed' = generation + 1
    /\ StopFrom(child, proxies, status)
    /\ UNCHANGED <<context, launchedFor, pendingStart>>

(* stop after its await. *)
StopReturns(s) ==
    /\ s.waits \subseteq {p \in Proxies : proxies[p] = "exited"}
    /\ stopCalls' = stopCalls \ {s}
    /\ status' = IF s.generation = generation THEN "stopped" ELSE status
    /\ UNCHANGED <<context, generation, proxies, launchedFor, child, token, disposed,
                   pendingStart, stopping>>

-----------------------------------------------------------------------------
(* start and startOnce *)

StartProxy ==
    /\ generation < MaxGeneration
    /\ disposed = 0 /\ context # NoContext /\ pendingStart = NoStart
    /\ StopFrom(child, proxies, status)
    /\ pendingStart' = [at |-> "stopping", generation |-> generation + 1, context |-> context, proxy |-> 0]
    /\ UNCHANGED <<context, launchedFor, disposed>>

OwnStopReturned == \A s \in stopCalls : s.generation # pendingStart.generation

(* Its own stop has returned: launch, unless a later call took over. *)
Launch ==
    /\ pendingStart.at = "stopping" /\ OwnStopReturned
    /\ IF pendingStart.generation = generation
       THEN pendingStart' = [pendingStart EXCEPT !.at = "launching"] /\ status' = "starting"
       ELSE pendingStart' = NoStart /\ UNCHANGED status
    /\ UNCHANGED <<context, generation, proxies, launchedFor, child, token, disposed, stopping, stopCalls>>

MutLaunched(p) ==
    /\ pendingStart.at = "launching" /\ proxies[p] = "none"
    /\ \A q \in 1..(p - 1) : proxies[q] # "none"
    /\ launchedFor' = [launchedFor EXCEPT ![p] = pendingStart.context]
    /\ proxies' = [proxies EXCEPT ![p] = "running"]
    /\ IF pendingStart.generation = generation
       THEN /\ child' = p /\ token' = p
            /\ pendingStart' = [pendingStart EXCEPT !.at = "waiting", !.proxy = p]
       ELSE /\ pendingStart' = NoStart
            /\ UNCHANGED <<child, token>>
    /\ UNCHANGED <<context, generation, disposed, status, stopping, stopCalls>>

(* The process is there: it is owned, or terminated when a later call took *)
(* over during the launch.                                                 *)
Launched(p) ==
    /\ pendingStart.at = "launching" /\ proxies[p] = "none"
    /\ \A q \in 1..(p - 1) : proxies[q] # "none"
    /\ launchedFor' = [launchedFor EXCEPT ![p] = pendingStart.context]
    /\ IF pendingStart.generation = generation /\ disposed = 0
       THEN /\ proxies' = [proxies EXCEPT ![p] = "running"]
            /\ child' = p /\ token' = p
            /\ pendingStart' = [pendingStart EXCEPT !.at = "waiting", !.proxy = p]
       ELSE /\ proxies' = [proxies EXCEPT ![p] = "ending"]
            /\ pendingStart' = [pendingStart EXCEPT !.at = "discarding", !.proxy = p]
            /\ UNCHANGED <<child, token>>
    /\ UNCHANGED <<context, generation, disposed, status, stopping, stopCalls>>

(* The catch block, with the processes ps and this.child = c: a current    *)
(* start stops what it started and awaits it, any other just ends.         *)
StartFails(c, ps, shown) ==
    IF pendingStart.generation = generation
    THEN /\ StopFrom(c, ps, shown)
         /\ pendingStart' = [pendingStart EXCEPT !.at = "failing", !.generation = generation + 1]
    ELSE /\ pendingStart' = NoStart
         /\ child' = c /\ token' = (IF c = child THEN token ELSE 0)
         /\ proxies' = ps /\ status' = shown
         /\ UNCHANGED <<generation, stopping, stopCalls>>

LaunchFails ==
    /\ pendingStart.at = "launching"
    /\ StartFails(child, proxies, status)
    /\ UNCHANGED <<context, launchedFor, disposed>>

(* The proxy prints its ready line. *)
Ready ==
    /\ pendingStart.at = "waiting"
    /\ child = pendingStart.proxy /\ proxies[child] = "running"
    /\ status' = "running"
    /\ pendingStart' = NoStart
    /\ UNCHANGED <<context, generation, proxies, launchedFor, child, token, disposed, stopping, stopCalls>>

(* fail of an owned proxy: an error event or invalid output, at any time.  *)
ProxyFails ==
    /\ child # 0 /\ proxies[child] = "running"
    /\ IF pendingStart.at = "waiting"
       THEN StartFails(child, Terminate(proxies, child), "failed")
       ELSE /\ token' = 0 /\ status' = "failed"
            /\ proxies' = Terminate(proxies, child)
            /\ UNCHANGED <<generation, child, pendingStart, stopping, stopCalls>>
    /\ UNCHANGED <<context, launchedFor, disposed>>

(* The startup timer of a start that another call has taken over. *)
StartupTimeout ==
    /\ pendingStart.at = "waiting" /\ child # pendingStart.proxy
    /\ pendingStart' = NoStart
    /\ UNCHANGED <<context, generation, proxies, launchedFor, child, token, disposed, status, stopping, stopCalls>>

(* A proxy exits by itself, or because it was told to: its close event.    *)
ProxyExits(p) ==
    LET gone  == [proxies EXCEPT ![p] = "exited"]
        left  == IF child = p THEN 0 ELSE child
        shown == IF child = p THEN "failed" ELSE status
    IN /\ LiveProxy(p)
       /\ IF pendingStart.proxy = p /\ pendingStart.at \in {"waiting", "discarding"}
          THEN StartFails(left, gone, shown)
          ELSE /\ proxies' = gone /\ child' = left /\ status' = shown
               /\ token' = IF child = p THEN 0 ELSE token
               /\ UNCHANGED <<generation, pendingStart, stopping, stopCalls>>
       /\ UNCHANGED <<context, launchedFor, disposed>>

(* The failed start's own stop has returned. *)
StartFailed ==
    /\ pendingStart.at = "failing" /\ OwnStopReturned
    /\ status' = IF pendingStart.generation = generation THEN "failed" ELSE status
    /\ pendingStart' = NoStart
    /\ UNCHANGED <<context, generation, proxies, launchedFor, child, token, disposed, stopping, stopCalls>>

(* What has been answered is continued before the next event is handled.   *)
Continuations == (\E s \in stopCalls : StopReturns(s)) \/ Launch \/ StartFailed

NothingToContinue ==
    /\ \A s \in stopCalls : \E p \in s.waits : proxies[p] # "exited"
    /\ pendingStart.at \in {"stopping", "failing"} => ~OwnStopReturned

ProxyEvents ==
    /\ NothingToContinue
    /\ \/ StartProxy \/ StopProxy \/ LaunchFails \/ Ready \/ ProxyFails \/ StartupTimeout
       \/ \E p \in Proxies : Launched(p) \/ ProxyExits(p)

DisposeReturned ==
    disposed # 0 /\ pendingStart = NoStart /\ \A s \in stopCalls : s.generation # disposed

-----------------------------------------------------------------------------
(* Every variable of the supervisor stays in its type; a call of stop has  *)
(* a generation of its own.                                                *)
ProxyTypeOK ==
    /\ generation \in Nat /\ disposed \in Nat
    /\ proxies \in [Proxies -> {"none", "running", "ending", "exited"}]
    /\ child \in Proxies \cup {0} /\ token \in {0, child}
    /\ status \in {"stopped", "starting", "running", "failed", "stopping"}
    /\ pendingStart.at \in {"idle", "stopping", "launching", "waiting", "discarding", "failing"}
    /\ pendingStart.proxy \in Proxies \cup {0} /\ stopping \subseteq Proxies
    /\ \A s, t \in stopCalls : s.waits \subseteq Proxies /\ (s.generation = t.generation => s = t)

(* There is never more than one proxy process: a start launches when all   *)
(* that stop has told to end have exited, and a process that a cancelled   *)
(* start has launched still holds off the next start (startOnce).          *)
OneProxy == \A p, q \in Proxies : LiveProxy(p) /\ LiveProxy(q) => p = q

(* A proxy that nobody owns has been told to end: no stop, failure or      *)
(* account change in the middle of a launch leaves one running.            *)
NoOrphanProxy == \A p \in Proxies : proxies[p] = "running" => child = p

(* A status that announces a change is never stuck: a stop or a start of   *)
(* the current generation will replace it, and "running" means a proxy     *)
(* with its token (publish, after each await).                             *)
StatusIsDriven ==
    /\ status \in {"starting", "stopping"} =>
         \/ \E s \in stopCalls : s.generation = generation
         \/ pendingStart # NoStart /\ pendingStart.generation = generation
    /\ status = "running" => token # 0
=============================================================================
