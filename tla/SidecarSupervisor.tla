------------------------- MODULE SidecarSupervisor -------------------------
(***************************************************************************)
(* The desktop's supervisor of its native agent                            *)
(* (apps/desktop/src/main/agent-sidecar.ts, restart-policy.ts) over the    *)
(* child process of the client library                                     *)
(* (packages/axiom-acp-client/src/process.ts): one child at a time is      *)
(* started, initialised, watched, restarted a bounded number of times and  *)
(* closed on shutdown.                                                     *)
(*                                                                         *)
(* Everything runs on the main process's only thread: a step is the code   *)
(* from one event (a timer, an answer, a child's exit, a call) to the next *)
(* await that is not answered at once.  A client is named by its number.   *)
(***************************************************************************)
EXTENDS Naturals, Sequences, FiniteSets

CONSTANTS
    Accounts,          \* accounts the agent may report as signed in
    None,              \* no account
    MaxFailures,       \* maxFailures of the restart policy
    Finishes,          \* does finish announce the exit at once? {TRUE} on POSIX, {FALSE} on Windows
    MaxClients,        \* bound on the children started
    MaxStopCalls       \* bound on the calls of stop

ASSUME SidecarAssumption ==
    /\ MaxFailures \in Nat /\ MaxClients \in Nat \ {0} /\ MaxStopCalls \in Nat
    /\ Finishes \subseteq BOOLEAN

VARIABLES
    process,              \* the child process of each client
    client,               \* the client in use, 0 when there is none
    initializingClient,   \* the client being initialised, or 0
    starting,             \* startOnce: what it awaits, and its client
    waiting,              \* a restart callback waits for startOnce to settle
    policy,               \* the restart policy: failureCount, is a restart scheduled, and
                          \* the client whose stability window runs (0: none)
    shuttingDown,
    closedBy,             \* the clients each call of stop waits for
    visible,              \* the context last handed to stateChanged
    losses                \* clients lost and starts failed since failureCount was reset

sidecarVars == <<process, client, initializingClient, starting, waiting, policy, shuttingDown,
                 closedBy, visible, losses>>

Clients == 1..MaxClients
Contexts == [account : Accounts, runtime : Clients]
Idle == [at |-> "idle", client |-> 0]
Live(c) == process[c] \in {"running", "closing", "dying"}

SidecarInit ==
    /\ process = [c \in Clients |-> "none"]
    /\ client = 0 /\ initializingClient = 0
    /\ starting = Idle /\ waiting = FALSE
    /\ policy = [failures |-> 0, restart |-> FALSE, stability |-> 0]
    /\ shuttingDown = FALSE /\ closedBy = <<>>
    /\ visible = None /\ losses = 0

-----------------------------------------------------------------------------
(* The restart policy *)

MutUnboundedRestart(p) ==
    IF shuttingDown THEN p
    ELSE IF p.restart THEN [p EXCEPT !.stability = 0]
    ELSE [failures |-> p.failures + 1, restart |-> TRUE, stability |-> 0]

MutScheduleRestart(p) ==
    IF shuttingDown THEN p
    ELSE IF p.failures >= MaxFailures THEN [p EXCEPT !.stability = 0]
    ELSE [failures |-> p.failures + 1, restart |-> TRUE, stability |-> 0]

ScheduleRestart(p) ==
    IF shuttingDown THEN p
    ELSE IF p.restart \/ p.failures >= MaxFailures THEN [p EXCEPT !.stability = 0]
    ELSE [failures |-> p.failures + 1, restart |-> TRUE, stability |-> 0]

CountLoss == losses' = IF losses < MaxFailures THEN losses + 1 ELSE losses

(* markReady's timer: the client has been up for the whole window. *)
StabilityFires ==
    LET stable == ~shuttingDown /\ client = policy.stability
    IN /\ policy.stability # 0
       /\ policy' = [policy EXCEPT !.stability = 0, !.failures = IF stable THEN 0 ELSE @]
       /\ losses' = IF stable THEN 0 ELSE losses
       /\ UNCHANGED <<process, client, initializingClient, starting, waiting, shuttingDown, closedBy, visible>>

-----------------------------------------------------------------------------
(* start and startOnce *)

(* start, called when startOnce is not running. *)
Begins == IF shuttingDown \/ client # 0 THEN Idle ELSE [at |-> "resolving", client |-> 0]

(* startOnce has failed; a restart callback that waited for it starts again. *)
SettleFailed ==
    /\ waiting' = FALSE
    /\ starting' = IF waiting THEN Begins ELSE Idle

(* The application starts, or the renderer asks for the bootstrap. *)
Start ==
    /\ starting.at = "idle" /\ client = 0 /\ ~shuttingDown
    /\ starting' = Begins
    /\ UNCHANGED <<process, client, initializingClient, waiting, policy, shuttingDown,
                   closedBy, visible, losses>>

RestartTimerFires ==
    /\ policy.restart
    /\ policy' = [policy EXCEPT !.restart = FALSE]
    /\ IF starting.at = "idle" THEN starting' = Begins /\ UNCHANGED waiting
       ELSE waiting' = TRUE /\ UNCHANGED starting
    /\ UNCHANGED <<process, client, initializingClient, shuttingDown, closedBy, visible, losses>>

(* The executable and its configuration are found; the child is spawned. *)
Spawn ==
    /\ starting.at = "resolving"
    /\ \E c \in Clients :
         /\ process[c] = "none" /\ \A d \in 1..(c - 1) : process[d] # "none"
         /\ process' = [process EXCEPT ![c] = "running"]
         /\ initializingClient' = c
         /\ starting' = [at |-> "initializing", client |-> c]
    /\ UNCHANGED <<client, waiting, policy, shuttingDown, closedBy, visible, losses>>

MutResolveFails ==
    /\ starting.at = "resolving"
    /\ visible' = None
    /\ CountLoss /\ SettleFailed
    /\ UNCHANGED <<process, client, initializingClient, policy, shuttingDown, closedBy>>

ResolveFails ==
    /\ starting.at = "resolving"
    /\ visible' = None
    /\ policy' = ScheduleRestart(policy)
    /\ CountLoss /\ SettleFailed
    /\ UNCHANGED <<process, client, initializingClient, shuttingDown, closedBy>>

(* The handshake, the bootstrap and the first lists have been answered. *)
Initialized ==
    LET c == starting.client
    IN /\ starting.at = "initializing" /\ process[c] \in {"running", "closing"}
       /\ ~shuttingDown /\ initializingClient = c
       /\ initializingClient' = 0 /\ client' = c
       /\ \E a \in Accounts \cup {None} :
            visible' = IF a = None THEN None ELSE [account |-> a, runtime |-> c]
       /\ policy' = [policy EXCEPT !.stability = c]
       /\ starting' = Idle /\ waiting' = FALSE
       /\ UNCHANGED <<process, shuttingDown, closedBy, losses>>

(* startOnce throws while its client is still there: the client is closed  *)
(* by startOnce when it is its own, and by stop otherwise.                 *)
InitializeFails ==
    LET c == starting.client
    IN /\ starting.at = "initializing" /\ process[c] \in {"running", "closing"}
       /\ IF initializingClient = c
          THEN /\ initializingClient' = 0
               /\ process' = [process EXCEPT ![c] = "closing"]
               /\ starting' = [starting EXCEPT !.at = "closing"]
               /\ UNCHANGED <<waiting, policy, visible, losses>>
          ELSE /\ visible' = None
               /\ policy' = ScheduleRestart(policy)
               /\ CountLoss /\ SettleFailed
               /\ UNCHANGED <<process, initializingClient>>
       /\ UNCHANGED <<client, shuttingDown, closedBy>>

-----------------------------------------------------------------------------
(* The child process *)

MutDisconnect == UNCHANGED visible

(* The client's last state: disconnected. *)
Disconnect == visible' = None

(* publishTermination: the client reports the disconnection, the exit      *)
(* handler runs, and then the catch block of a startOnce that awaited an   *)
(* answer or the close of this client.                                     *)
Exit(c) ==
    LET handled == IF c \in {client, initializingClient} THEN ScheduleRestart(policy) ELSE policy
    IN /\ process' = [process EXCEPT ![c] = "exited"]
       /\ Disconnect
       /\ client' = IF client = c THEN 0 ELSE client
       /\ initializingClient' = IF initializingClient = c THEN 0 ELSE initializingClient
       /\ IF starting.client = c
          THEN policy' = ScheduleRestart(handled) /\ CountLoss /\ SettleFailed
          ELSE /\ policy' = handled
               /\ IF client = c THEN CountLoss ELSE UNCHANGED losses
               /\ UNCHANGED <<starting, waiting>>
       /\ UNCHANGED <<shuttingDown, closedBy>>

(* finish on POSIX: the child exited, broke the protocol or was killed.    *)
Dies(c) ==
    /\ TRUE \in Finishes
    /\ process[c] \in {"running", "closing"}
    /\ Exit(c)

(* finish on Windows: requests fail at once, the exit is announced when    *)
(* the process tree is gone.                                               *)
FinishBegins(c) ==
    /\ FALSE \in Finishes
    /\ process[c] \in {"running", "closing"}
    /\ process' = [process EXCEPT ![c] = "dying"]
    /\ IF starting = [at |-> "initializing", client |-> c]
       THEN IF initializingClient = c
            THEN /\ initializingClient' = 0
                 /\ starting' = [starting EXCEPT !.at = "closing"]
                 /\ UNCHANGED <<waiting, policy, visible, losses>>
            ELSE /\ visible' = None
                 /\ policy' = ScheduleRestart(policy)
                 /\ CountLoss /\ SettleFailed
                 /\ UNCHANGED initializingClient
       ELSE UNCHANGED <<initializingClient, starting, waiting, policy, visible, losses>>
    /\ UNCHANGED <<client, shuttingDown, closedBy>>

FinishEnds(c) ==
    /\ process[c] = "dying"
    /\ Exit(c)

(* A state notification of the client in use, or of another one, which is  *)
(* shown as disconnected.                                                  *)
StateNotified ==
    /\ \/ /\ client # 0 /\ process[client] = "running"
          /\ \E a \in Accounts \cup {None} :
               visible' = IF a = None THEN None ELSE [account |-> a, runtime |-> client]
       \/ /\ \E c \in Clients : process[c] # "none" /\ c # client
          /\ visible' = None
    /\ UNCHANGED <<process, client, initializingClient, starting, waiting, policy,
                   shuttingDown, closedBy, losses>>

-----------------------------------------------------------------------------
MutStop ==
    /\ Len(closedBy) < MaxStopCalls
    /\ shuttingDown' = TRUE
    /\ policy' = [policy EXCEPT !.restart = FALSE, !.stability = 0]
    /\ closedBy' = Append(closedBy, {client} \ {0})
    /\ process' = [c \in Clients |-> IF c = client /\ process[c] = "running"
                                     THEN "closing" ELSE process[c]]
    /\ client' = 0 /\ initializingClient' = 0
    /\ UNCHANGED <<starting, waiting, visible, losses>>

Stop ==
    LET clients == {client, initializingClient} \ {0}
    IN /\ Len(closedBy) < MaxStopCalls
       /\ shuttingDown' = TRUE
       /\ policy' = [policy EXCEPT !.restart = FALSE, !.stability = 0]
       /\ closedBy' = Append(closedBy, clients)
       /\ process' = [c \in Clients |-> IF c \in clients /\ process[c] = "running"
                                        THEN "closing" ELSE process[c]]
       /\ client' = 0 /\ initializingClient' = 0
       /\ UNCHANGED <<starting, waiting, visible, losses>>

(* A call of stop returns when its clients are closed and startOnce has    *)
(* settled.                                                                *)
StopReturned(k) ==
    /\ \A c \in closedBy[k] : process[c] = "exited"
    /\ starting.at = "idle"

SidecarSteps ==
    \/ Start \/ RestartTimerFires \/ StabilityFires
    \/ Spawn \/ ResolveFails \/ Initialized \/ InitializeFails
    \/ \E c \in Clients : Dies(c) \/ FinishBegins(c) \/ FinishEnds(c)

-----------------------------------------------------------------------------
(* Every variable of the supervisor stays in its type. *)
SidecarTypeOK ==
    /\ process \in [Clients -> {"none", "running", "closing", "dying", "exited"}]
    /\ client \in Clients \cup {0} /\ initializingClient \in Clients \cup {0}
    /\ starting \in [at : {"idle", "resolving", "initializing", "closing"}, client : Clients \cup {0}]
    /\ {waiting, shuttingDown} \subseteq BOOLEAN
    /\ policy \in [failures : 0..MaxFailures, restart : BOOLEAN, stability : Clients \cup {0}]
    /\ losses \in 0..MaxFailures
    /\ closedBy \in Seq(SUBSET Clients)
    /\ visible \in Contexts \cup {None}

(* There is never more than one sidecar process: a restart waits for the   *)
(* old child's exit, however start, restart callbacks, failing             *)
(* initialisations and closes interleave (start, scheduleRestart).  Two    *)
(* would work on one session database.                                     *)
OneSidecar == \A c, d \in Clients : Live(c) /\ Live(d) => c = d

(* A supervisor without a client is never left alone: it is starting one,  *)
(* has a restart scheduled, has used up its restarts, is shutting down, or *)
(* was never started (exit handler, catch block, scheduleRestart).         *)
NeverAbandoned ==
    client = 0 /\ starting.at = "idle" /\ ~shuttingDown /\ process[1] # "none"
        => policy.restart \/ policy.failures = MaxFailures

(* A lost client or a failed start uses up one restart at most, although   *)
(* the exit handler and the catch block both schedule one for it           *)
(* (RestartPolicy.scheduleRestart).                                        *)
FailureCountsOnce == policy.failures <= losses
=============================================================================
