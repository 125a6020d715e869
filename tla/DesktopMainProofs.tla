-------------------------- MODULE DesktopMainProofs --------------------------
(***************************************************************************)
(* The desktop's supervisors, for any number of children, restarts, calls  *)
(* and accounts: there is never more than one sidecar and one proxy, none  *)
(* outlives a quit that has returned, a lost sidecar is not abandoned and  *)
(* costs one restart, no announced status is stuck, and the proxy's token  *)
(* belongs to the account and the agent in use.                            *)
(***************************************************************************)
EXTENDS DesktopMain, TLAPS

-----------------------------------------------------------------------------
(* The sidecar supervisor's inductive invariant.                           *)

SidecarTypes ==
    /\ process \in [Clients -> {"none", "running", "closing", "dying", "exited"}]
    /\ client \in Clients \cup {0} /\ initializingClient \in Clients \cup {0}
    /\ starting \in [at : {"idle", "resolving", "initializing", "closing"}, client : Clients \cup {0}]
    /\ waiting \in BOOLEAN /\ shuttingDown \in BOOLEAN
    /\ policy \in [failures : 0..MaxFailures, restart : BOOLEAN, stability : Clients \cup {0}]
    /\ losses \in 0..MaxFailures
    /\ closedBy \in Seq(SUBSET Clients)
    /\ visible \in Contexts \cup {None}

(* Whose the live child is: the client in use, or the one being started; a *)
(* start that still looks for the executable has none.                     *)
Owners ==
    /\ starting.at = "idle" => starting = Idle
    /\ starting.at = "resolving" => \A c \in Clients : ~Live(c)
    /\ starting.at \in {"initializing", "closing"} => starting.client # 0 /\ Live(starting.client)
    /\ starting.at = "initializing" => process[starting.client] \in {"running", "closing"}
    /\ client # 0 => Live(client) /\ starting = Idle
    /\ initializingClient # 0 => starting = [at |-> "initializing", client |-> initializingClient]
    /\ ~shuttingDown => \A c \in Clients : Live(c) => c \in {client, starting.client}

(* What stop leaves to its own awaits.                                     *)
ClosedBySome(c) == \E k \in DOMAIN closedBy : c \in closedBy[k]

Closed ==
    /\ shuttingDown => closedBy # <<>> /\ client = 0
    /\ shuttingDown => \A c \in Clients : Live(c) => c = starting.client \/ ClosedBySome(c)
    /\ starting.at = "initializing" =>
         \/ initializingClient = starting.client
         \/ shuttingDown /\ ClosedBySome(starting.client)

(* The context on show is one of the client in use.                        *)
Shown == visible # None => shuttingDown \/ (client # 0 /\ visible.runtime = client)

SInv ==
    /\ SidecarTypes /\ OneSidecar /\ Owners /\ Closed /\ Shown
    /\ NeverAbandoned /\ FailureCountsOnce

-----------------------------------------------------------------------------
(* The proxy supervisor's inductive invariant.                             *)

StartPoints == {"idle", "stopping", "launching", "waiting", "discarding", "failing"}

ProxyTypes ==
    /\ context \in Contexts \cup {NoContext}
    /\ generation \in Nat /\ disposed \in Nat
    /\ proxies \in [Proxies -> {"none", "running", "ending", "exited"}]
    /\ launchedFor \in [Proxies -> Contexts \cup {NoContext}]
    /\ child \in Proxies \cup {0} /\ token \in {0, child}
    /\ status \in {"stopped", "starting", "running", "failed", "stopping"}
    /\ pendingStart \in [at : StartPoints, generation : Nat,
                         context : Contexts \cup {NoContext}, proxy : Proxies \cup {0}]
    /\ stopping \subseteq Proxies
    /\ stopCalls \subseteq [generation : Nat, waits : SUBSET Proxies]

(* A call has a generation of its own, and the start that has the current  *)
(* one was made for the context in use.                                    *)
Calls ==
    /\ \A s \in stopCalls : s.generation <= generation
    /\ \A s, t \in stopCalls : s.generation = t.generation => s = t
    /\ pendingStart.generation <= generation
    /\ pendingStart.at = "idle" => pendingStart = NoStart
    /\ pendingStart.at # "idle" => pendingStart.context # NoContext
    /\ pendingStart.at # "idle" /\ pendingStart.generation = generation =>
         pendingStart.context = context

(* Whose a live proxy is: this.child, a stop that waits for it, or a start *)
(* that discards it.                                                       *)
Held ==
    /\ child # 0 => LiveProxy(child)
    /\ \A p \in Proxies : LiveProxy(p) =>
         \/ p = child \/ p \in stopping
         \/ pendingStart.at = "discarding" /\ pendingStart.proxy = p

(* A start launches when everything told to end has exited: its own stop   *)
(* waits for all there is, and afterwards nothing is there.                *)
Empty ==
    /\ pendingStart.at = "stopping" =>
         /\ child = 0
         /\ \A p \in Proxies : LiveProxy(p) =>
              \E s \in stopCalls : s.generation = pendingStart.generation /\ p \in s.waits
    /\ pendingStart.at = "launching" => child = 0 /\ \A p \in Proxies : ~LiveProxy(p)
    /\ pendingStart.at \in {"waiting", "discarding"} =>
         pendingStart.proxy # 0 /\ \A p \in Proxies : LiveProxy(p) => p = pendingStart.proxy

(* A start waits for its own proxy exactly as long as it is current.       *)
Waits ==
    /\ pendingStart.at = "waiting" =>
         \/ /\ child = pendingStart.proxy /\ token = child
            /\ pendingStart.generation = generation
         \/ /\ child = 0 /\ pendingStart.proxy \in stopping
            /\ pendingStart.generation # generation
    /\ pendingStart.at = "discarding" => child = 0

(* The token is one of the context in use. *)
Current == token # 0 => launchedFor[token] = context /\ context # NoContext

(* After dispose a live proxy is awaited by it. *)
Awaited ==
    disposed # 0 => \A p \in Proxies : LiveProxy(p) =>
        \/ \E s \in stopCalls : s.generation = disposed /\ p \in s.waits
        \/ pendingStart.at = "discarding" /\ pendingStart.proxy = p

PInv ==
    /\ ProxyTypes /\ Calls /\ Held /\ Empty /\ Waits /\ Current /\ Awaited
    /\ OneProxy /\ NoOrphanProxy /\ StatusIsDriven

IInv == SInv /\ PInv /\ context = visible

-----------------------------------------------------------------------------
(* The restart policy.                                                     *)

Policies == [failures : 0..MaxFailures, restart : BOOLEAN, stability : Clients \cup {0}]

(* A restart that is scheduled leaves one to come, or none that is left,   *)
(* and counts once.                                                        *)
LEMMA ScheduleFacts ==
    ASSUME NEW p \in Policies, shuttingDown \in BOOLEAN
    PROVE  /\ ScheduleRestart(p) \in Policies
           /\ ~shuttingDown => \/ ScheduleRestart(p).restart
                               \/ ScheduleRestart(p).failures = MaxFailures
           /\ ScheduleRestart(p).failures <= p.failures + 1
           /\ ScheduleRestart(ScheduleRestart(p)).failures <= p.failures + 1
  <1> USE SidecarAssumption DEF Policies
  <1>1. CASE shuttingDown
    BY <1>1 DEF ScheduleRestart
  <1>2. CASE ~shuttingDown /\ (p.restart \/ p.failures >= MaxFailures)
    <2>1. ScheduleRestart(p) = [p EXCEPT !.stability = 0]
      BY <1>2 DEF ScheduleRestart
    <2>2. /\ [p EXCEPT !.stability = 0] \in Policies
          /\ [p EXCEPT !.stability = 0].failures = p.failures
          /\ [p EXCEPT !.stability = 0].restart = p.restart
      OBVIOUS
    <2>3. ScheduleRestart(ScheduleRestart(p)).failures = p.failures
      BY <1>2, <2>1, <2>2 DEF ScheduleRestart
    <2> QED
      BY <1>2, <2>1, <2>2, <2>3
  <1>3. CASE ~shuttingDown /\ ~(p.restart \/ p.failures >= MaxFailures)
    <2> DEFINE q == [failures |-> p.failures + 1, restart |-> TRUE, stability |-> 0]
    <2>1. ScheduleRestart(p) = q
      BY <1>3 DEF ScheduleRestart
    <2>2. q \in Policies /\ q.restart /\ q.failures = p.failures + 1
      BY <1>3
    <2>3. ScheduleRestart(q) = [q EXCEPT !.stability = 0]
      BY <1>3, <2>2 DEF ScheduleRestart
    <2>4. ScheduleRestart(q).failures = p.failures + 1
      BY <2>2, <2>3
    <2> QED
      BY <2>1, <2>2, <2>4
  <1> QED
    BY <1>1, <1>2, <1>3

(* A loss pays for one more failure. *)
LEMMA LossPays ==
    ASSUME SInv, CountLoss, policy' \in Policies, policy'.failures <= policy.failures + 1
    PROVE  losses' \in 0..MaxFailures /\ FailureCountsOnce'
  BY SidecarAssumption DEF SInv, SidecarTypes, FailureCountsOnce, CountLoss, Policies

LEMMA SidecarInitInv == SidecarInit => SInv
  <1> SUFFICES ASSUME SidecarInit PROVE SInv
    OBVIOUS
  <1> USE SidecarAssumption DEF SidecarInit
  <1>1. SidecarTypes
    <2>1. /\ [failures |-> 0, restart |-> FALSE, stability |-> 0]
               \in [failures : 0..MaxFailures, restart : BOOLEAN, stability : Clients \cup {0}]
          /\ losses \in 0..MaxFailures
      OBVIOUS
    <2>2. closedBy \in Seq(SUBSET Clients)
      OBVIOUS
    <2>3. Idle \in [at : {"idle", "resolving", "initializing", "closing"}, client : Clients \cup {0}]
      BY DEF Idle
    <2> QED
      BY <2>1, <2>2, <2>3 DEF SidecarTypes
  <1>2. OneSidecar /\ Owners /\ Closed
    BY DEF OneSidecar, Owners, Closed, Live, Idle
  <1>3. Shown /\ NeverAbandoned /\ FailureCountsOnce
    BY DEF Shown, NeverAbandoned, FailureCountsOnce, Clients
  <1> QED
    BY <1>1, <1>2, <1>3 DEF SInv

-----------------------------------------------------------------------------
(* The steps of the sidecar supervisor.                                    *)

(* A step that only moves the start, the policy or the context.            *)
LEMMA StabilityKeeps ==
    ASSUME SInv, StabilityFires PROVE SInv'
  <1> USE SidecarAssumption DEF SInv, StabilityFires
  <1>0. /\ policy' \in Policies /\ policy'.restart = policy.restart
        /\ policy'.failures \in {0, policy.failures}
        /\ policy'.failures = policy.failures \/ client # 0
    <2>1. policy \in Policies
      BY DEF SidecarTypes, Policies
    <2>2. CASE ~shuttingDown /\ client = policy.stability
      <3>1. policy' = [policy EXCEPT !.stability = 0, !.failures = 0]
        BY <2>2
      <3>2. client # 0
        BY <2>2
      <3>3. /\ [policy EXCEPT !.stability = 0, !.failures = 0] \in Policies
            /\ [policy EXCEPT !.stability = 0, !.failures = 0].restart = policy.restart
            /\ [policy EXCEPT !.stability = 0, !.failures = 0].failures = 0
        <4> HIDE DEF SInv, StabilityFires
        <4>1. 0 \in 0..MaxFailures
          OBVIOUS
        <4> QED
          BY <2>1, <4>1 DEF Policies
      <3> QED
        BY <3>1, <3>2, <3>3
    <2>3. CASE ~(~shuttingDown /\ client = policy.stability)
      <3>1. policy' = [policy EXCEPT !.stability = 0, !.failures = @]
        BY <2>3
      <3> QED
        BY <2>1, <3>1 DEF Policies
    <2> QED
      BY <2>2, <2>3
  <1>1. SidecarTypes'
    BY <1>0 DEF SidecarTypes, Policies
  <1>2. OneSidecar' /\ Owners' /\ Closed' /\ Shown'
    BY DEF OneSidecar, Owners, Closed, Shown, Live, ClosedBySome
  <1>3. NeverAbandoned'
    BY <1>0 DEF NeverAbandoned
  <1>4. FailureCountsOnce'
    BY DEF FailureCountsOnce, SidecarTypes
  <1> QED
    BY <1>1, <1>2, <1>3, <1>4

(* A start begins: nothing is left of an earlier client.                   *)
LEMMA BeginKeeps ==
    ASSUME SInv, starting = Idle, ~shuttingDown, client = 0, starting' = Begins,
           UNCHANGED <<process, client, initializingClient, waiting, shuttingDown, closedBy,
                       visible, losses>>,
           policy' \in Policies, policy'.failures = policy.failures
    PROVE  SInv'
  <1> USE SidecarAssumption DEF SInv
  <1>0. starting' = [at |-> "resolving", client |-> 0]
    BY DEF Begins
  <1>1. SidecarTypes'
    BY <1>0 DEF SidecarTypes, Policies
  <1>2. \A c \in Clients : ~Live(c)
    BY DEF Owners, Idle, Clients
  <1>3. initializingClient = 0
    BY DEF Owners, Idle
  <1>4. OneSidecar' /\ Owners' /\ Closed' /\ Shown'
    BY <1>0, <1>2, <1>3 DEF OneSidecar, Owners, Closed, Shown, Live, ClosedBySome
  <1>5. NeverAbandoned' /\ FailureCountsOnce'
    BY <1>0 DEF NeverAbandoned, FailureCountsOnce
  <1> QED
    BY <1>1, <1>4, <1>5

LEMMA StartKeeps ==
    ASSUME SInv, Start PROVE SInv'
  <1>1. starting = Idle /\ policy' \in Policies
    BY DEF Start, SInv, Owners, SidecarTypes, Policies
  <1> QED
    BY <1>1, BeginKeeps DEF Start

LEMMA RestartTimerKeeps ==
    ASSUME SInv, RestartTimerFires PROVE SInv'
  <1> USE DEF RestartTimerFires
  <1>0. policy' \in Policies /\ policy'.failures = policy.failures
    BY DEF SInv, SidecarTypes, Policies
  <1>1. CASE starting.at = "idle" /\ ~shuttingDown /\ client = 0
    BY <1>0, <1>1, BeginKeeps DEF SInv, Owners
  <1>2. CASE starting.at = "idle" /\ (shuttingDown \/ client # 0)
    <2> USE DEF SInv
    <2>0. starting' = starting /\ UNCHANGED waiting
      BY <1>2 DEF Begins, Owners
    <2>1. SidecarTypes'
      BY <1>0, <2>0 DEF SidecarTypes, Policies
    <2>2. OneSidecar' /\ Owners' /\ Closed' /\ Shown'
      BY <2>0 DEF OneSidecar, Owners, Closed, Shown, Live, ClosedBySome
    <2>3. NeverAbandoned' /\ FailureCountsOnce'
      BY <1>0, <1>2 DEF NeverAbandoned, FailureCountsOnce
    <2> QED
      BY <2>1, <2>2, <2>3
  <1>3. CASE starting.at # "idle"
    <2> USE DEF SInv
    <2>0. starting' = starting /\ waiting' = TRUE
      BY <1>3
    <2>1. SidecarTypes'
      BY <1>0, <2>0 DEF SidecarTypes, Policies
    <2>2. OneSidecar' /\ Owners' /\ Closed' /\ Shown'
      BY <2>0 DEF OneSidecar, Owners, Closed, Shown, Live, ClosedBySome
    <2>3. NeverAbandoned' /\ FailureCountsOnce'
      BY <1>0, <1>3, <2>0 DEF NeverAbandoned, FailureCountsOnce
    <2> QED
      BY <2>1, <2>2, <2>3
  <1> QED
    BY <1>1, <1>2, <1>3

LEMMA SpawnKeeps ==
    ASSUME SInv, Spawn PROVE SInv'
  <1> USE SidecarAssumption DEF SInv
  <1>0. PICK c \in Clients :
          /\ process' = [process EXCEPT ![c] = "running"]
          /\ initializingClient' = c
          /\ starting' = [at |-> "initializing", client |-> c]
    BY DEF Spawn
  <1>1. UNCHANGED <<client, waiting, policy, shuttingDown, closedBy, visible, losses>>
    BY DEF Spawn
  <1>2. client = 0 /\ c # 0 /\ \A d \in Clients : ~Live(d)
    BY DEF Spawn, Owners, Idle, Clients
  <1>3. \A d \in Clients : Live(d)' <=> d = c
    BY <1>0, <1>2 DEF SidecarTypes, Live
  <1>4. SidecarTypes'
    BY <1>0, <1>1 DEF SidecarTypes
  <1>5. process'[c] = "running" /\ starting'.client = c /\ starting'.at = "initializing"
    BY <1>0 DEF SidecarTypes
  <1>6. OneSidecar' /\ Owners'
    BY <1>0, <1>1, <1>2, <1>3, <1>5 DEF OneSidecar, Owners
  <1>7. Closed' /\ Shown'
    BY <1>0, <1>1, <1>2, <1>3, <1>5 DEF Closed, Shown
  <1>8. NeverAbandoned' /\ FailureCountsOnce'
    BY <1>1, <1>5 DEF NeverAbandoned, FailureCountsOnce
  <1> QED
    BY <1>4, <1>6, <1>7, <1>8

(* startOnce has failed and a restart is scheduled: another start begins   *)
(* at once when a restart callback waited, unless the application stops;   *)
(* what is still alive then is awaited by stop.                            *)
LEMMA SettleKeeps ==
    ASSUME SInv, starting.at # "idle",
           SettleFailed, CountLoss, visible' = None, client' = client, client = 0,
           policy' \in Policies, policy'.failures <= policy.failures + 1,
           ~shuttingDown => policy'.restart \/ policy'.failures = MaxFailures,
           process' \in [Clients -> {"none", "running", "closing", "dying", "exited"}],
           \A c \in Clients : Live(c)' => Live(c),
           \A c \in Clients : Live(c)' => shuttingDown /\ ClosedBySome(c),
           initializingClient' = 0, UNCHANGED <<shuttingDown, closedBy>>
    PROVE  SInv'
  <1> USE SidecarAssumption DEF SInv
  <1>0. /\ starting' \in {Idle, [at |-> "resolving", client |-> 0]}
        /\ starting' = [at |-> "resolving", client |-> 0] => ~shuttingDown
        /\ waiting' = FALSE
    BY DEF SettleFailed, Begins, Idle
  <1>1. /\ starting'.at \in {"idle", "resolving"} /\ starting'.client = 0
        /\ starting'.at = "idle" => starting' = Idle
        /\ starting'.at = "resolving" => ~shuttingDown
    BY <1>0 DEF Idle
  <1>2. losses' \in 0..MaxFailures /\ FailureCountsOnce'
    BY LossPays
  <1>3. starting' \in [at : {"idle", "resolving", "initializing", "closing"},
                       client : Clients \cup {0}]
    BY <1>0 DEF Idle
  <1>4. SidecarTypes'
    BY <1>0, <1>2, <1>3 DEF SidecarTypes, Policies
  <1>5. OneSidecar'
    BY DEF OneSidecar
  <1>6. Owners'
    BY <1>1 DEF Owners
  <1>7. ClosedBySome(0)' => ClosedBySome(0)
    BY DEF ClosedBySome
  <1>8. Closed'
    BY <1>1 DEF Closed, ClosedBySome
  <1>9. Shown' /\ NeverAbandoned'
    BY DEF Shown, NeverAbandoned
  <1> QED
    BY <1>2, <1>4, <1>5, <1>6, <1>8, <1>9

LEMMA ResolveFailsKeeps ==
    ASSUME SInv, ResolveFails PROVE SInv'
  <1> USE DEF ResolveFails
  <1>1. policy \in Policies /\ shuttingDown \in BOOLEAN
    BY DEF SInv, SidecarTypes, Policies
  <1>2. \A c \in Clients : ~Live(c) /\ ~Live(c)'
    BY DEF SInv, Owners, Live
  <1>3. client = 0 /\ initializingClient = 0
    BY DEF SInv, Owners, Idle
  <1>4. process' \in [Clients -> {"none", "running", "closing", "dying", "exited"}]
    BY DEF SInv, SidecarTypes
  <1> QED
    BY <1>1, <1>2, <1>3, <1>4, ScheduleFacts, SettleKeeps

LEMMA InitializedKeeps ==
    ASSUME SInv, Initialized PROVE SInv'
  <1> USE SidecarAssumption DEF SInv, Initialized
  <1> DEFINE c == starting.client
  <1>0. c \in Clients /\ c # 0 /\ Live(c) /\ client = 0
    BY DEF SidecarTypes, Owners, Idle
  <1>1. starting' = Idle /\ starting'.at = "idle" /\ starting'.client = 0
    BY DEF Idle
  <1>2. visible' \in Contexts \cup {None} /\ (visible' # None => visible'.runtime = c)
    BY <1>0 DEF Contexts
  <1>3. policy' \in Policies /\ policy'.failures = policy.failures
    BY <1>0 DEF SidecarTypes, Policies
  <1>4. SidecarTypes'
    BY <1>0, <1>1, <1>2, <1>3 DEF SidecarTypes, Policies, Idle
  <1>5. \A d \in Clients : Live(d)' <=> Live(d)
    BY DEF Live
  <1>6. OneSidecar' /\ Owners'
    BY <1>0, <1>1, <1>5 DEF OneSidecar, Owners
  <1>7. Closed' /\ Shown'
    BY <1>0, <1>1, <1>2 DEF Closed, Shown
  <1>8. NeverAbandoned' /\ FailureCountsOnce'
    BY <1>0, <1>3 DEF NeverAbandoned, FailureCountsOnce
  <1> QED
    BY <1>4, <1>6, <1>7, <1>8

(* startOnce closes its own client.                                        *)
LEMMA ClosingKeeps ==
    ASSUME SInv, starting.at = "initializing", initializingClient = starting.client,
           initializingClient' = 0, starting' = [starting EXCEPT !.at = "closing"],
           process' \in [Clients -> {"none", "running", "closing", "dying", "exited"}],
           \A c \in Clients : Live(c)' <=> Live(c),
           UNCHANGED <<client, waiting, policy, shuttingDown, closedBy, visible, losses>>
    PROVE  SInv'
  <1> USE SidecarAssumption DEF SInv
  <1>0. /\ starting'.at = "closing" /\ starting'.client = starting.client
        /\ starting' \in [at : {"idle", "resolving", "initializing", "closing"},
                          client : Clients \cup {0}]
        /\ starting.client # 0 /\ Live(starting.client)
    BY DEF SidecarTypes, Owners
  <1>1. client = 0
    BY DEF Owners, Idle
  <1>2. SidecarTypes'
    BY <1>0 DEF SidecarTypes
  <1>3. starting.client \in Clients
    BY <1>0 DEF SidecarTypes
  <1>4. Live(starting.client)'
    BY <1>0, <1>3 DEF Live
  <1>5. OneSidecar'
    BY DEF OneSidecar
  <1>6. Owners'
    BY <1>0, <1>1, <1>4 DEF Owners
  <1>7. \A c \in Clients : ClosedBySome(c)' <=> ClosedBySome(c)
    BY DEF ClosedBySome
  <1>8. Closed' /\ Shown'
    BY <1>0, <1>7 DEF Closed, Shown
  <1>9. NeverAbandoned' /\ FailureCountsOnce'
    BY <1>0 DEF NeverAbandoned, FailureCountsOnce
  <1> QED
    BY <1>2, <1>5, <1>6, <1>8, <1>9

(* startOnce is told that its client, which stop closes, has failed.       *)
LEMMA TakenOverKeeps ==
    ASSUME SInv, starting.at = "initializing", initializingClient # starting.client,
           visible' = None, policy' = ScheduleRestart(policy), CountLoss, SettleFailed,
           process' \in [Clients -> {"none", "running", "closing", "dying", "exited"}],
           \A c \in Clients : Live(c)' <=> Live(c),
           UNCHANGED <<client, initializingClient, shuttingDown, closedBy>>
    PROVE  SInv'
  <1>1. policy \in Policies /\ shuttingDown \in BOOLEAN
    BY DEF SInv, SidecarTypes, Policies
  <1>2. client = 0 /\ initializingClient = 0
    BY DEF SInv, Owners, Idle
  <1>3. shuttingDown /\ ClosedBySome(starting.client)
    BY DEF SInv, Closed
  <1>4. \A c \in Clients : Live(c)' => c = starting.client
    BY DEF SInv, SidecarTypes, Owners, OneSidecar
  <1> QED
    BY <1>1, <1>2, <1>3, <1>4, ScheduleFacts, SettleKeeps

LEMMA InitializeFailsKeeps ==
    ASSUME SInv, InitializeFails PROVE SInv'
  <1> USE DEF InitializeFails
  <1>0. starting.client \in Clients
    BY DEF SInv, SidecarTypes, Owners
  <1>1. CASE initializingClient = starting.client
    <2>1. process' = [process EXCEPT ![starting.client] = "closing"]
      BY <1>1
    <2>2. /\ process' \in [Clients -> {"none", "running", "closing", "dying", "exited"}]
          /\ \A c \in Clients : Live(c)' <=> Live(c)
      BY <1>0, <2>1 DEF SInv, SidecarTypes, Live
    <2> QED
      BY <1>1, <2>2, ClosingKeeps
  <1>2. CASE initializingClient # starting.client
    <2>1. process' = process
      BY <1>2
    <2>2. /\ process' \in [Clients -> {"none", "running", "closing", "dying", "exited"}]
          /\ \A c \in Clients : Live(c)' <=> Live(c)
      BY <2>1 DEF SInv, SidecarTypes, Live
    <2> QED
      BY <1>2, <2>1, <2>2, TakenOverKeeps
  <1> QED
    BY <1>1, <1>2

(* The child is gone: the client in use, the one of the running start, or  *)
(* one that stop has closed.                                               *)
LEMMA ExitKeeps ==
    ASSUME SInv, NEW c \in Clients, Live(c), Exit(c) PROVE SInv'
  <1> USE SidecarAssumption DEF SInv
  <1> DEFINE handled == IF c \in {client, initializingClient} THEN ScheduleRestart(policy) ELSE policy
  <1>0. policy \in Policies /\ shuttingDown \in BOOLEAN /\ c # 0
    BY DEF SidecarTypes, Policies, Clients
  <1>1. /\ process' = [process EXCEPT ![c] = "exited"] /\ visible' = None
        /\ UNCHANGED <<shuttingDown, closedBy>>
    BY DEF Exit, Disconnect
  <1>2. \A d \in Clients : ~Live(d)'
    BY <1>1 DEF OneSidecar, SidecarTypes, Live
  <1>3. process' \in [Clients -> {"none", "running", "closing", "dying", "exited"}]
    BY <1>1 DEF SidecarTypes
  <1>4. CASE starting.client = c
    <2>1. starting.at # "idle" /\ client = 0 /\ client' = 0
      BY <1>0, <1>4 DEF Owners, Idle, Exit
    <2>2. initializingClient' = 0
      BY <1>4 DEF Owners, Exit
    <2>3. handled \in Policies
      BY <1>0, ScheduleFacts
    <2>4. /\ policy' = ScheduleRestart(handled) /\ CountLoss /\ SettleFailed
      BY <1>4 DEF Exit
    <2>5. policy' \in Policies /\ (~shuttingDown => policy'.restart \/ policy'.failures = MaxFailures)
      BY <1>0, <2>3, <2>4, ScheduleFacts
    <2>6. policy'.failures <= policy.failures + 1
      <3>1. CASE c \in {client, initializingClient}
        BY <1>0, <2>4, <3>1, ScheduleFacts
      <3>2. CASE c \notin {client, initializingClient}
        BY <1>0, <2>4, <3>2, ScheduleFacts
      <3> QED
        BY <3>1, <3>2
    <2> QED
      BY <1>1, <1>2, <1>3, <2>1, <2>2, <2>4, <2>5, <2>6, SettleKeeps
  <1>5. CASE starting.client # c
    <2>1. starting = Idle /\ initializingClient = 0
      BY <1>5 DEF SidecarTypes, Owners, OneSidecar, Idle
    <2>2. /\ UNCHANGED <<starting, waiting>> /\ client' = 0 /\ initializingClient' = 0
          /\ policy' = handled
          /\ IF client = c THEN CountLoss ELSE UNCHANGED losses
      <3>1. client \in {0, c}
        BY DEF SidecarTypes, Owners, OneSidecar
      <3> QED
        BY <1>0, <1>5, <2>1, <3>1 DEF Exit
    <2>3. client = c \/ shuttingDown
      BY <1>0, <1>5 DEF Owners
    <2>4. CASE client = c
      <3>1. policy' = ScheduleRestart(policy)
        BY <2>2, <2>4
      <3>2. policy' \in Policies /\ (~shuttingDown => policy'.restart \/ policy'.failures = MaxFailures)
        BY <1>0, <3>1, ScheduleFacts
      <3>3. losses' \in 0..MaxFailures /\ FailureCountsOnce'
        BY <1>0, <2>2, <2>4, <3>1, <3>2, ScheduleFacts, LossPays
      <3>4. SidecarTypes'
        BY <1>1, <1>3, <2>2, <3>2, <3>3 DEF SidecarTypes, Policies
      <3>5. OneSidecar' /\ Owners' /\ Shown'
        BY <1>1, <1>2, <2>1, <2>2 DEF OneSidecar, Owners, Shown, Idle
      <3>6. Closed'
        BY <1>1, <1>2, <2>1, <2>2 DEF Closed, Idle
      <3>7. NeverAbandoned'
        BY <1>1, <3>2 DEF NeverAbandoned
      <3> QED
        BY <3>3, <3>4, <3>5, <3>6, <3>7
    <2>5. CASE client # c
      <3>1. policy' = policy /\ losses' = losses /\ shuttingDown
        BY <1>0, <2>1, <2>2, <2>3, <2>5
      <3>2. SidecarTypes'
        BY <1>1, <1>3, <2>2, <3>1 DEF SidecarTypes
      <3>3. OneSidecar' /\ Owners' /\ Shown'
        BY <1>1, <1>2, <2>1, <2>2 DEF OneSidecar, Owners, Shown, Idle
      <3>4. Closed'
        BY <1>1, <1>2, <2>1, <2>2 DEF Closed, Idle
      <3>5. NeverAbandoned' /\ FailureCountsOnce'
        BY <1>1, <3>1 DEF NeverAbandoned, FailureCountsOnce
      <3> QED
        BY <3>2, <3>3, <3>4, <3>5
    <2> QED
      BY <2>4, <2>5
  <1> QED
    BY <1>4, <1>5

LEMMA FinishBeginsKeeps ==
    ASSUME SInv, NEW c \in Clients, FinishBegins(c) PROVE SInv'
  <1> USE DEF FinishBegins
  <1>0. /\ process' \in [Clients -> {"none", "running", "closing", "dying", "exited"}]
        /\ \A d \in Clients : Live(d)' <=> Live(d)
        /\ \A d \in Clients : d # c => process'[d] = process[d]
        /\ process[c] # "none"
    BY DEF SInv, SidecarTypes, Live
  <1>1. CASE starting = [at |-> "initializing", client |-> c] /\ initializingClient = c
    BY <1>0, <1>1, ClosingKeeps
  <1>2. CASE starting = [at |-> "initializing", client |-> c] /\ initializingClient # c
    BY <1>0, <1>2, TakenOverKeeps
  <1>3. CASE starting # [at |-> "initializing", client |-> c]
    <2> USE SidecarAssumption DEF SInv
    <2>1. UNCHANGED <<client, initializingClient, starting, waiting, policy, shuttingDown,
                      closedBy, visible, losses>>
      BY <1>3
    <2>2. starting.at = "initializing" => starting.client # c
      <3>1. starting = [at |-> starting.at, client |-> starting.client]
        BY DEF SidecarTypes
      <3> QED
        BY <1>3, <3>1
    <2>3. SidecarTypes'
      BY <1>0, <2>1 DEF SidecarTypes
    <2>4. OneSidecar' /\ Shown'
      BY <1>0, <2>1 DEF OneSidecar, Shown
    <2>5. Owners'
      <3>1. starting.at \in {"initializing", "closing"} => starting.client \in Clients
        BY DEF Owners, SidecarTypes
      <3>2. client # 0 => client \in Clients
        BY DEF SidecarTypes
      <3>3. starting.at \in {"initializing", "closing"} => Live(starting.client)'
        BY <1>0, <2>1, <3>1 DEF Owners, Live
      <3>4. client # 0 => Live(client)'
        BY <1>0, <2>1, <3>2 DEF Owners, Live
      <3>5. starting.at = "initializing" => process'[starting.client] = process[starting.client]
        BY <1>0, <2>2, <3>1
      <3> QED
        BY <1>0, <2>1, <3>3, <3>4, <3>5 DEF Owners
    <2>6. Closed'
      BY <1>0, <2>1 DEF Closed, ClosedBySome
    <2>7. NeverAbandoned' /\ FailureCountsOnce'
      <3>1. 1 \in Clients
        BY DEF Clients
      <3>2. process'[1] # "none" => process[1] # "none"
        BY <1>0, <3>1
      <3> QED
        BY <2>1, <3>2 DEF NeverAbandoned, FailureCountsOnce
    <2> QED
      BY <2>3, <2>4, <2>5, <2>6, <2>7
  <1> QED
    BY <1>1, <1>2, <1>3

LEMMA NotifiedKeeps ==
    ASSUME SInv, StateNotified PROVE SInv'
  <1> USE DEF SInv
  <1>0. UNCHANGED <<process, client, initializingClient, starting, waiting, policy,
                    shuttingDown, closedBy, losses>>
    BY DEF StateNotified
  <1>1. visible' \in Contexts \cup {None} /\ (visible' # None => client # 0 /\ visible'.runtime = client)
    BY DEF StateNotified, Contexts, SidecarTypes
  <1>2. SidecarTypes' /\ Shown'
    BY <1>0, <1>1 DEF SidecarTypes, Shown
  <1>3. OneSidecar' /\ Owners' /\ Closed'
    BY <1>0 DEF OneSidecar, Owners, Closed, Live, ClosedBySome
  <1>4. NeverAbandoned' /\ FailureCountsOnce'
    BY <1>0 DEF NeverAbandoned, FailureCountsOnce
  <1> QED
    BY <1>2, <1>3, <1>4

LEMMA StopKeeps ==
    ASSUME SInv, Stop PROVE SInv'
  <1> USE SidecarAssumption DEF SInv
  <1> DEFINE clients == {client, initializingClient} \ {0}
  <1>0. /\ shuttingDown' = TRUE /\ policy' = [policy EXCEPT !.restart = FALSE, !.stability = 0]
        /\ closedBy' = Append(closedBy, clients)
        /\ process' = [c \in Clients |-> IF c \in clients /\ process[c] = "running"
                                         THEN "closing" ELSE process[c]]
        /\ client' = 0 /\ initializingClient' = 0
        /\ UNCHANGED <<starting, waiting, visible, losses>>
    BY DEF Stop
  <1>1. /\ policy' \in [failures : 0..MaxFailures, restart : BOOLEAN, stability : Clients \cup {0}]
        /\ policy'.failures = policy.failures
    BY <1>0 DEF SidecarTypes
  <1>2. clients \in SUBSET Clients /\ closedBy \in Seq(SUBSET Clients)
    BY DEF SidecarTypes
  <1>3. /\ closedBy' \in Seq(SUBSET Clients) /\ Len(closedBy') = Len(closedBy) + 1
        /\ \A k \in DOMAIN closedBy : k \in DOMAIN closedBy' /\ closedBy'[k] = closedBy[k]
        /\ Len(closedBy) + 1 \in DOMAIN closedBy' /\ closedBy'[Len(closedBy) + 1] = clients
    BY <1>0, <1>2
  <1>4. SidecarTypes'
    BY <1>0, <1>1, <1>3 DEF SidecarTypes
  <1>5. \A c \in Clients : Live(c)' <=> Live(c)
    BY <1>0 DEF SidecarTypes, Live
  <1>6. \A c \in Clients : ClosedBySome(c) \/ c \in clients => ClosedBySome(c)'
    BY <1>3 DEF ClosedBySome
  <1>7. OneSidecar'
    BY <1>5 DEF OneSidecar
  <1>8. Owners'
    <2>1. starting.at \in {"initializing", "closing"} => starting.client \in Clients
      BY DEF Owners, SidecarTypes
    <2>2. starting.at \in {"initializing", "closing"} => Live(starting.client)'
      BY <1>0, <1>5, <2>1 DEF Owners, Live
    <2>3. starting.at = "initializing" => process'[starting.client] \in {"running", "closing"}
      BY <1>0, <2>1 DEF Owners
    <2> QED
      BY <1>0, <1>5, <2>2, <2>3 DEF Owners
  <1>9. Closed'
    <2>1. closedBy' # <<>>
      BY <1>2, <1>3
    <2>2. \A c \in Clients : Live(c)' => c = starting.client \/ ClosedBySome(c)'
      BY <1>0, <1>5, <1>6 DEF Closed, Owners, Clients
    <2>3. starting.at = "initializing" => ClosedBySome(starting.client)'
      <3>1. starting.at = "initializing" => starting.client \in Clients /\ starting.client # 0
        BY DEF Owners, SidecarTypes
      <3>2. starting.at = "initializing" =>
              starting.client \in clients \/ ClosedBySome(starting.client)
        BY <3>1 DEF Closed
      <3> QED
        BY <1>0, <1>6, <3>1, <3>2 DEF ClosedBySome
    <2> QED
      BY <1>0, <2>1, <2>2, <2>3 DEF Closed
  <1>10. Shown' /\ NeverAbandoned' /\ FailureCountsOnce'
    BY <1>0, <1>1 DEF Shown, NeverAbandoned, FailureCountsOnce
  <1> QED
    BY <1>4, <1>7, <1>8, <1>9, <1>10

LEMMA SidecarKeeps ==
    ASSUME SInv, SidecarSteps \/ StateNotified PROVE SInv'
  <1>1. ASSUME NEW c \in Clients, Dies(c) \/ FinishEnds(c) PROVE SInv'
    BY <1>1, ExitKeeps DEF Dies, FinishEnds, Live
  <1> QED
    BY <1>1, StartKeeps, RestartTimerKeeps, StabilityKeeps, SpawnKeeps, ResolveFailsKeeps,
       InitializedKeeps, InitializeFailsKeeps, FinishBeginsKeeps, NotifiedKeeps
    DEF SidecarSteps

-----------------------------------------------------------------------------
(* The proxy supervisor.                                                   *)

Statuses == {"stopped", "starting", "running", "failed", "stopping"}
ProxyStates == [Proxies -> {"none", "running", "ending", "exited"}]
Starts == [at : StartPoints, generation : Nat, context : Contexts \cup {NoContext},
           proxy : Proxies \cup {0}]

LEMMA NoStartTyped ==
    /\ NoStart \in Starts /\ NoStart.at = "idle" /\ NoStart.generation = 0 /\ NoStart.proxy = 0
  BY DEF NoStart, Starts, StartPoints

LEMMA ProxyInitInv == ProxyInit => PInv
  <1> SUFFICES ASSUME ProxyInit PROVE PInv
    OBVIOUS
  <1> USE NoStartTyped DEF ProxyInit
  <1>1. ProxyTypes
    BY DEF ProxyTypes, Starts
  <1>2. Calls /\ Held /\ Empty /\ Waits /\ Current /\ Awaited
    BY DEF Calls, Held, Empty, Waits, Current, Awaited, LiveProxy
  <1>3. OneProxy /\ NoOrphanProxy /\ StatusIsDriven
    BY DEF OneProxy, NoOrphanProxy, StatusIsDriven, LiveProxy
  <1> QED
    BY <1>1, <1>2, <1>3 DEF PInv

LEMMA TerminateFacts ==
    ASSUME NEW ps \in ProxyStates, NEW p \in Proxies \cup {0}
    PROVE  /\ Terminate(ps, p) \in ProxyStates
           /\ \A q \in Proxies : Terminate(ps, p)[q] \in {"running", "ending"} <=>
                                 ps[q] \in {"running", "ending"}
           /\ \A q \in Proxies : Terminate(ps, p)[q] = "running" => ps[q] = "running" /\ q # p
  <1>1. CASE p # 0 /\ ps[p] = "running"
    <2>1. Terminate(ps, p) = [ps EXCEPT ![p] = "ending"] /\ p \in Proxies
      BY <1>1 DEF Terminate
    <2> QED
      BY <1>1, <2>1 DEF ProxyStates
  <1>2. CASE ~(p # 0 /\ ps[p] = "running")
    <2>1. Terminate(ps, p) = ps
      BY <1>2 DEF Terminate
    <2>2. \A q \in Proxies : q # 0
      BY DEF Proxies
    <2> QED
      BY <1>2, <2>1, <2>2 DEF ProxyStates
  <1> QED
    BY <1>1, <1>2

(* A call of stop up to its await, with this.child = c and the processes   *)
(* ps: everything that is alive is now told to end and waited for by this  *)
(* call, and no other call is current any more.                            *)
LEMMA StopStep ==
    ASSUME PInv, NEW c \in {0, child}, NEW ps \in ProxyStates,
           \A q \in Proxies : ps[q] \in {"running", "ending"} =>
               LiveProxy(q) /\ (q = child => c = child),
           \A q \in Proxies : ps[q] = "running" => q = c,
           generation' = generation + 1, token' = 0, child' = 0,
           proxies' = Terminate(ps, c), stopping' = stopping \cup ({c} \ {0}),
           stopCalls' = stopCalls \cup {[generation |-> generation + 1, waits |-> stopping']},
           status' \in Statuses, status' # "running",
           launchedFor' = launchedFor, disposed' \in {disposed, generation + 1},
           \/ /\ pendingStart' = pendingStart /\ c = child
              /\ context' \in Contexts \cup {NoContext}
           \/ /\ pendingStart = NoStart /\ context # NoContext /\ context' = context
              /\ pendingStart' = [at |-> "stopping", generation |-> generation + 1,
                                  context |-> context, proxy |-> 0]
           \/ /\ pendingStart.at # "idle" /\ pendingStart.generation = generation
              /\ context' = context
              /\ pendingStart' = [pendingStart EXCEPT !.at = "failing", !.generation = generation + 1]
              /\ pendingStart.at = "discarding" =>
                   ps[pendingStart.proxy] \notin {"running", "ending"}
    PROVE  PInv'
  <1> USE DEF PInv
  <1> DEFINE call == [generation |-> generation + 1, waits |-> stopping']
             A == pendingStart' = pendingStart /\ c = child
             B == /\ pendingStart = NoStart /\ context # NoContext /\ context' = context
                  /\ pendingStart' = [at |-> "stopping", generation |-> generation + 1,
                                      context |-> context, proxy |-> 0]
             C == /\ pendingStart.at # "idle" /\ pendingStart.generation = generation
                  /\ context' = context
                  /\ pendingStart' = [pendingStart EXCEPT !.at = "failing", !.generation = generation + 1]
                  /\ pendingStart.at = "discarding" =>
                       ps[pendingStart.proxy] \notin {"running", "ending"}
  <1>0. A \/ B \/ C
    OBVIOUS
  <1>1. /\ generation \in Nat /\ c \in Proxies \cup {0} /\ pendingStart \in Starts
        /\ pendingStart.generation <= generation
    BY DEF ProxyTypes, Starts, Calls
  <1>2. /\ proxies' \in ProxyStates
        /\ \A q \in Proxies : LiveProxy(q)' => ps[q] \in {"running", "ending"}
        /\ \A q \in Proxies : proxies'[q] # "running"
    BY <1>1, TerminateFacts DEF LiveProxy
  <1>3. \A q \in Proxies : LiveProxy(q)' => LiveProxy(q) /\ (q = child => c = child)
    BY <1>2
  <1>4. /\ stopping' \subseteq Proxies /\ stopping \subseteq stopping'
        /\ call \in [generation : Nat, waits : SUBSET Proxies]
        /\ call.generation = generation + 1 /\ call.waits = stopping'
        /\ stopCalls' = stopCalls \cup {call}
    BY <1>1 DEF ProxyTypes
  <1>5. /\ pendingStart' \in Starts /\ pendingStart'.generation <= generation'
        /\ B => pendingStart'.at = "stopping" /\ pendingStart'.generation = generation + 1
                /\ pendingStart'.context = context /\ pendingStart'.proxy = 0
        /\ C => pendingStart'.at = "failing" /\ pendingStart'.generation = generation + 1
                /\ pendingStart'.context = pendingStart.context
    <2>1. /\ B => pendingStart' \in Starts
          /\ B => pendingStart'.at = "stopping" /\ pendingStart'.generation = generation + 1
                  /\ pendingStart'.context = context /\ pendingStart'.proxy = 0
      BY <1>1 DEF Starts, StartPoints, ProxyTypes
    <2>2. C => /\ pendingStart' \in Starts
               /\ pendingStart'.at = "failing" /\ pendingStart'.generation = generation + 1
               /\ pendingStart'.context = pendingStart.context
      <3> SUFFICES ASSUME C
                   PROVE  /\ pendingStart' \in Starts
                          /\ pendingStart'.at = "failing"
                          /\ pendingStart'.generation = generation + 1
                          /\ pendingStart'.context = pendingStart.context
        OBVIOUS
      <3>1. pendingStart' = [pendingStart EXCEPT !.at = "failing", !.generation = generation + 1]
        OBVIOUS
      <3>2. pendingStart \in Starts /\ generation + 1 \in Nat
        BY <1>1
      <3> HIDE DEF C, PInv
      <3> QED
        BY ONLY <3>1, <3>2 DEF Starts, StartPoints
    <2>3. A => pendingStart' \in Starts /\ pendingStart'.generation <= generation'
      BY <1>1 DEF Starts
    <2>4. pendingStart' \in Starts
      BY <1>0, <2>1, <2>2, <2>3
    <2>5. pendingStart'.generation <= generation'
      BY <1>0, <1>1, <2>1, <2>2, <2>3
    <2> QED
      BY <2>1, <2>2, <2>4, <2>5
  <1>6. ProxyTypes'
    <2>1. context' \in Contexts \cup {NoContext}
      BY <1>0 DEF ProxyTypes
    <2> QED
      BY <1>1, <1>2, <1>4, <1>5, <2>1 DEF ProxyTypes, ProxyStates, Starts, Statuses
  <1>7. Calls'
    <2>1. \A s \in stopCalls : s.generation \in Nat /\ s.generation <= generation
      BY DEF ProxyTypes, Calls
    <2>2. /\ \A s \in stopCalls' : s.generation <= generation'
          /\ \A s, t \in stopCalls' : s.generation = t.generation => s = t
      <3>1. \A s \in stopCalls' : s.generation <= generation'
        BY <1>1, <1>4, <2>1
      <3> SUFFICES ASSUME NEW s \in stopCalls', NEW t \in stopCalls',
                          s.generation = t.generation
                   PROVE  s = t
        BY <3>1
      <3>2. CASE s \in stopCalls /\ t \in stopCalls
        BY <3>2 DEF Calls
      <3>3. CASE s = call /\ t = call
        BY <3>3
      <3>4. CASE s = call /\ t \in stopCalls
        <4>1. t.generation <= generation /\ t.generation = generation + 1
          BY <1>4, <2>1, <3>4
        <4> QED
          BY <1>1, <2>1, <3>4, <4>1
      <3>5. CASE s \in stopCalls /\ t = call
        <4>1. s.generation <= generation /\ s.generation = generation + 1
          BY <1>4, <2>1, <3>5
        <4> QED
          BY <1>1, <2>1, <3>5, <4>1
      <3> HIDE DEF call
      <3> QED
        BY <1>4, <3>2, <3>3, <3>4, <3>5
    <2>3. CASE A
      BY <1>1, <1>5, <2>2, <2>3 DEF Calls
    <2>4. CASE B
      BY <1>5, <2>2, <2>4 DEF Calls
    <2>5. CASE C
      BY <1>5, <2>2, <2>5 DEF Calls
    <2> QED
      BY <1>0, <2>3, <2>4, <2>5
  <1>8. \A q \in Proxies : LiveProxy(q)' =>
          q \in stopping' \/ (A /\ pendingStart.at = "discarding" /\ pendingStart.proxy = q)
    <2> SUFFICES ASSUME NEW q \in Proxies, LiveProxy(q)'
                 PROVE  q \in stopping' \/
                          (A /\ pendingStart.at = "discarding" /\ pendingStart.proxy = q)
      OBVIOUS
    <2>1. CASE q = child
      <3>1. q = c /\ q # 0
        BY <1>3, <2>1 DEF Proxies
      <3> QED
        BY <3>1
    <2>2. CASE q \in stopping
      BY <1>4, <2>2
    <2>3. CASE q # child /\ q \notin stopping
      <3>1. pendingStart.at = "discarding" /\ pendingStart.proxy = q
        BY <1>3, <2>3 DEF Held
      <3>2. ps[q] \in {"running", "ending"}
        BY <1>2
      <3>3. A
        BY <1>0, <3>1, <3>2, NoStartTyped
      <3> QED
        BY <3>1, <3>3
    <2> QED
      BY <2>1, <2>2, <2>3
  <1>9. Held'
    BY <1>8 DEF Held
  <1>10. Empty'
    <2>1. CASE A
      BY <1>3, <1>4, <2>1 DEF Empty
    <2>2. CASE B
      BY <1>4, <1>5, <1>8, <2>2, NoStartTyped DEF Empty
    <2>3. CASE C
      BY <1>5, <2>3 DEF Empty
    <2> QED
      BY <1>0, <2>1, <2>2, <2>3
  <1>11. Waits'
    <2>1. CASE A
      <3>1. pendingStart.at = "waiting" => pendingStart.proxy \in stopping'
        BY <2>1 DEF Waits, Empty
      <3>2. pendingStart.generation # generation'
        BY <1>1 DEF Starts
      <3> QED
        BY <2>1, <3>1, <3>2 DEF Waits
    <2>2. CASE B \/ C
      BY <1>5, <2>2 DEF Waits
    <2> QED
      BY <1>0, <2>1, <2>2
  <1>12. Current' /\ OneProxy' /\ NoOrphanProxy'
    BY <1>2, <1>3 DEF Current, OneProxy, NoOrphanProxy
  <1>13. Awaited'
    <2>1. CASE disposed' = generation + 1
      BY <1>4, <1>8, <2>1 DEF Awaited
    <2>2. CASE disposed' = disposed
      <3> SUFFICES ASSUME disposed # 0, NEW q \in Proxies, LiveProxy(q)'
                   PROVE  \/ \E s \in stopCalls' : s.generation = disposed /\ q \in s.waits
                          \/ pendingStart'.at = "discarding" /\ pendingStart'.proxy = q
        BY <2>2 DEF Awaited
      <3>1. CASE \E s \in stopCalls : s.generation = disposed /\ q \in s.waits
        BY <1>4, <3>1
      <3>2. CASE pendingStart.at = "discarding" /\ pendingStart.proxy = q
        <4>1. A
          BY <1>0, <1>2, <3>2, NoStartTyped
        <4> QED
          BY <3>2, <4>1
      <3> QED
        BY <1>3, <3>1, <3>2 DEF Awaited
    <2> QED
      BY <2>1, <2>2
  <1>14. StatusIsDriven'
    <2>1. \E s \in stopCalls' : s.generation = generation'
      BY <1>4
    <2> QED
      BY <2>1 DEF StatusIsDriven
  <1> QED
    BY <1>6, <1>7, <1>9, <1>10, <1>11, <1>12, <1>13, <1>14

(* What StopStep needs of the processes when stop finds them as they are.  *)
LEMMA AsTheyAre ==
    ASSUME PInv
    PROVE  /\ proxies \in ProxyStates
           /\ \A q \in Proxies : proxies[q] \in {"running", "ending"} => LiveProxy(q)
           /\ \A q \in Proxies : proxies[q] = "running" => q = child
  BY DEF PInv, ProxyTypes, ProxyStates, LiveProxy, NoOrphanProxy

(* The status that a stop shows is not "running" any more.                 *)
LEMMA StopShows ==
    ASSUME PInv, NEW c, NEW ps, NEW shown \in Statuses, StopFrom(c, ps, shown),
           c = 0 => shown # "running"
    PROVE  status' \in Statuses /\ status' # "running"
  BY DEF StopFrom, Statuses

LEMMA NotRunning ==
    ASSUME PInv
    PROVE  status \in Statuses /\ (child = 0 => status # "running")
  BY DEF PInv, ProxyTypes, Statuses, StatusIsDriven

LEMMA SetAccountKeeps ==
    ASSUME PInv, NEW new \in Contexts \cup {NoContext}, SetAccount(new) PROVE PInv'
  <1>1. CASE new = context
    <2>1. UNCHANGED proxyVars
      BY <1>1 DEF SetAccount
    <2> QED
      BY <2>1
      DEF PInv, ProxyTypes, Calls, Held, Empty, Waits, Current, Awaited, OneProxy,
          NoOrphanProxy, StatusIsDriven, LiveProxy, proxyVars
  <1>2. CASE new # context
    <2>1. "stopped" \in Statuses
      BY DEF Statuses
    <2> QED
      BY <1>2, <2>1, AsTheyAre, StopStep DEF SetAccount
  <1> QED
    BY <1>1, <1>2

LEMMA StopProxyKeeps ==
    ASSUME PInv, StopProxy \/ Dispose \/ StartProxy PROVE PInv'
  <1>1. StopFrom(child, proxies, status)
    BY DEF StopProxy, Dispose, StartProxy
  <1>2. status' \in Statuses /\ status' # "running"
    BY <1>1, StopShows, NotRunning
  <1>3. context \in Contexts \cup {NoContext}
    BY DEF PInv, ProxyTypes
  <1>4. CASE StopProxy
    BY <1>2, <1>3, <1>4, AsTheyAre, StopStep DEF StopProxy, StopFrom
  <1>5. CASE Dispose
    BY <1>2, <1>3, <1>5, AsTheyAre, StopStep DEF Dispose, StopFrom
  <1>6. CASE StartProxy
    BY <1>2, <1>3, <1>6, AsTheyAre, StopStep DEF StartProxy, StopFrom
  <1> QED
    BY <1>4, <1>5, <1>6

(* A stop that returns has nothing left to wait for.                       *)
LEMMA StopReturnsKeeps ==
    ASSUME PInv, NEW s \in stopCalls, StopReturns(s) PROVE PInv'
  <1> USE DEF PInv, StopReturns
  <1>1. ProxyTypes'
    BY DEF ProxyTypes
  <1>2. Calls' /\ Held' /\ Waits' /\ Current' /\ OneProxy' /\ NoOrphanProxy'
    BY DEF Calls, Held, Waits, Current, OneProxy, NoOrphanProxy, LiveProxy
  <1>3. \A p \in Proxies : LiveProxy(p) => p \notin s.waits
    BY DEF LiveProxy
  <1>4. \A p \in Proxies : LiveProxy(p)' <=> LiveProxy(p)
    BY DEF LiveProxy
  <1>5. Empty'
    BY <1>3, <1>4 DEF Empty
  <1>6. Awaited'
    BY <1>3, <1>4 DEF Awaited
  <1>7. StatusIsDriven'
    BY DEF StatusIsDriven
  <1> QED
    BY <1>1, <1>2, <1>5, <1>6, <1>7


(* A start ends and leaves nothing that only it held.                      *)
LEMMA EndStep ==
    ASSUME PInv, pendingStart' = NoStart, proxies' \in ProxyStates,
           \A q \in Proxies : LiveProxy(q)' => LiveProxy(q),
           \A q \in Proxies : proxies'[q] = "running" => proxies[q] = "running",
           child # 0 => LiveProxy(child)',
           \A q \in Proxies : pendingStart.at = "discarding" /\ pendingStart.proxy = q =>
                              ~LiveProxy(q)',
           status' \in Statuses, StatusIsDriven',
           UNCHANGED <<context, generation, launchedFor, child, token, disposed, stopping, stopCalls>>
    PROVE  PInv'
  <1> USE NoStartTyped DEF PInv
  <1>1. ProxyTypes'
    BY DEF ProxyTypes, ProxyStates, Starts, Statuses
  <1>2. Calls'
    BY DEF Calls, ProxyTypes
  <1>3. Held'
    BY DEF Held
  <1>4. Empty' /\ Waits' /\ Current'
    BY DEF Empty, Waits, Current
  <1>5. Awaited'
    BY DEF Awaited
  <1>6. OneProxy' /\ NoOrphanProxy'
    BY DEF OneProxy, NoOrphanProxy
  <1> QED
    BY <1>1, <1>2, <1>3, <1>4, <1>5, <1>6

(* The same when the processes and this.child stay as they are.            *)
LEMMA StartEnds ==
    ASSUME PInv, pendingStart' = NoStart, pendingStart.at # "discarding",
           status' \in Statuses, StatusIsDriven',
           UNCHANGED <<context, generation, proxies, launchedFor, child, token, disposed,
                       stopping, stopCalls>>
    PROVE  PInv'
  <1>1. proxies' \in ProxyStates
    BY DEF PInv, ProxyTypes, ProxyStates
  <1>2. \A q \in Proxies : LiveProxy(q)' <=> LiveProxy(q)
    BY DEF LiveProxy
  <1>3. child # 0 => LiveProxy(child)'
    BY DEF PInv, Held, LiveProxy
  <1> QED
    BY <1>1, <1>2, <1>3, EndStep

(* A status that a later call drives does not need the start that ends.    *)
LEMMA DrivenByAnother ==
    ASSUME PInv, pendingStart.generation # generation,
           UNCHANGED <<generation, token, status, stopCalls>>
    PROVE  status' \in Statuses /\ StatusIsDriven'
  BY DEF PInv, ProxyTypes, StatusIsDriven, Statuses

LEMMA LaunchKeeps ==
    ASSUME PInv, Launch PROVE PInv'
  <1> USE DEF Launch
  <1>0. child = 0 /\ \A q \in Proxies : ~LiveProxy(q)
    BY DEF PInv, Empty, OwnStopReturned
  <1>1. CASE pendingStart.generation # generation
    BY <1>1, DrivenByAnother, StartEnds
  <1>2. CASE pendingStart.generation = generation
    <2> USE NoStartTyped DEF PInv
    <2>1. /\ pendingStart' = [pendingStart EXCEPT !.at = "launching"] /\ status' = "starting"
          /\ UNCHANGED <<context, generation, proxies, launchedFor, child, token, disposed,
                         stopping, stopCalls>>
      BY <1>2
    <2>2. /\ pendingStart' \in Starts /\ pendingStart'.at = "launching"
          /\ pendingStart'.generation = pendingStart.generation
          /\ pendingStart'.context = pendingStart.context
      BY <2>1 DEF ProxyTypes, Starts, StartPoints
    <2>3. ProxyTypes'
      BY <2>1, <2>2 DEF ProxyTypes, Starts
    <2>4. Calls'
      BY <2>1, <2>2 DEF Calls
    <2>5. \A q \in Proxies : ~LiveProxy(q)'
      BY <1>0, <2>1 DEF LiveProxy
    <2>6. Held' /\ Awaited' /\ OneProxy'
      BY <1>0, <2>1, <2>5 DEF Held, Awaited, OneProxy
    <2>7. Empty' /\ Waits' /\ Current'
      BY <1>0, <2>1, <2>2, <2>5 DEF Empty, Waits, Current
    <2>8. NoOrphanProxy' /\ StatusIsDriven'
      BY <1>2, <2>1, <2>2 DEF NoOrphanProxy, StatusIsDriven
    <2> QED
      BY <2>3, <2>4, <2>6, <2>7, <2>8
  <1> QED
    BY <1>1, <1>2

LEMMA StartFailedKeeps ==
    ASSUME PInv, StartFailed PROVE PInv'
  <1> USE DEF StartFailed
  <1>1. CASE pendingStart.generation = generation
    BY <1>1, StartEnds DEF StatusIsDriven, Statuses
  <1>2. CASE pendingStart.generation # generation
    BY <1>2, DrivenByAnother, StartEnds
  <1> QED
    BY <1>1, <1>2

(* The launch is over: the process is this.child, or is discarded.         *)
LEMMA LaunchedKeeps ==
    ASSUME PInv, NEW p \in Proxies, Launched(p) PROVE PInv'
  <1> USE NoStartTyped DEF PInv
  <1>0. /\ child = 0 /\ token = 0 /\ p # 0 /\ \A q \in Proxies : ~LiveProxy(q)
        /\ pendingStart \in Starts /\ pendingStart.at = "launching"
    BY DEF Launched, Empty, ProxyTypes, Starts, Proxies
  <1>1. /\ launchedFor' = [launchedFor EXCEPT ![p] = pendingStart.context]
        /\ UNCHANGED <<context, generation, disposed, status, stopping, stopCalls>>
    BY DEF Launched
  <1>2. /\ launchedFor' \in [Proxies -> Contexts \cup {NoContext}]
        /\ launchedFor'[p] = pendingStart.context
    BY <1>0, <1>1 DEF ProxyTypes, Starts
  <1>3. status' # "running"
    BY <1>0, <1>1 DEF StatusIsDriven
  <1>4. CASE pendingStart.generation = generation /\ disposed = 0
    <2>1. /\ proxies' = [proxies EXCEPT ![p] = "running"] /\ child' = p /\ token' = p
          /\ pendingStart' = [pendingStart EXCEPT !.at = "waiting", !.proxy = p]
      BY <1>4 DEF Launched
    <2>2. /\ pendingStart' \in Starts /\ pendingStart'.at = "waiting" /\ pendingStart'.proxy = p
          /\ pendingStart'.generation = generation
          /\ pendingStart'.context = pendingStart.context
      BY <1>0, <1>4, <2>1 DEF Starts, StartPoints
    <2>3. /\ proxies' \in ProxyStates /\ \A q \in Proxies : LiveProxy(q)' <=> q = p
          /\ \A q \in Proxies : proxies'[q] = "running" => q = p
      BY <1>0, <2>1 DEF ProxyTypes, ProxyStates, LiveProxy
    <2>4. ProxyTypes'
      BY <1>1, <1>2, <2>1, <2>2, <2>3 DEF ProxyTypes, Starts, ProxyStates
    <2>5. pendingStart.context = context /\ context # NoContext
      BY <1>0, <1>4 DEF Calls
    <2>6. Calls'
      <3>1. generation <= generation
        BY DEF ProxyTypes
      <3> QED
        BY <1>0, <1>1, <2>2, <2>5, <3>1 DEF Calls
    <2>7. Held' /\ Empty' /\ Waits' /\ Current'
      BY <1>1, <1>0, <1>2, <2>1, <2>2, <2>3, <2>5 DEF Held, Empty, Waits, Current
    <2>8. Awaited' /\ OneProxy' /\ NoOrphanProxy'
      BY <1>1, <1>4, <2>1, <2>3 DEF Awaited, OneProxy, NoOrphanProxy
    <2>9. StatusIsDriven'
      BY <1>1, <1>3, <2>2 DEF StatusIsDriven
    <2> QED
      BY <2>4, <2>6, <2>7, <2>8, <2>9
  <1>5. CASE ~(pendingStart.generation = generation /\ disposed = 0)
    <2>1. /\ proxies' = [proxies EXCEPT ![p] = "ending"] /\ child' = 0 /\ token' = 0
          /\ pendingStart' = [pendingStart EXCEPT !.at = "discarding", !.proxy = p]
      BY <1>0, <1>5 DEF Launched
    <2>2. /\ pendingStart' \in Starts /\ pendingStart'.at = "discarding" /\ pendingStart'.proxy = p
          /\ pendingStart'.generation = pendingStart.generation
          /\ pendingStart'.context = pendingStart.context
      BY <1>0, <2>1 DEF Starts, StartPoints
    <2>3. /\ proxies' \in ProxyStates /\ \A q \in Proxies : LiveProxy(q)' <=> q = p
          /\ \A q \in Proxies : proxies'[q] # "running"
      BY <1>0, <2>1 DEF ProxyTypes, ProxyStates, LiveProxy
    <2>4. ProxyTypes'
      BY <1>1, <1>2, <2>1, <2>2, <2>3 DEF ProxyTypes, Starts, ProxyStates
    <2>5. Calls'
      BY <1>0, <1>1, <2>2 DEF Calls
    <2>6. Held' /\ Empty' /\ Waits' /\ Current'
      BY <1>0, <2>1, <2>2, <2>3 DEF Held, Empty, Waits, Current
    <2>7. Awaited' /\ OneProxy' /\ NoOrphanProxy'
      BY <2>2, <2>3 DEF Awaited, OneProxy, NoOrphanProxy
    <2>8. StatusIsDriven'
      BY <1>0, <1>1, <1>3, <2>2 DEF StatusIsDriven
    <2> QED
      BY <2>4, <2>5, <2>6, <2>7, <2>8
  <1> QED
    BY <1>4, <1>5

LEMMA LaunchFailsKeeps ==
    ASSUME PInv, LaunchFails PROVE PInv'
  <1>0. /\ child = 0 /\ pendingStart.at = "launching"
        /\ context \in Contexts \cup {NoContext}
        /\ UNCHANGED <<context, launchedFor, disposed>>
        /\ \A q \in Proxies : ~LiveProxy(q)
    BY DEF PInv, ProxyTypes, Empty, LaunchFails
  <1>1. CASE pendingStart.generation = generation
    <2>1. /\ StopFrom(child, proxies, status)
          /\ pendingStart' = [pendingStart EXCEPT !.at = "failing", !.generation = generation + 1]
      BY <1>1 DEF LaunchFails, StartFails
    <2>2. status' \in Statuses /\ status' # "running"
      BY <2>1, StopShows, NotRunning
    <2> QED
      BY <1>0, <1>1, <2>1, <2>2, AsTheyAre, StopStep DEF StopFrom
  <1>2. CASE pendingStart.generation # generation
    <2>1. UNCHANGED <<generation, proxies, child, token, status, stopping, stopCalls>>
      BY <1>2 DEF LaunchFails, StartFails
    <2>2. pendingStart' = NoStart
      BY <1>2 DEF LaunchFails, StartFails
    <2> QED
      BY <1>0, <1>2, <2>1, <2>2, DrivenByAnother, StartEnds
  <1> QED
    BY <1>1, <1>2

LEMMA ReadyKeeps ==
    ASSUME PInv, Ready PROVE PInv'
  <1> USE DEF Ready
  <1>1. token # 0
    BY DEF PInv, Waits, Empty
  <1>2. status' \in Statuses /\ StatusIsDriven'
    BY <1>1 DEF StatusIsDriven, Statuses
  <1> QED
    BY <1>2, StartEnds

LEMMA TimeoutKeeps ==
    ASSUME PInv, StartupTimeout PROVE PInv'
  <1> USE DEF StartupTimeout
  <1>1. pendingStart.generation # generation
    BY DEF PInv, Waits
  <1> QED
    BY <1>1, DrivenByAnother, StartEnds

(* An owned proxy fails: its start stops it, or it is told to end.         *)
LEMMA ProxyFailsKeeps ==
    ASSUME PInv, ProxyFails PROVE PInv'
  <1> DEFINE ps == Terminate(proxies, child)
  <1>0. /\ child # 0 /\ child \in Proxies /\ context \in Contexts \cup {NoContext}
        /\ UNCHANGED <<context, launchedFor, disposed>>
    BY DEF PInv, ProxyTypes, ProxyFails
  <1>1. /\ ps \in ProxyStates
        /\ \A q \in Proxies : ps[q] \in {"running", "ending"} <=> LiveProxy(q)
        /\ \A q \in Proxies : ps[q] # "running"
    BY <1>0, AsTheyAre, TerminateFacts DEF LiveProxy
  <1>2. CASE pendingStart.at = "waiting"
    <2>1. pendingStart.generation = generation
      BY <1>0, <1>2 DEF PInv, Waits
    <2>2. /\ StopFrom(child, ps, "failed")
          /\ pendingStart' = [pendingStart EXCEPT !.at = "failing", !.generation = generation + 1]
      BY <1>2, <2>1 DEF ProxyFails, StartFails
    <2>3. status' = "stopping" /\ status' \in Statuses
      BY <1>0, <2>2 DEF StopFrom, Statuses
    <2> HIDE DEF ps
    <2> QED
      BY <1>0, <1>1, <1>2, <2>1, <2>2, <2>3, StopStep DEF StopFrom
  <1>3. CASE pendingStart.at # "waiting"
    <2> USE DEF PInv
    <2>1. /\ token' = 0 /\ status' = "failed" /\ proxies' = ps
          /\ UNCHANGED <<generation, child, pendingStart, stopping, stopCalls>>
      BY <1>3 DEF ProxyFails
    <2> HIDE DEF ps
    <2>2. \A q \in Proxies : LiveProxy(q)' <=> LiveProxy(q)
      BY <1>1, <2>1 DEF LiveProxy
    <2>3. ProxyTypes'
      BY <1>0, <1>1, <2>1 DEF ProxyTypes, ProxyStates
    <2>4. Calls' /\ Waits' /\ Current'
      BY <1>0, <1>3, <2>1 DEF Calls, Waits, Current
    <2>5. Held'
      <3>1. LiveProxy(child)'
        BY <1>0, <1>1, <2>1 DEF Held, LiveProxy
      <3> QED
        BY <2>1, <2>2, <3>1 DEF Held
    <2>6. Empty'
      BY <2>1, <2>2 DEF Empty
    <2>7. Awaited' /\ OneProxy'
      BY <1>0, <2>1, <2>2 DEF Awaited, OneProxy
    <2>8. NoOrphanProxy' /\ StatusIsDriven'
      BY <1>1, <2>1 DEF NoOrphanProxy, StatusIsDriven
    <2> QED
      BY <2>3, <2>4, <2>5, <2>6, <2>7, <2>8
  <1> QED
    BY <1>2, <1>3

(* A proxy exits: the one a start waits for or discards, or another.       *)
LEMMA ProxyExitsKeeps ==
    ASSUME PInv, NEW p \in Proxies, ProxyExits(p) PROVE PInv'
  <1> DEFINE gone  == [proxies EXCEPT ![p] = "exited"]
             left  == IF child = p THEN 0 ELSE child
             shown == IF child = p THEN "failed" ELSE status
             own   == pendingStart.proxy = p /\ pendingStart.at \in {"waiting", "discarding"}
  <1>0. /\ LiveProxy(p) /\ p # 0 /\ context \in Contexts \cup {NoContext}
        /\ UNCHANGED <<context, launchedFor, disposed>>
    BY DEF PInv, ProxyTypes, ProxyExits, Proxies
  <1>1. /\ gone \in ProxyStates
        /\ \A q \in Proxies : gone[q] \in {"running", "ending"} => LiveProxy(q) /\ q # p
        /\ \A q \in Proxies : q # p => gone[q] = proxies[q]
        /\ gone[p] = "exited"
    BY AsTheyAre DEF ProxyStates, LiveProxy
  <1>2. \A q \in Proxies : gone[q] = "running" => q = child /\ q # p
    BY <1>1, AsTheyAre
  <1>3. CASE own /\ pendingStart.generation = generation
    <2>1. /\ StopFrom(left, gone, shown)
          /\ pendingStart' = [pendingStart EXCEPT !.at = "failing", !.generation = generation + 1]
      BY <1>3 DEF ProxyExits, StartFails
    <2>2. left = 0 /\ left \in {0, child} /\ shown \in Statuses /\ shown # "running"
      <3>1. pendingStart.at = "waiting" => child = p
        BY <1>3 DEF PInv, Waits
      <3>2. pendingStart.at = "discarding" => child = 0
        BY <1>3 DEF PInv, Waits
      <3> QED
        BY <1>3, <3>1, <3>2, NotRunning DEF Statuses
    <2>3. status' \in Statuses /\ status' # "running"
      BY <2>1, <2>2 DEF StopFrom
    <2>4. \A q \in Proxies : gone[q] \in {"running", "ending"} =>
            LiveProxy(q) /\ (q = child => left = child)
      BY <1>1
    <2>5. \A q \in Proxies : gone[q] = "running" => q = left
      BY <1>2
    <2>6. pendingStart.at # "idle" /\ gone[pendingStart.proxy] \notin {"running", "ending"}
      BY <1>1, <1>3
    <2> HIDE DEF gone, left, shown
    <2> QED
      BY <1>0, <1>1, <1>3, <2>1, <2>2, <2>3, <2>4, <2>5, <2>6, StopStep DEF StopFrom
  <1>4. CASE own /\ pendingStart.generation # generation
    <2>1. child = 0
      BY <1>4 DEF PInv, Waits
    <2>2. /\ pendingStart' = NoStart /\ child' = left /\ proxies' = gone /\ status' = shown
          /\ token' = (IF left = child THEN token ELSE 0)
          /\ UNCHANGED <<generation, stopping, stopCalls>>
      BY <1>4 DEF ProxyExits, StartFails
    <2>3. child' = child /\ token' = token /\ status' = status
      BY <1>0, <2>1, <2>2
    <2>4. status' \in Statuses /\ StatusIsDriven'
      BY <1>4, <2>2, <2>3, DrivenByAnother
    <2>5. /\ \A q \in Proxies : LiveProxy(q)' => LiveProxy(q) /\ q # p
          /\ \A q \in Proxies : proxies'[q] = "running" => proxies[q] = "running"
      BY <1>1, <1>2, <2>2 DEF LiveProxy
    <2>6. proxies' \in ProxyStates
      BY <1>1, <2>2
    <2>7. \A q \in Proxies : pendingStart.at = "discarding" /\ pendingStart.proxy = q =>
                             ~LiveProxy(q)'
      BY <1>4, <2>5
    <2> QED
      BY <1>0, <2>1, <2>2, <2>3, <2>4, <2>5, <2>6, <2>7, EndStep
  <1>5. CASE ~own
    <2> USE DEF PInv
    <2>1. /\ proxies' = gone /\ child' = left /\ status' = shown
          /\ token' = (IF child = p THEN 0 ELSE token)
          /\ UNCHANGED <<generation, pendingStart, stopping, stopCalls>>
      BY <1>5 DEF ProxyExits
    <2>2. pendingStart.at \notin {"waiting", "discarding"}
      BY <1>0, <1>5 DEF Empty
    <2>3. /\ child' \in Proxies \cup {0} /\ token' \in {0, child'} /\ status' \in Statuses
          /\ child' # 0 => child' = child /\ child # p
          /\ token' # 0 => token' = token
          /\ status' = "running" => status = "running" /\ child # p
          /\ status' \in {"starting", "stopping"} => status' = status
      BY <2>1 DEF ProxyTypes, Statuses
    <2>4. \A q \in Proxies : LiveProxy(q)' <=> LiveProxy(q) /\ q # p
      BY <1>1, <2>1 DEF LiveProxy
    <2>5. ProxyTypes'
      BY <1>0, <1>1, <2>1, <2>3 DEF ProxyTypes, ProxyStates, Statuses
    <2>6. Calls'
      BY <1>0, <2>1 DEF Calls
    <2>7. Held'
      <3>1. child' # 0 => LiveProxy(child)'
        <4>1. child' # 0 => child' \in Proxies /\ child' = child /\ child # p
          BY <2>3
        <4>2. child' # 0 => proxies'[child'] = proxies[child]
          BY <1>1, <2>1, <4>1
        <4> QED
          BY <4>1, <4>2 DEF Held, LiveProxy
      <3>2. \A q \in Proxies : LiveProxy(q)' => q = child' \/ q \in stopping
        BY <2>1, <2>2, <2>4 DEF Held
      <3> QED
        BY <2>1, <3>1, <3>2 DEF Held
    <2>8. Empty'
      BY <2>1, <2>2, <2>3, <2>4 DEF Empty
    <2>9. Waits' /\ Current'
      BY <1>0, <2>1, <2>2, <2>3 DEF Waits, Current
    <2>10. Awaited' /\ OneProxy'
      BY <1>0, <2>1, <2>4 DEF Awaited, OneProxy
    <2>11. NoOrphanProxy'
      BY <1>2, <2>1 DEF NoOrphanProxy
    <2>12. StatusIsDriven'
      BY <2>1, <2>3 DEF StatusIsDriven
    <2> QED
      BY <2>5, <2>6, <2>7, <2>8, <2>9, <2>10, <2>11, <2>12
  <1> QED
    BY <1>3, <1>4, <1>5

LEMMA ProxyKeeps ==
    ASSUME PInv, Continuations \/ ProxyEvents PROVE PInv'
  BY StopReturnsKeeps, LaunchKeeps, StartFailedKeeps, StopProxyKeeps, LaunchFailsKeeps, ReadyKeeps,
     ProxyFailsKeeps, TimeoutKeeps, LaunchedKeeps, ProxyExitsKeeps
  DEF Continuations, ProxyEvents

-----------------------------------------------------------------------------
(* Both together.                                                          *)

(* setAccount takes over the context that it is given. *)
LEMMA SetAccountTakes ==
    ASSUME NEW new, SetAccount(new) PROVE context' = new
  BY DEF SetAccount, proxyVars

LEMMA SInvFrame ==
    ASSUME SInv, UNCHANGED sidecarVars PROVE SInv'
  BY DEF SInv, SidecarTypes, OneSidecar, Owners, Closed, ClosedBySome, Shown, NeverAbandoned,
         FailureCountsOnce, Live, sidecarVars

LEMMA PInvFrame ==
    ASSUME PInv, UNCHANGED proxyVars PROVE PInv'
  BY DEF PInv, ProxyTypes, Calls, Held, Empty, Waits, Current, Awaited, OneProxy,
         NoOrphanProxy, StatusIsDriven, LiveProxy, proxyVars

LEMMA InitInv == Init => IInv
  BY SidecarInitInv, ProxyInitInv, DesktopAssumption
  DEF Init, IInv, SidecarInit, ProxyInit

LEMMA NextKeeps ==
    ASSUME IInv, [Next]_desktopVars PROVE IInv'
  <1> USE DEF IInv
  <1>1. CASE SidecarMoves
    <2>1. SInv'
      BY <1>1, SidecarKeeps DEF SidecarMoves
    <2>2. visible' \in Contexts \cup {NoContext}
      BY <2>1, DesktopAssumption DEF SInv, SidecarTypes
    <2>3. PInv' /\ context' = visible'
      BY <1>1, <2>2, SetAccountKeeps, SetAccountTakes DEF SidecarMoves
    <2> QED
      BY <2>1, <2>3
  <1>2. CASE ProxyMoves
    <2>1. PInv' /\ SInv'
      BY <1>2, ProxyKeeps, SInvFrame DEF ProxyMoves
    <2>2. UNCHANGED context
      BY <1>2
      DEF ProxyMoves, Continuations, ProxyEvents, StopReturns, Launch, StartFailed, StartProxy,
          StopProxy, LaunchFails, Ready, ProxyFails, StartupTimeout, Launched, ProxyExits
    <2>3. UNCHANGED visible
      BY <1>2 DEF ProxyMoves, sidecarVars
    <2> QED
      BY <2>1, <2>2, <2>3
  <1>3. CASE Quit
    BY <1>3, StopKeeps, StopProxyKeeps DEF Quit, Stop, Dispose
  <1>4. CASE UNCHANGED desktopVars
    <2>1. UNCHANGED sidecarVars /\ UNCHANGED proxyVars
      BY <1>4 DEF desktopVars
    <2>2. UNCHANGED <<context, visible>>
      BY <2>1 DEF sidecarVars, proxyVars
    <2> QED
      BY <2>1, <2>2, SInvFrame, PInvFrame
  <1> QED
    BY <1>1, <1>2, <1>3, <1>4 DEF Next

LEMMA Invariance == Spec => []IInv
  <1>1. IInv /\ [Next]_desktopVars => IInv'
    BY NextKeeps
  <1> QED
    BY InitInv, <1>1, PTL DEF Spec

-----------------------------------------------------------------------------
(* Both supervisors keep their variables in their types, whatever exits,   *)
(* fails, starts and stops interleave.                                     *)
THEOREM TypeCorrect == Spec => []TypeOK
  <1>1. IInv => SidecarTypeOK
    BY DEF IInv, SInv, SidecarTypes, SidecarTypeOK
  <1>2. IInv => ProxyTypeOK
    <2> SUFFICES ASSUME IInv PROVE ProxyTypeOK
      OBVIOUS
    <2> USE DEF IInv, PInv
    <2>1. pendingStart.at \in StartPoints /\ pendingStart.proxy \in Proxies \cup {0}
      BY DEF ProxyTypes
    <2>2. \A s, t \in stopCalls : s.waits \subseteq Proxies /\ (s.generation = t.generation => s = t)
      BY DEF ProxyTypes, Calls
    <2> QED
      BY <2>1, <2>2 DEF ProxyTypes, ProxyTypeOK, StartPoints
  <1> QED
    BY <1>1, <1>2, Invariance, PTL DEF TypeOK

(* There is never more than one sidecar process and one proxy process, and *)
(* a proxy that runs is this.child (start, scheduleRestart, startOnce).    *)
THEOREM OneOfEach == Spec => []OneChildEach
  <1>1. IInv => OneChildEach
    BY DEF IInv, SInv, PInv, OneChildEach
  <1> QED
    BY <1>1, Invariance, PTL

(* A lost sidecar is restarted while restarts are left, and "starting" or  *)
(* "stopping" is never the last word on the proxy (scheduleRestart,        *)
(* publish after each await).                                              *)
THEOREM SupervisionContinues == Spec => []SupervisionGoesOn
  <1>1. IInv => SupervisionGoesOn
    BY DEF IInv, SInv, PInv, SupervisionGoesOn
  <1> QED
    BY <1>1, Invariance, PTL

(* One loss, one restart: the exit handler and the catch block of the same *)
(* client together count one failure (RestartPolicy.scheduleRestart).      *)
THEOREM OneLossOneRestart == Spec => []FailureCountsOnce
  <1>1. IInv => FailureCountsOnce
    BY DEF IInv, SInv
  <1> QED
    BY <1>1, Invariance, PTL

(* The proxy's token is one of the account and of the agent in use         *)
(* (setAccount, stateChanged).                                             *)
THEOREM TokensAreCurrent == Spec => []TokenIsCurrent
  <1>1. IInv => TokenIsCurrent
    <2> SUFFICES ASSUME IInv, token # 0 PROVE TokenIsCurrent
      BY DEF TokenIsCurrent
    <2>1. child = token /\ launchedFor[token] = context /\ context # NoContext
      BY DEF IInv, PInv, ProxyTypes, Current
    <2>2. shuttingDown \/ (client # 0 /\ context.runtime = client)
      BY <2>1, DesktopAssumption DEF IInv, SInv, Shown
    <2> QED
      BY <2>1, <2>2 DEF TokenIsCurrent
  <1> QED
    BY <1>1, Invariance, PTL

(* When every call of stop and dispose has returned, no child is left      *)
(* (stop, dispose).                                                        *)
THEOREM QuitLeavesNothing == Spec => []NothingOutlivesQuit
  <1>1. IInv => NothingOutlivesQuit
    <2> SUFFICES ASSUME IInv PROVE NothingOutlivesQuit
      OBVIOUS
    <2> USE DEF IInv, SInv, PInv
    <2>1. ASSUME shuttingDown, \A k \in DOMAIN closedBy : StopReturned(k), NEW c \in Clients, Live(c)
          PROVE  FALSE
      <3>1. closedBy # <<>> /\ closedBy \in Seq(SUBSET Clients)
        BY <2>1 DEF Closed, SidecarTypes
      <3>2. 1 \in DOMAIN closedBy
        BY <3>1
      <3>3. starting = Idle
        BY <2>1, <3>2 DEF StopReturned, Owners
      <3>4. c # starting.client
        BY <3>3 DEF Idle, Clients
      <3>5. PICK k \in DOMAIN closedBy : c \in closedBy[k]
        BY <2>1, <3>4 DEF Closed, ClosedBySome
      <3>6. process[c] = "exited"
        BY <2>1, <3>5 DEF StopReturned
      <3> QED
        BY <2>1, <3>6 DEF Live
    <2>2. ASSUME DisposeReturned, NEW p \in Proxies, LiveProxy(p) PROVE FALSE
      BY <2>2, NoStartTyped DEF DisposeReturned, Awaited
    <2> QED
      BY <2>1, <2>2 DEF NothingOutlivesQuit
  <1> QED
    BY <1>1, Invariance, PTL
=============================================================================
