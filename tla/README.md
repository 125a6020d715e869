# Verification of Axiom Desktop

TLA+ models of the concurrent core of Axiom Desktop and AxiomCLI, the TLC runs
that check them on small instances, and TLAPS proofs of their central
properties for every instance. Paths below are relative to the repository
(`src/` here); `PROJECT.json` maps every definition to the lines it models.

## The system

AxiomCLI (`apps/axiomcli`, Rust) is the native runtime: an agent loop over an
attested model provider, tools, a local SQLite store for each account, and an
ACP (JSON-RPC) server. Axiom Desktop (`apps/desktop`, Electron) runs AxiomCLI as
a sidecar process and talks to it through `packages/axiom-acp-client`; its chat
interface is in `packages/chat-core` and `packages/chat-ui`. A local
OpenAI-compatible proxy, an updater and an installer complete it.

| Component | State | Operations | Hard because |
|---|---|---|---|
| Turn steering (`steering.rs`, `agent.rs`, `acp/prompts.rs`) | inbox, submissions and their waiters, event channel, journal | submit, take, commit and acknowledge, finish-if-empty, close, cancel | clients, agent loop, driver and cancellation interleave; retries; failing appends |
| Account switch (`session/connection.rs`, `acp.rs`, `acp/account.rs`) | store generation and connection, tracker of live work, session registry, transition lock | register, bind, operate, publish, begin, drain, close, open, finish | delayed operations, wake-ups, a barrier that must open again |
| Native session (`auth.rs`) | identity and generation of each process, stored refresh token, file lock | refresh, login, validate, sign out, keyring calls | several processes, lost answers, keyring calls that outlive their timeout |
| Session store (`session/*.rs`) | threads, turns, timeline items | append, truncate, recover, load, export | crashes in a turn, a second process on the same database |
| Message queue (`packages/chat-core/src/messageQueue.ts`) | outbox items, paused threads, operations, interruptions | reserve, ready, dispatch, send now, pause, remove, restore | every await may return to another account or runtime |
| Sidecar supervisor (`agent-sidecar.ts`, `restart-policy.ts`) | client, initialising client, timers, failure count | start, exit, restart, stop | exits at every point of a start |
| Proxy supervisor (`proxy-supervisor.ts`) | child, generation, pending start | start, stop, account change, dispose | launches that finish for a past generation |
| Updates (`updates.rs`, `updates/*.rs`, `axiom-update-client`, `axiom-installation`, `update-service.ts`) | installed version, accepted feed, staging directories, installation lock, phase of the Desktop's update | check, accept, stage, hand off, wait, install, record, relaunch, cancel | processes that replace each other, two updaters, deadlines, running work |
| Agent loop (`agent.rs`, `session/projection.rs`, `acp/prompts.rs`) | history of each thread, the running turn's copy, calls to handle, session grants, event channel | request, call, approve, compact, steer, stop, fail, restore | a turn may end at any await, with part of its events stored |
| Tools, MCP, provider, secure client, proxy, TUI, renderer | see `PROJECT.json` | | mostly I/O, parsing, cryptography or rendering |

How they interact: an ACP prompt reserves its session in the registry and a
guard in the account tracker, then drives the agent future inside its own select
loop; steering reaches the agent through the turn's inbox and the journal through
the driver, which appends every event to the thread's rows in one transaction. An
account change cancels the guards, drains them, replaces the database of the
shared `SessionStore`, and opens the barrier. The native session decides which
account is valid, and hands bearers to running work. On the Desktop the main
process supervises two children, the sidecar and the proxy; what the sidecar
reports decides which account the proxy may serve. The renderer's message queue
holds what the user has written until the sidecar's transcript shows it. An update
closes both children and hands over to a helper process that outlives them all.

What makes each correct:

- steering: a client is told the truth about its message, once, and every
  accepted message is committed in order or reported as not applied;
- account switch: no data of one account is written to, or published for,
  another, and every switch ends;
- native session: a rotating refresh token is never presented twice, a peer's
  credential is never destroyed, and running work never gets another account's
  bearer.

- session store: what a reader finds in the database is a legal history of the
  thread, whatever dies, fails or is opened twice in the middle of a turn;
- agent loop: what the model is shown is well formed, survives a restart, and says
  which turns did not complete;
- message queue: nothing is sent that the user has not asked for, or for another
  account, and nothing is lost;
- supervisors: one child of each kind, none forgotten, none left behind;
- updates: helpers install one at a time, only newer releases, from verified files,
  with nobody running from the installation, and the user gets the application back.

The hazards are listed, at their lines, in `PROJECT.json`.

## Modules

### TurnSteering

One prompt turn. `closed`, `bytes`, `pending`, `subs` and `channel` are the
fields of `TurnSteering`'s `State` and the oneshot channels of its waiters;
`agent`, `held` and `context` are the agent loop; `events`, `journal`, `driver`
and `outcome` the prompt driver; `asked`, `reply` and `accepted` what clients sent
and saw.

- `SteerTurn` is the handler with `submit`, including retries and the two limits;
  `Answers` are the tasks that answer a request later.
- `Agent...` actions are the safe boundaries of the loop: the check for
  cancellation, `take_pending`, one event for each message, the model call, tools,
  and `finish_if_empty` after the last reply. They need the driver in its select
  loop, because the driver polls the agent's future.
- `Driver...` actions are the event commit (emit, append, acknowledge), a failing
  append, the run's result, cancellation, draining and release.

Messages are pairs of an identifier and a text; the bytes of a text are given by
a constant function. Model and tool contents are left out. Events other than
`SteeringApplied` only pass through the same channel and are left out too, so
`Capacity = 1` makes the agent wait for the driver in every order.

### AccountSwitch

The whole life of account changes in one ACP server. `generation`, `account`,
`connection` are `StoreState`; `switching`, `excluded`, `active` are the
`AccountWorkTracker`; `accountSwitching`, `sessions` the registry; `transition`
is who holds the `account_transition` lock.

Store works (`AccountStoreWork`) check their binding before, during and after
their operation and publish under the tracker's lock. Prompts use the unbound
store, protected only by their guard. Handlers (`account_status`,
`native_login_complete`, `logout`) and the `/login` and `/logout` commands switch
the account in the steps of the code: lock, begin, publish the reset, drain in a
loop around `Notified`, close, open, finish. A completed login may be revalidated
and deactivated by a second switch. `DrainTimeout` is enabled only when nothing
left to drain listens to its cancellation, since thirty seconds are ample for
cancelled work to stop.

The prompt handler reserves its session and then registers its guard; no `await`
separates the two, and the ACP connection polls its handlers and the tasks they
spawn in one task, so they are one step.

### NativeSession

Several processes (managers) share one stored refresh token. For each of them:
the fields of `AuthState`, the operation it runs under `AuthShared::operations`
(`pc`, `kind`, `expected`, `bundle`...), a pending browser login and a validation.
Shared: `keyring`, the audience `lock`, and `late`, a blocking keyring call that
outlived its timeout and owns a clone of the lock. The server issues tokens with
increasing numbers and remembers those that were presented.

Faults (a lock that cannot be taken, a load, save or delete that fails or is
late) are a constant set, so that a run can choose them. `RefreshLost` covers lost
answers, error statuses and unusable bodies: the code treats them alike. Taking
the lock and reading the keyring are one step, because only the lock's holder
touches the keyring. The history variables `reused`, `abandoned`, `home`, `told`
and `strays` exist for the properties only.

### Transcript, ThreadJournal

`Transcript` is what the session store promises of one thread: an ordered list of
messages and replies; a turn runs, ends once, or is interrupted, and a revision cuts
a suffix. `ThreadJournal` is the database: `turns`, `items` (the rows of
`timeline_items` with status, kind, external id, text and verification), `requests`
(`request_usage`) and the thread's `revision`. Each process has a kernel with its
active turn and what it has read. Every event of `persist_event` that changes rows
is an action and runs in one transaction, which may also fail (`AppendFails`): the
driver then gives up the turn. `Open` is `interrupt_incomplete_turns` of a process
that starts; `Crash` loses everything in memory. `ImplementsTranscript` is the
refinement: the mapping reads the turns and the rows back as a transcript.

Texts are sequences of request ids, which is all that verification tells apart.
There is no lock between processes (two terminals share one database), so a second
`Open` may interrupt a live turn. The model keeps what then happens: later deltas
make new rows under the interrupted turn, its end can no longer be written, and
those rows stay open if the next open finds no running turn (`recovery.rs:47`).

### Conversation

The context of one thread. `history` is the entry of `AgentEngine::histories`,
`messages` the copy a running turn works on, `queue` and `observations` the batch of
calls it handles, `channel` the events on their way to the driver, `rows` and
`status` the thread in the database, `grants` the session grants. The actions are the
steps of `run`, one for each place where it awaits or returns: setup, compaction
before a prompt, between requests and at the end, the request, each way a call is
answered (skipped, refused, approved, failed closed, run), and each end: complete,
failed with the copy saved (`Saves`), failed by an early return (`Drops`), declined or
stopped with the history rebuilt from the rows (`Cancels`). `Restored` is
`project_runtime_events` followed by `restore_session`; it and `StoredAfter` are written
as recursive functions, so that they can be proved about. `Restart` and `StoreFails`
cut the channel at any event; a failing store may find that the agent has already
saved its copy (`MaySave`).

A message is reduced to the facts it holds (prompts, steering inputs, results) and
the calls it makes; a summary holds the facts of what it replaces, since the quality
of a summary is the model's. Nothing reads the rows while a turn runs, so the driver's
appends are applied when the turn ends, how many of them being chosen there.
`TurnSteering` has the inbox in detail and `ThreadJournal` the rows; here a turn
takes at most one steering input.

### MessageQueue

The renderer's outbox for one thread: `mq` holds the fields of `MessageQueue`
(items and their status, paused, freshSends, interruption, generation, account and
runtime) with the calls in flight (`dispatches`, `interrupts`, `restores`,
`submissions`), and the saved outbox and payloads of each account. `native` is
the agent behind it: signed-in account, runtime, session, transcript rows. Every
`await` of the code ends one action and starts another, and anything may happen
between: a state notification, sign-out, a restarted sidecar, Stop, Remove, Send now.
`faults` counts failing writes, reads and calls. `consent`, `unasked` and `gone`
are history: what the user has asked for, what was sent without it, what the
user has removed. A notification applies the latest native state, as the store does.
Only the desktop's host is modelled (`persistQueue` on).

### SidecarSupervisor, ProxySupervisor, DesktopMain

`SidecarSupervisor` has the children as `process`, the fields of `AgentSidecar`
and of `RestartPolicy`, and where `startOnce` is. A child may die, hang, or end in
two steps (Windows: the tree is killed before the exit is published; `Finishes`).
`ProxySupervisor` has the children as `proxies`, the generation, the pending start
and the calls of `stop` that have not returned. What an answered promise continues
with runs before the next event (`NothingToContinue`), as in Node's microtask
queue. `DesktopMain` composes them: each state that the sidecar publishes is an
account change for the proxy in the same step, and quitting stops both.

### NativeUpdate, DesktopUpdate

`NativeUpdate` is the updater as files and processes: the installation, the accepted
sequence, one staging directory and one job for each owner (the Desktop, terminals,
`axiomcli update` commands), and the processes that hold the installation lock,
shared or exclusive. Locks are the kernel's, so a death releases them, and every
process may die at every step. The installer itself (`sh`, `pkexec apt-get` or
`pacman`, the NSIS setup, `osascript`; `apply.rs:180-231`) is a child of the helper that
has no lock and is not killed with it. When its helper dies it becomes one of the
`orphans`, the releases of such installers, and works on (`OrphanWorks`), as long as it
likes and whoever runs or installs meanwhile: it leaves the files as they are, replaces
them, or leaves a part of both, and its directory is no longer locked. The set is exact,
as two orphans of one release do what one that goes on does. It may also end with its
helper, as the copy of an AppImage does, which is no child. Any version may be fetched
at any time: a feed may be late, and one that has all versions from the start allows
every order. `DesktopUpdate` adds `UpdateService`: check or prepare, wait for
work to end, flush drafts, start the helper, restart. Its gate, its chats and its
proxy are there for the question whether the restart spares them.

A release is its version. `last-update.json` is only shown, so only the failure to
write it is modelled. The Desktop, once it goes on to close, is assumed to be gone
within the helper's three minutes; the Electron process itself holds no lock.

## Runs

| Run | Checks | Bounds |
|---|---|---|
| `steering` | `TypeOK`, `AppliedIsCommitted`, `NotAppliedIsNotCommitted`, `JournalIsPrefixOfAccepted`, `SuccessLosesNothing`, `EveryRequestIsAnswered` | three requests over three ids and two texts: retries, reuse of an id with other text, a full inbox (two messages or three bytes) and a full channel all happen; requests and ids are interchangeable, so `MCInOrder` lets them appear in one order only |
| `account_switch` | `TypeOK`, `WritesStayHome`, `NoPublicationAfterReset`, `StoreChangesOnlyWhenDrained`, `SwitchSettles` | two accounts, one store work, one prompt that may ignore cancellation, one command, one handler, four generations: a switch away and back fits, and two switches compete |
| `account_switch_command` | `SwitchAlwaysSettles` is violated | one command, one handler |
| `native_session` | `TypeOK`, `NoTokenReuse`, `KeyringIsUsable`, `CachedBearerIsHome`, `GenerationNamesIdentity` | two managers, one of them with work and validations, two accounts, three tokens and generations, saves that fail or answer late; the other faults are in `native_faults`, and the theorems cover late deletes too |
| `native_faults` | `CredentialNotClobbered` | every fault, two tokens |
| `native_login_overtakes` | `PeerBearerStaysAway` is violated | no keyring call fails, four tokens and generations |
| `journal` | `UnfinishedIsDriven`, `VerifiedIsWhole`, `RevisesWhatWasSeen`, `ImplementsTranscript` | two processes, two turns, two requests, two rows of each kind of event, two openings: a second process interrupts a live turn, a turn is split by steering and tools, a revision races a turn |
| `conversation` | `RequestsAnswerCalls`, `RestartKeepsContext`, `UnfinishedTurnIsMarked` | two turns of two requests, batches of two calls, four requests and calls in all, one death or failed transaction, a tool of each kind (free, asked for, refused): a batch is cut between its calls, a turn follows a stopped, failed or compacted one |
| `outbox` | `NothingSentUnasked`, `OneDispatchAtATime`, `MessagesStayWithTheirAccount`, `OutboxIsDurable`, `SendNowIsDriven` | two messages, two accounts, two changes of context, one interruption and one failure, or two interruptions (`MCBound`): a late answer meets a second interruption |
| `desktop` | `TypeOK`, `OneChildEach`, `SupervisionGoesOn`, `FailureCountsOnce`, `TokenIsCurrent`, `NothingOutlivesQuit`, `QuitCompletes` | two children of each kind, the code's three restarts, four generations of the proxy, two calls of stop; the restarts that need more children are cut off by `MaxClients` |
| `updates` | `HelperIsAlone`, `PayloadStays`, `OnlyOrphansDowngrade`, `DesktopComesBack` | the Desktop and one terminal, three versions: both may hold a job for a different release, and an orphan of the second may finish after the third is installed; `MaxBusy` is 1 |
| `updates_force_close` | `NoWorkForcedClosed` is violated | the Desktop and a command, two versions, `MaxBusy` 3 |

The bounds named `Max...` cap counters the code does not bound (`MaxFailures` is the
code's own). `MaxBusy` is one on concurrency: work, the proxy and a terminal's job begin
only while fewer than that many of them and of orphans are under way (`Room`). With 1, a
terminal's job that has begun, new jobs of the Desktop and new sidecars still meet
orphans of either owner, and the theorems hold for every value. Two managers and two accounts give every pair of conflicting operations
and every change of identity; a third token lets a token be rotated twice. Deadlock
checking is off: a thread, a turn, a switch, a session, a queue and a job may all come to rest.

`OneDispatchAtATime`, `UnfinishedIsDriven`, `HelperIsAlone` and `RequestsAnswerCalls`
include the `TypeOK` of their modules.

Findings, each shown by a violation run:

- A `/login` or `/logout` command that waits for `account_transition` holds its own
  guard and is not cancellable there, so the switch that holds the lock cannot
  drain it: it times out after thirty seconds and leaves the barrier closed, and
  every later request is refused (`account_switch_command`).
- A refresh for running work that has passed the check of `external_change_pending`
  waits for the audience lock; a login that is started meanwhile adopts a peer's
  credential, and the refresh then sees no external change and returns the bearer of
  another account to the work (`native_login_overtakes`).
- The documentation says that no active work is forced closed by an update. Running
  work is looked for once, before drafts are saved and the helper is started; an
  image regeneration is accepted after that, and a prompt that was waiting for its
  security preflight becomes running after it. The restart stops both
  (`updates_force_close`).

Observations, which the properties except by name because the code allows them and
nothing in the repository says otherwise:

- When a save outlives its timeout and then fails, the consumed token stays in the
  keyring and the next refresh presents it again (`auth.rs:1397`, `:1613`, `:1626`);
  with the faults "slow save" and "slow save error" and three tokens TLC shows it.
- A validation reads the generation after it has leased a bearer, so a sign-out in
  between is followed by setting the account again; a later rotation keeps that
  generation, and a browser login that was pending all the time then replaces a live
  credential of its own manager (four generations, five tokens).
  `CredentialNotClobbered` therefore asks whether the credential is the one the
  operation read, not whether somebody still wants it.
- A login that cannot read the keyring clears its manager, the mark
  `external_change_pending` included, under a rotation that is under way; the
  rotation then commits a peer's bearer unmarked (`LoginsReachKeyring` below).
- Opening the database interrupts turns of other live processes. What such a turn
  still writes is not covered by `VerifiedIsWhole` and the second part of
  `UnfinishedIsDriven` (`disowned`). A turn whose end could not be written stays
  running in the database, and blocks revisions, until the next open (`stranded`).
- A call that was stopped, or cut off by a crash, before it had output has no reply in
  the rebuilt history, and neither has one whose output was empty
  (`projection.rs:282`), although providers want a reply before the next message of the
  user (`agent.rs:2710`); `RequestsAnswerCalls` excepts calls whose row has no output.
- A turn that returns early (no model, step limit, repeated call, wall-clock limit,
  context budget, failed compaction between requests) does not save its copy: the prompt
  and its results are in the timeline but not in the model's context until the thread is
  loaded again (`dropped` in `RestartKeepsContext`).
- When the end of a completed turn cannot be stored, memory takes it as complete and the
  timeline as failed or running (`unstored`).
- A save while the outbox is being read back, or after a payload could not be read,
  replaces the saved outbox (`messageQueue.ts:69`, `:118`, `:220`; `clobbered` in
  `OutboxIsDurable`).
- `stop` during the search for the executable is followed by a spawn whose handshake
  has no timeout, so a child that never answers keeps the application from quitting
  (the exception in `QuitCompletes`). A second call of `stop` returns while the first
  is still closing its client; `NothingOutlivesQuit` therefore speaks of all calls.
- A late state of a client that has been replaced is published as disconnected and
  stops the proxy (`agent-sidecar.ts:152`).
- A helper that cannot record its outcome returns before the relaunch, and a helper
  that has been started survives a quit, installs and opens the Desktop again.
- An installer outlives a helper that dies, and holds no lock, although
  `axiom-installation/src/lib.rs:177-178` says that the installer requires an exclusive
  lease. Processes can start and another helper can install while it replaces files or
  waits at its authorization dialog, and afterwards it can put its older version back;
  a helper that has seen the old version can install again what the orphan has installed
  in between (`docs/updates.md:26-28` says that simultaneous helpers do not). Once
  expired, its directory can be pruned under it. `HelperIsAlone` and `PayloadStays`
  speak of installers whose helper lives, and `OnlyOrphansDowngrade` says that nothing
  but an orphan has these effects.
- A process that has loaded the old executable and not yet taken its lease is not seen
  by the exclusive lock, and the Electron process never is.

## Fairness

`TurnSteering`: tokio polls the driver task and every answering task, so they are
weakly fair; provider and tool calls return or hit their deadline, so the agent
is too. Nothing is assumed about clients or cancellation, and the model may call
tools for ever. `AccountSwitch`: tasks are polled, cancelled work other than the
`Stubborn` prompts stops, and a dropped guard notifies. No request has to be made.
`DesktopMain`: a child
that was told to end or killed exits, a launch and a search for an executable end, and
answered promises are continued; a handshake need not end. `DesktopUpdate`: the
event loop carries out the restart, and the helper runs, each of its waits being
bounded by a deadline; it need not survive, and nobody has to start anything.
All fairness is weak.

## Proofs

Every theorem holds for all values of the constants that the module's assumption
allows: any number of requests, processes, accounts, turns, children or releases. Each
rests on one inductive invariant, kept by one lemma for each action or group of
actions. TLC checked the invariants on the runs' instances before they were proved.

`TurnSteeringProofs`: `SteeringTypeCorrect`, `JournalKeepsOrder`,
`AppliedAnswersAreTrue`, `NotAppliedAnswersAreTrue`, `SuccessIsLossless`. The order of
the journal is not inductive. `Pipeline` says that journal, events, the agent's messages
and the inbox together are exactly the accepted messages while the turn runs, and that
the journal stays a prefix afterwards; `Distinct`, that an id is accepted at most once,
because the open inbox remembers every one; `Committed`, that an applied submission, a
sent channel and an applied answer all name a journal entry; `Undelivered` and
`Lossless` say the same of what is not in the journal and of a turn that succeeded.

`AccountSwitchProofs`: `TypeCorrect`, `WritesAreHome`, `ResetEndsPublication`,
`StoreChangesDrained`. Only the holder of `account_transition` is between its lock and
its end (`OneInside`), the barrier is up from begin to finish (`BarrierUp`), nothing but
the switcher's own guard is left after the drain (`NobodyElse`), and so every guard and
every loaded session is of the current activation (`AtHome`).

`NativeSessionProofs`: `NoTokenIsReused` and `KeyringStaysUsable`. The hypothesis
`NoLeftovers` says that keyring loads and deletes do not fail outright and that a late
save does not fail; all other faults, late saves and deletes included, are allowed, and
the first observation above shows that it is needed. `TokenInv` has four parts besides
types. `Exclusion`: at most one critical section, a late call's included, and it belongs
to the lock. `Issued`: every token seen has a number already issued. `Fresh`: the
bundle of an operation in progress is in no other place. `Stored`: what is in the
keyring is usable while the lock is free, is what the holder is about to present, or is
what the holder presented and will replace or remove.

In its second part: `TypeCorrect`, `GenerationsNameIdentities` and
`CredentialsAreMeant`, for every set of faults, and `CacheStaysHome` under
`LoginsReachKeyring` (`start_native_login` neither misses the lock nor fails to load),
which the third observation shows to be needed. The invariant says which operation may
be where (`Kinds`, `Bundles`), that critical sections exclude each other and that a late
call finds in the keyring what it was started on (`Exclusive`), how often an operation
may still change the identity (`Room`), and that a manager which stands for another
account than its work is marked (`Marked`).

`ThreadJournalProofs`: `NothingIsAbandoned`, `VerifiedTextIsWhole`, `RevisionsAreSeen`
and `TranscriptIsImplemented`. The invariant ties the three tables to the drivers: a
driver owns its turn, which runs unless another process interrupted it (`Drivers`,
`Driven`); it streams the only running request of the turn (`Streams`); a row that is
bound to a request holds text of that request only and is marked exactly when the
request is verified (`Texts`); the pieces stored are those streamed (`Counted`); an open
row has a running turn or an interrupted writer (`OpenRows`); and whoever saw the
current revision saw the current rows (`Views`). For the refinement each step is shown
to be a step of `Transcript` or to change nothing that it shows: the lemmas on ranks
(`RankFacts`, `SameMessages`, `MoreMessages`) say what appending, closing or cutting rows
does to the sequence of the user's messages, and `RevisionRevises` that the turns cut in
the database are those whose prompts leave that sequence.

`DesktopMainProofs`: `TypeCorrect`, `OneOfEach`, `SupervisionContinues`,
`OneLossOneRestart`, `TokensAreCurrent`, `QuitLeavesNothing`. The invariant of each
supervisor says whose a live child is: the client in use, the one being started, or one
that a call of `stop` waits for (`Owners`, `Closed`; `Held`, `Empty`, `Waits`); the
composition adds that the proxy's context is the one the sidecar shows.

`MessageQueueProofs`: `NothingGoesUnasked`, `OneDispatch`, `MessagesStayHome`,
`OutboxSurvives`, `SendNowProceeds`. The object's methods call each other, so there is a
lemma for each method before there is one for each action (`SaveKeeps`, `DispatchKeeps`,
`PumpKeeps`, `SyncKeeps`, `SettleKeeps` and so on), all about any object `q`. What they
keep is `Object`, in two halves. `Base` is about the messages: each is listed once, under
its account and with its payload (`Home`); while an outbox is being read back exactly one
restore of the context has the rest of it, none of which anything has touched
(`Reading`); what the outbox owes its user is saved, and listed or still to be read
(`Durable`). `Flow` is about the calls: there is one dispatch of the context (`One`), whose
message is sending and no longer fresh (`Sending`); only the interruption's message is
stopping (`Stopping`), with a call to come until the gate is open (`Awaited`); and
whatever could be sent next has been asked for (`Asked`). Between two steps also
`Pumped` holds: a message waiting to be sent now cannot go yet. The halves need each
other: that nothing is sent unasked rests on a restored message being neither fresh nor
the target of an interruption, which is what `Reading` says. `Dispatch` and `Interrupting`
start from a weaker `Poised`, as their message is not in its place yet. `MessageQueue`
states `Without` by ranks (`Kept`): a lemma about `SelectSeq`, which takes an operator,
could not be instantiated (`KeptFacts`).

`DesktopUpdateProofs`: `InstallingHelperIsAlone`, `PayloadIsKept`, `OlderOnlyFromOrphans`.
One helper holds the installation lock exclusively and then nobody shares it
(`OneInstalls`, `NobodyShares`). `Ahead` deals with the orphans, which the lock does not
stop: what they install has been accepted, so a helper that has passed its last look at
the job installs nothing older than it, even if an orphan changes the files meanwhile.

`ConversationProofs`: `RequestsAnswered`, `ContextKept`, `UnfinishedMarked`, and two
results they rest on, `InvHolds` and `RestoredOK`. What the rows are replayed to is
defined by recursion over them. The library's induction theorems take an operator, which
the provers cannot instantiate, but sets can take its place: `SetInduction` (every set of
numbers with 0 and closed under successor contains them all, from `NatLessThan` being well
founded) gives that a recursive function exists and is unique (`StagesExist`,
`StagesUnique`), hence its value after one more event or row (`StoredSteps`,
`ReplayedSteps`), and `SeqInduction` over the sequences. With it `FoldHolds` shows that
the replay of any timeline keeps the client's input in order, answers each call whose
row has an output, and puts the note behind each turn that did not complete;
`GistHolds`, that what is known afterwards does not depend on how the turns ended; and
`RestoredOK` says so of `restore_session`.

The invariant has to hold for every timeline that a death or a failed transaction may
leave (`Timelines`), not only for the one the turn's end leaves (`Final`). `RecallOK`:
each of them, apart from the facts of the running turn, recalls what the history knows;
`Final` recalls what the copy knows, the prompt included that is stored before the copy
holds it. That is enough because the cases in which a timeline in between is used are
those that excuse the turn (`dropped`, `unstored`) or rebuild the history from it.
`CallsOK`: the call that runs has the last row and no other queued call has one, so that
an output joins the row of its call. `ContextsOK`, `RepliesOK` and `MarksOK` are about the
history and the copy: input in the order of the turns, each call answered before the
next message of the user, or queued with nothing of the user behind it (`Waiting`), and
the note behind each unfinished turn. There is a lemma for each kind of end of a turn
(`DropsKeep`, `SavesKeep`, `CancelsKeep`, `TurnOver`) and one for a step of a turn
that goes on (`WorkGoesOn`) before there is one for each action. The assumption
`MaxBatch # 0` gives a steering input its name.

What the proofs changed. An attempt to prove `CredentialNotClobbered` in an earlier form
led to the second observation, and `PeerBearerStaysAway` turned out to be false with a
fourth token, beyond the bounds it had been checked with; the finding
`native_login_overtakes` is its counterexample, and `CachedBearerIsHome` what does hold.
`VerifiedIsWhole` had excepted turns removed by a revision, but a revision may also cut
a later part of an earlier turn: the text that counts is now what no revision cut.

Only model-checked: the liveness properties `EveryRequestIsAnswered`, `SwitchSettles`,
`QuitCompletes` and `DesktopComesBack`, as there is no support for fairness and `ENABLED`.
Every invariant and every action property of a passing run is a theorem.

## Not modelled

A crash of a process between the rotation of a token and its save (nothing in the code
could help), the automation key, the revision numbers of account snapshots, account
leases, PKCE and the loopback listener, and the contents of prompts, model replies and
tool calls. A server that revokes a session is a refusal at any time. In the agent loop:
structured questions, the image catalogue, token estimates (whether a context must be
compacted is a free choice), the restore for a revised message, titles and model
settings; a response speaks or calls tools, not both. In the session store: title
generation, `reconcile_request_usage`, collections, archive and delete, background tasks
and plan rows. In the updater: signatures, the choice of an artifact, the platform
installers' inside, the first-launch path and `axiom-setup`. The ACP client's fold of
notifications into a snapshot, the tools' effects, MCP, the rules of the policy, the
provider and its attestation, the proxy's translation, the terminal UI and the
renderer's views are parsing, I/O, cryptography or rendering for the most part; they are
listed in `PROJECT.json` with the reason.

## Plan

1. The ACP client's timeline: a refresh that joins an older one (`client.ts:551`).
2. A second handler in `account_switch`.
