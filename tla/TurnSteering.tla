---------------------------- MODULE TurnSteering ----------------------------
(***************************************************************************)
(* One running ACP prompt turn and the steering messages clients submit to *)
(* it while it runs.  Four kinds of actors interleave:                     *)
(*                                                                         *)
(*  - steer_turn handlers (acp/prompts.rs) put messages in the turn's      *)
(*    inbox (steering.rs) and a spawned task answers each of them later;   *)
(*  - the agent loop (agent.rs) takes the inbox at every safe boundary,    *)
(*    adds the messages to the model context and sends one event for each; *)
(*  - the prompt driver (acp/prompts.rs) commits each event to the journal *)
(*    and only then acknowledges it to the inbox;                          *)
(*  - cancellation arrives at any time.                                    *)
(*                                                                         *)
(* The driver polls the agent future inside its own select loop, so the    *)
(* agent takes no step once the driver has left that loop, and the future  *)
(* is dropped (closing the inbox) when the driver leaves its async block.  *)
(***************************************************************************)
EXTENDS Naturals, Sequences, FiniteSets

CONSTANTS
    Requests,      \* steer_turn calls; a retry is another request
    Ids,           \* client item identifiers
    Texts,         \* message bodies
    TextBytes,     \* [Texts -> Nat], the size of a body
    MaxPending,    \* MAX_PENDING: inbox length and waiters per message
    MaxTurnBytes,  \* MAX_TURN_INPUT_BYTES
    Capacity       \* APP_EVENT_QUEUE_CAPACITY

ASSUME SteeringAssumption ==
    /\ TextBytes \in [Texts -> Nat]
    /\ MaxPending \in Nat \ {0}
    /\ MaxTurnBytes \in Nat
    /\ Capacity \in Nat \ {0}

VARIABLES
    closed,     \* State.closed
    bytes,      \* State.bytes
    pending,    \* State.pending
    subs,       \* State.submissions
    channel,    \* the oneshot channel of each accepted request
    asked,      \* the message each request carries
    reply,      \* what each request has been answered
    agent,      \* where the agent loop is
    held,       \* messages taken from the inbox and not yet sent as events
    context,    \* steering messages in the agent's `messages`
    events,     \* the AppEvent channel, SteeringApplied events only
    journal,    \* steering messages committed to the session store
    driver,     \* where the prompt driver is
    outcome,    \* the result the driver ends the turn with
    cancelled,  \* work.cancellation
    active,     \* the work is in registry.active_work
    accepted    \* history: every message the inbox accepted, in order

inboxVars == <<closed, bytes, pending, subs, channel>>
clientVars == <<asked, reply, accepted>>
agentVars == <<agent, held, context>>
driverVars == <<events, journal, driver, outcome, active>>
vars == <<inboxVars, clientVars, agentVars, driverVars, cancelled>>

Message == [id : Ids, text : Texts]
NoMessage == [id |-> "none", text |-> "none"]

(* An entry of the submissions map; "none" is an absent entry. *)
Submission == [status : {"none", "waiting", "applied"},
               text : Texts \cup {"none"},
               waiters : SUBSET Requests]
NoSub == [status |-> "none", text |-> "none", waiters |-> {}]
ItemsOf(s) == {s[k] : k \in 1..Len(s)}

Init ==
    /\ closed = FALSE /\ bytes = 0 /\ pending = <<>>
    /\ subs = [i \in Ids |-> NoSub]
    /\ channel = [r \in Requests |-> "none"]
    /\ asked = [r \in Requests |-> NoMessage]
    /\ reply = [r \in Requests |-> "none"]
    /\ accepted = <<>>
    /\ agent = "boundary" /\ held = <<>> /\ context = <<>>
    /\ events = <<>> /\ journal = <<>>
    /\ driver = "loop" /\ outcome = "none" /\ active = TRUE
    /\ cancelled = FALSE

-----------------------------------------------------------------------------
(* TurnSteering::submit, called by steer_turn under the registry lock.     *)

Reject(r, m) ==
    /\ reply' = [reply EXCEPT ![r] = "rejected"]
    /\ UNCHANGED <<inboxVars, accepted>>

(* A retry of a message that was already committed is answered at once. *)
JoinApplied(r, m) ==
    /\ channel' = [channel EXCEPT ![r] = "sent"]
    /\ reply' = [reply EXCEPT ![r] = "waiting"]
    /\ UNCHANGED <<closed, bytes, pending, subs, accepted>>

JoinWaiting(r, m) ==
    /\ subs' = [subs EXCEPT ![m.id] =
                  [status |-> subs[m.id].status, text |-> subs[m.id].text,
                   waiters |-> subs[m.id].waiters \cup {r}]]
    /\ channel' = [channel EXCEPT ![r] = "open"]
    /\ reply' = [reply EXCEPT ![r] = "waiting"]
    /\ UNCHANGED <<closed, bytes, pending, accepted>>

Enqueue(r, m) ==
    /\ bytes' = bytes + TextBytes[m.text]
    /\ pending' = Append(pending, m)
    /\ subs' = [subs EXCEPT ![m.id] =
                  [status |-> "waiting", text |-> m.text, waiters |-> {r}]]
    /\ channel' = [channel EXCEPT ![r] = "open"]
    /\ reply' = [reply EXCEPT ![r] = "waiting"]
    /\ accepted' = Append(accepted, m)
    /\ UNCHANGED closed

(* Mutant: the inbox accepts one message too many. *)
MutHasRoom(m) ==
    /\ Len(pending) <= MaxPending
    /\ bytes + TextBytes[m.text] <= MaxTurnBytes

HasRoom(m) ==
    /\ Len(pending) < MaxPending
    /\ bytes + TextBytes[m.text] <= MaxTurnBytes

(* Mutant: a retry is not recognised by its identifier. *)
MutSubmit(r, m) ==
    IF closed \/ ~HasRoom(m) THEN Reject(r, m) ELSE Enqueue(r, m)

Submit(r, m) ==
    IF subs[m.id].status # "none"
    THEN IF subs[m.id].text # m.text THEN Reject(r, m)
         ELSE IF subs[m.id].status = "applied" THEN JoinApplied(r, m)
         ELSE IF Cardinality(subs[m.id].waiters) < MaxPending
              THEN JoinWaiting(r, m)
         ELSE Reject(r, m)
    ELSE IF closed \/ ~HasRoom(m) THEN Reject(r, m)
    ELSE Enqueue(r, m)

(* steer_turn: the turn must be active and not cancelled.  The Web and     *)
(* Agent-revision mismatches reject without touching the inbox, like a     *)
(* cancelled turn does.                                                    *)
SteerTurn(r, m) ==
    /\ reply[r] = "none"
    /\ asked' = [asked EXCEPT ![r] = m]
    /\ IF active /\ ~cancelled THEN Submit(r, m) ELSE Reject(r, m)
    /\ UNCHANGED <<agentVars, driverVars, cancelled>>

(* The spawned task's biased select: a channel result before cancellation. *)
Answer(r, what) ==
    /\ reply[r] = "waiting"
    /\ reply' = [reply EXCEPT ![r] = what]
    /\ UNCHANGED <<inboxVars, asked, accepted, agentVars, driverVars, cancelled>>

AnswerApplied(r) == channel[r] = "sent" /\ Answer(r, "applied")
AnswerNotApplied(r) == channel[r] = "dropped" /\ Answer(r, "notApplied")
(* Mutant: a stopped turn answers that the message was not applied. *)
MutAnswerStopped(r) == channel[r] = "open" /\ cancelled /\ Answer(r, "notApplied")
AnswerStopped(r) == channel[r] = "open" /\ cancelled /\ Answer(r, "stopped")

-----------------------------------------------------------------------------
(* The agent loop; every step needs the driver to poll it.                 *)

AgentStep(from, to) ==
    /\ driver = "loop"
    /\ agent = from
    /\ agent' = to

(* take_pending, after the cancellation check at the top of the loop and   *)
(* the mid-turn compaction: cancellation may arrive in between.            *)
AgentTakePending ==
    /\ AgentStep("taking", "apply")
    /\ held' = pending
    /\ pending' = <<>>
    /\ UNCHANGED <<closed, bytes, subs, channel, clientVars, context, driverVars,
                   cancelled>>

(* Each taken message enters the context and waits for room in the channel. *)
AgentSendApplied ==
    /\ AgentStep("apply", "apply")
    /\ held # <<>> /\ Len(events) < Capacity
    /\ context' = Append(context, Head(held))
    /\ events' = Append(events, Head(held))
    /\ held' = Tail(held)
    /\ UNCHANGED <<inboxVars, clientVars, journal, driver, outcome, active,
                   cancelled>>

AgentMove(from, to) ==
    /\ AgentStep(from, to)
    /\ UNCHANGED <<inboxVars, clientVars, held, context, driverVars, cancelled>>

AgentBoundary == ~cancelled /\ AgentMove("boundary", "taking")
AgentCallModel == held = <<>> /\ AgentMove("apply", "model")
AgentModelReplied == AgentMove("model", "replied") \/ AgentMove("model", "tools")
AgentToolsDone == AgentMove("tools", "boundary")

(* A reply without tool calls: pending input continues the turn; otherwise *)
(* the context may be compacted, and input may arrive meanwhile.           *)
AgentCheckPending ==
    IF pending # <<>> THEN AgentMove("replied", "boundary")
    ELSE AgentMove("replied", "closing")

(* Mutant: the inbox is closed without looking at it again. *)
MutAgentFinishIfEmpty ==
    /\ AgentStep("closing", "ok")
    /\ closed' = TRUE
    /\ UNCHANGED <<bytes, pending, subs, channel, clientVars, held, context,
                   driverVars, cancelled>>

(* finish_if_empty: closing is atomic with finding the inbox empty.        *)
AgentFinishIfEmpty ==
    IF pending # <<>>
    THEN AgentMove("closing", "boundary")
    ELSE /\ AgentStep("closing", "ok")
         /\ closed' = TRUE
         /\ UNCHANGED <<bytes, pending, subs, channel, clientVars, held, context,
                        driverVars, cancelled>>

(* The points that may fail (step limit, compaction, context budget, the   *)
(* provider, a tool) and those where the agent notices cancellation.  The  *)
(* compaction before closing only warns when it fails.                     *)
AgentFails ==
    /\ agent = "apply" => held = <<>>
    /\ \/ /\ agent \in {"boundary", "taking", "apply", "model", "tools"}
          /\ AgentMove(agent, "failed")
       \/ /\ cancelled /\ agent \in {"boundary", "taking", "model", "tools", "closing"}
          /\ AgentMove(agent, "cancelled")

-----------------------------------------------------------------------------
(* The prompt driver.                                                      *)

(* Mutant: the waiters of an acknowledged message are not woken. *)
MutAcknowledge(m) ==
    /\ subs' = [subs EXCEPT ![m.id].status = "applied"]
    /\ UNCHANGED channel

(* TurnSteering::acknowledge *)
Acknowledge(m) ==
    IF subs[m.id].status = "none" THEN UNCHANGED <<subs, channel>>
    ELSE /\ subs' = [subs EXCEPT ![m.id] =
              [status |-> "applied", text |-> subs[m.id].text, waiters |-> {}]]
         /\ channel' = [r \in Requests |->
              IF r \in subs[m.id].waiters THEN "sent" ELSE channel[r]]

(* TurnSteering::close: unread messages leave the inbox, and their senders *)
(* are dropped with their submissions.                                     *)
CloseInbox ==
    /\ closed' = TRUE
    /\ pending' = <<>>
    /\ subs' = [i \in Ids |->
         IF \E m \in ItemsOf(pending) : m.id = i THEN NoSub ELSE subs[i]]
    /\ channel' = [r \in Requests |->
         IF \E m \in ItemsOf(pending) : r \in subs[m.id].waiters
         THEN "dropped" ELSE channel[r]]
    /\ UNCHANGED bytes

(* One event: emitted, appended to the store, and then acknowledged.       *)
DriverCommit ==
    /\ driver \in {"loop", "drain"}
    /\ events # <<>>
    /\ journal' = Append(journal, Head(events))
    /\ events' = Tail(events)
    /\ Acknowledge(Head(events))
    /\ UNCHANGED <<closed, bytes, pending, clientVars, agentVars, driver, outcome,
                   active, cancelled>>

(* Mutant: acknowledged before the append that fails. *)
MutDriverCommitFails ==
    /\ driver \in {"loop", "drain"}
    /\ events # <<>>
    /\ events' = Tail(events)
    /\ driver' = "release" /\ outcome' = "error"
    /\ Acknowledge(Head(events))
    /\ closed' = TRUE
    /\ UNCHANGED <<bytes, pending, clientVars, agentVars, journal, active, cancelled>>

(* The append fails: `?` leaves the async block and drops the run future,  *)
(* whose SteeringGuard closes the inbox; fail_active_prompt follows.       *)
DriverCommitFails ==
    /\ driver \in {"loop", "drain"}
    /\ events # <<>>
    /\ events' = Tail(events)
    /\ driver' = "release" /\ outcome' = "error"
    /\ CloseInbox
    /\ UNCHANGED <<clientVars, agentVars, journal, active, cancelled>>

(* The select picks the run's result. *)
DriverResult ==
    /\ driver = "loop" /\ agent \in {"ok", "failed", "cancelled"}
    /\ driver' = "drain" /\ outcome' = agent
    /\ cancelled' = (cancelled \/ agent # "ok")
    /\ UNCHANGED <<inboxVars, clientVars, agentVars, events, journal, active>>

(* The select picks a cancellation: of the request, or of the work.        *)
DriverStop ==
    /\ driver = "loop"
    /\ driver' = "drain" /\ outcome' = "cancelled"
    /\ cancelled' = TRUE
    /\ UNCHANGED <<inboxVars, clientVars, agentVars, events, journal, active>>

(* The queue is drained; the terminal command is dispatched and stored, and *)
(* leaving the block drops the run future.  A dispatch error is `error`.   *)
DriverTerminate ==
    /\ driver = "drain" /\ events = <<>>
    /\ driver' = "release"
    /\ outcome' \in {outcome, "error"}
    /\ CloseInbox
    /\ UNCHANGED <<clientVars, agentVars, events, journal, active, cancelled>>

(* release_session_work, or fail_active_prompt's cancel and removal.  A    *)
(* cancelled turn first rebuilds the agent's history from the journal.     *)
DriverRelease ==
    /\ driver = "release"
    /\ driver' = "done"
    /\ context' = IF outcome = "cancelled" THEN journal ELSE context
    /\ cancelled' = TRUE /\ active' = FALSE
    /\ CloseInbox
    /\ UNCHANGED <<clientVars, agent, held, events, journal, outcome>>

(* The last Arc<TurnSteering> goes with the driver task.                   *)
DropInbox ==
    /\ driver = "done"
    /\ driver' = "gone"
    /\ channel' = [r \in Requests |->
         IF channel[r] = "open" THEN "dropped" ELSE channel[r]]
    /\ UNCHANGED <<closed, bytes, pending, subs, clientVars, agentVars, events,
                   journal, outcome, active, cancelled>>

(* session/cancel, or an account switch. *)
Cancel ==
    /\ active /\ ~cancelled
    /\ cancelled' = TRUE
    /\ UNCHANGED <<inboxVars, clientVars, agentVars, driverVars>>

-----------------------------------------------------------------------------
Agent ==
    \/ AgentBoundary \/ AgentTakePending \/ AgentSendApplied \/ AgentCallModel
    \/ AgentModelReplied \/ AgentToolsDone \/ AgentCheckPending
    \/ AgentFinishIfEmpty \/ AgentFails

Driver ==
    \/ DriverCommit \/ DriverCommitFails \/ DriverResult \/ DriverStop
    \/ DriverTerminate \/ DriverRelease \/ DropInbox

Answers(r) == AnswerApplied(r) \/ AnswerNotApplied(r) \/ AnswerStopped(r)

Next ==
    \/ \E r \in Requests, m \in Message : SteerTurn(r, m)
    \/ \E r \in Requests : Answers(r)
    \/ Agent \/ Driver \/ Cancel

Spec == Init /\ [][Next]_vars

(* Provider and tool calls return (or hit their deadline), the driver task *)
(* and every answering task keep being polled.                             *)
Fairness ==
    /\ WF_vars(Agent)
    /\ WF_vars(DriverCommit) /\ WF_vars(DriverResult \/ (cancelled /\ DriverStop))
    /\ WF_vars(DriverTerminate) /\ WF_vars(DriverRelease) /\ WF_vars(DropInbox)
    /\ \A r \in Requests : WF_vars(Answers(r))

FairSpec == Spec /\ Fairness

-----------------------------------------------------------------------------
(* The two limits of submit hold although bytes, pending and waiters are   *)
(* changed by three different actors.                                      *)
TypeOK ==
    /\ closed \in BOOLEAN /\ cancelled \in BOOLEAN /\ active \in BOOLEAN
    /\ bytes \in 0..MaxTurnBytes
    /\ pending \in Seq(Message) /\ Len(pending) <= MaxPending
    /\ subs \in [Ids -> Submission]
    /\ channel \in [Requests -> {"none", "open", "sent", "dropped"}]
    /\ asked \in [Requests -> Message \cup {NoMessage}]
    /\ reply \in [Requests -> {"none", "rejected", "waiting", "applied",
                               "notApplied", "stopped"}]
    /\ agent \in {"boundary", "taking", "apply", "model", "replied", "tools", "closing",
                  "ok", "failed", "cancelled"}
    /\ driver \in {"loop", "drain", "release", "done", "gone"}
    /\ outcome \in {"none", "ok", "failed", "cancelled", "error"}
    /\ held \in Seq(Message) /\ context \in Seq(Message)
    /\ events \in Seq(Message) /\ journal \in Seq(Message)
    /\ accepted \in Seq(Message)

(* acknowledge is "Called by the adapter only AFTER the message is         *)
(* committed locally": a client told that its message was applied finds    *)
(* exactly that message in the saved transcript.                           *)
AppliedIsCommitted ==
    \A r \in Requests : reply[r] = "applied" => asked[r] \in ItemsOf(journal)

(* A client told "steering was not applied; message remains queued" may    *)
(* send the message again: it is not in the transcript and never will be.  *)
NotAppliedIsNotCommitted ==
    \A r \in Requests :
        reply[r] = "notApplied" => asked[r] \notin ItemsOf(journal)

(* The journal holds the accepted messages in the order in which the inbox *)
(* accepted them, without a gap and without a duplicate, whatever retries, *)
(* cancellations and append failures happen.                               *)
JournalIsPrefixOfAccepted ==
    /\ Len(journal) <= Len(accepted)
    /\ \A k \in 1..Len(journal) : journal[k] = accepted[k]
    /\ \A j, k \in 1..Len(journal) : journal[j].id = journal[k].id => j = k

(* "A late input either continues this turn or is rejected": a turn that   *)
(* ends successfully has committed, and shown the model, everything its    *)
(* inbox ever accepted.                                                    *)
SuccessLosesNothing ==
    driver \in {"release", "done", "gone"} /\ outcome = "ok" =>
        journal = accepted /\ context = accepted

(* Nobody hangs: every accepted steer_turn request is answered, even when  *)
(* the model goes on calling tools for ever.                               *)
EveryRequestIsAnswered ==
    \A r \in Requests : reply[r] = "waiting" ~> reply[r] # "waiting"
=============================================================================
