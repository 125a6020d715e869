---------------------------- MODULE Conversation ----------------------------
(***************************************************************************)
(* The context of one thread: what the agent loop (agent.rs) sends to the  *)
(* model, what it keeps between turns, and what it rebuilds from the       *)
(* stored timeline (session/projection.rs, restore_session) after a stop   *)
(* or in the next process.                                                 *)
(*                                                                         *)
(* A turn works on its own copy of the history and saves it only at some   *)
(* of its ends.  Its events wait in a channel until the prompt driver      *)
(* (acp/prompts.rs) has stored them; nothing reads the timeline meanwhile, *)
(* so how far the driver got is chosen when the process dies or a          *)
(* transaction fails.  The driver drops the agent on a stop, at any await. *)
(*                                                                         *)
(* A message is reduced to the facts it holds (prompts, steering inputs    *)
(* and tool results) and the calls it makes; a summary holds the facts of  *)
(* what it replaces.  The system prompt is left out, and so is the second  *)
(* note restore_session adds for unfinished tools.                         *)
(***************************************************************************)
EXTENDS Naturals, Sequences, FiniteSets, SequencesExt

CONSTANTS
    Free, Asked, Refused,   \* tool calls by name and arguments: run at once, after
                            \* an approval, or answered with an error (malformed or denied)
    Grantable,              \* calls of Asked that a session grant may cover
    MaxTurns,               \* bound on the turns
    MaxSteps,               \* limits.max_steps
    MaxBatch,               \* bound on the calls of one response
    MaxWork,                \* bound on the requests and calls of all turns together
    MaxFaults               \* bound on the deaths of the process and failed transactions

ASSUME ConversationAssumption ==
    /\ Asked \cap (Free \cup Refused) = {} /\ Free \cap Refused = {}
    /\ Grantable \subseteq Asked
    /\ "none" \notin Free \cup Asked \cup Refused
    /\ {MaxTurns, MaxSteps, MaxBatch, MaxWork, MaxFaults} \subseteq Nat /\ MaxBatch # 0

VARIABLES
    history,        \* AgentEngine::histories of the thread
    messages,       \* the running turn's copy
    pc,             \* where the turn is
    turn, step,     \* the running or last turn, and its requests so far
    queue,          \* calls of the last response still to be handled
    observations,   \* image observations held back until the batch is answered
    lastCall,       \* last_call, the signature of the previous call
    steering,       \* the turn's steering input
    grants,         \* session grants of the thread's PolicyEngine
    channel,        \* events of the turn, in the order they were sent
    rows,           \* timeline_items of the thread
    status,         \* turns.status
    dropped,        \* history: turns that ended without saving their copy
    unstored,       \* history: turns of which an event could not be stored
    faults, work    \* how much of the bounds is used

turnVars == <<messages, step, queue, observations, lastCall>>
boundVars == <<unstored, faults, work>>
vars == <<history, turnVars, pc, turn, steering, grants, channel, rows, status, dropped,
          boundVars>>

Turns == 1..MaxTurns
Tools == Free \cup Asked \cup Refused
Facts == [turn : Turns, step : 0..MaxSteps, n : 0..MaxBatch]
Prompt(t) == [turn |-> t, step |-> 0, n |-> 0]
Steered(t) == [turn |-> t, step |-> 0, n |-> 1]
Calls == [fact : Facts, tool : Tools]

-----------------------------------------------------------------------------
(* Messages.  Prompts, observations, summaries and the request to continue *)
(* after a compaction are all sent as the user's.                          *)
User(f) == [role |-> "user", knows |-> {f}, calls |-> {}]
Assistant(cs) == [role |-> "assistant", knows |-> {}, calls |-> cs]
Answer(f) == [role |-> "tool", knows |-> {f}, calls |-> {}]
Observation == [role |-> "observation", knows |-> {}, calls |-> {}]
Summary(fs) == [role |-> "summary", knows |-> fs, calls |-> {}]
Continuation == [role |-> "continuation", knows |-> {}, calls |-> {}]
Note == [role |-> "note", knows |-> {}, calls |-> {}]

Roles == {"user", "assistant", "tool", "observation", "summary", "continuation", "note"}
Messages == [role : Roles, knows : SUBSET Facts, calls : SUBSET Facts]

FromUser(m) == m.role \in {"user", "observation", "summary", "continuation"}

Known(ms) == UNION {ms[i].knows : i \in DOMAIN ms}

(* Calls that no reply follows before the next message of the user.        *)
Unanswered(ms) ==
    {f \in UNION {ms[i].calls : i \in DOMAIN ms} :
        \E i \in DOMAIN ms :
            /\ f \in ms[i].calls
            /\ ~\E j \in (i + 1)..Len(ms) :
                 /\ ms[j] = Answer(f)
                 /\ \A k \in i..j : ~FromUser(ms[k])}

-----------------------------------------------------------------------------
(* The timeline (session/events.rs) and its replay.                        *)
Row(k, t, f) == [kind |-> k, turn |-> t, fact |-> f, out |-> FALSE, image |-> FALSE, covers |-> {}]

CompactedRow(t, fs) == [Row("compacted", 0, Prompt(t)) EXCEPT !.covers = fs]

TextSent == [kind |-> "text"]
SteeringApplied == [kind |-> "steering"]
Proposed(f) == [kind |-> "proposed", fact |-> f]
Output(f, out) == [kind |-> "output", fact |-> f, out |-> out]
Compacted(fs) == [kind |-> "compacted", covers |-> fs]

(* One event of turn t in one transaction.  A compaction belongs to no     *)
(* turn; a tool call has one row, which its output joins.                  *)
Store(rs, t, e) ==
    CASE e.kind = "text" -> Append(rs, Row("text", t, Prompt(t)))
      [] e.kind = "steering" -> Append(rs, Row("user", t, Steered(t)))
      [] e.kind = "proposed" -> Append(rs, Row("tool", t, e.fact))
      [] e.kind = "output" ->
           [i \in DOMAIN rs |->
               IF rs[i].kind = "tool" /\ rs[i].fact = e.fact
               THEN [rs[i] EXCEPT !.out = (e.out # "empty"), !.image = (e.out = "image")]
               ELSE rs[i]]
      [] e.kind = "compacted" ->
           Append(rs, CompactedRow(t, e.covers))

(* The events of turn t, one after the other.                              *)
StoredAfter(rs, t, es) ==
    LET after[n \in 0..Len(es)] == IF n = 0 THEN rs ELSE Store(after[n - 1], t, es[n])
    IN after[Len(es)]

Stored(es) == StoredAfter(rows, turn, es)

(* project_turn_terminal: an unfinished turn is followed by a note.  It is *)
(* projected when a row of another turn comes, or at the end.              *)
Closed(st, ends) ==
    IF st.open # 0 /\ ends[st.open] # "completed" THEN Append(st.context, Note) ELSE st.context

EndsWith(ms, P(_)) == ms # <<>> /\ P(Last(ms))

WithText(ms) ==
    IF EndsWith(ms, LAMBDA m : m.role = "assistant" /\ m.calls = {})
    THEN ms ELSE Append(ms, Assistant({}))

WithCall(ms, f) ==
    IF EndsWith(ms, LAMBDA m : m.role = "assistant")
    THEN [ms EXCEPT ![Len(ms)].calls = @ \cup {f}] ELSE Append(ms, Assistant({f}))

(* Mutant: the summary replaces the pending prompt too.                    *)
MutReplayCompaction(st, fs) == <<Summary(fs)>>

(* A summary made before a turn's first request does not cover its prompt, *)
(* which is stored before it.                                              *)
ReplayCompaction(st, fs) ==
    <<Summary(fs)>> \o (IF st.open # 0 /\ EndsWith(st.context, FromUser)
                        THEN <<Last(st.context)>> ELSE <<>>)

(* project_tool: an empty output is not projected.                         *)
ReplayTool(ms, row) ==
    WithCall(ms, row.fact) \o (IF row.out THEN <<Answer(row.fact)>> ELSE <<>>)
                           \o (IF row.image THEN <<Observation>> ELSE <<>>)

Replay(ends, st, row) ==
    LET new == row.turn \notin {0, st.open}
        ms == IF new THEN Closed(st, ends) ELSE st.context
    IN [open |-> IF new THEN row.turn ELSE st.open,
        context |-> CASE row.kind = "user" -> Append(ms, User(row.fact))
                      [] row.kind = "text" -> WithText(ms)
                      [] row.kind = "tool" -> ReplayTool(ms, row)
                      [] row.kind = "compacted" -> ReplayCompaction(st, row.covers)]

(* project_runtime_events and restore_session.                             *)
Replayed(rs, ends) ==
    LET st[n \in 0..Len(rs)] ==
            IF n = 0 THEN [open |-> 0, context |-> <<>>] ELSE Replay(ends, st[n - 1], rs[n])
    IN st[Len(rs)]

Restored(rs, ends) == Closed(Replayed(rs, ends), ends)

-----------------------------------------------------------------------------
Init ==
    /\ history = <<>> /\ messages = <<>>
    /\ pc = "idle" /\ turn = 0 /\ step = 0
    /\ queue = <<>> /\ observations = <<>> /\ lastCall = "none"
    /\ steering = "none" /\ grants = {}
    /\ channel = <<>> /\ rows = <<>>
    /\ status = [t \in Turns |-> "absent"]
    /\ dropped = {} /\ unstored = {} /\ faults = 0 /\ work = 0

Emit(es) == channel' = channel \o es

(* What a request has streamed when it ends early.                         *)
Partial == IF pc = "asking" THEN {<<>>, <<TextSent>>} ELSE {<<>>}

(* Input the turn did not take stays with the client.  Bound: one input.   *)
Spent == IF steering = "none" THEN "none" ELSE "applied"

(* Nothing is left of the running turn but what was saved or stored.       *)
TurnGone ==
    /\ pc' = "idle" /\ channel' = <<>> /\ steering' = Spent
    /\ messages' = <<>> /\ step' = 0 /\ queue' = <<>> /\ observations' = <<>>
    /\ lastCall' = "none"

(* The driver's end of a turn: every event left in the channel is stored,  *)
(* then the turn's end.                                                    *)
EndTurn(result, es) ==
    /\ rows' = Stored(channel \o es)
    /\ status' = [status EXCEPT ![turn] = result]
    /\ TurnGone
    /\ UNCHANGED <<turn, grants>>

(* The agent has saved its copy ...                                        *)
Saves(result, ms, es) ==
    EndTurn(result, es) /\ history' = ms /\ UNCHANGED <<dropped, boundVars>>

(* ... or returns early with an error, and the copy is gone ...            *)
Drops(es) ==
    EndTurn("failed", es) /\ dropped' = dropped \cup {turn} /\ UNCHANGED <<history, boundVars>>

(* ... or is cancelled, and the driver rebuilds the history.               *)
Cancels(es) ==
    /\ EndTurn("cancelled", es)
    /\ history' = Restored(rows', status')
    /\ UNCHANGED <<dropped, boundVars>>

-----------------------------------------------------------------------------
(* The beginning of a turn.                                                *)

(* The prompt is stored before the agent runs.                             *)
SubmitPrompt ==
    /\ pc = "idle" /\ turn < MaxTurns
    /\ turn' = turn + 1
    /\ rows' = Append(rows, Row("user", turn', Prompt(turn')))
    /\ status' = [status EXCEPT ![turn'] = "running"]
    /\ messages' = history
    /\ pc' = "setup"
    /\ UNCHANGED <<history, step, queue, observations, lastCall, steering, grants, channel,
                   dropped, boundVars>>

(* No MCP connection, no model, or a message the model cannot take.        *)
SetupFails == pc = "setup" /\ Drops(<<>>)

(* The history fits, or is compacted before the prompt joins it.           *)
SetsUp ==
    /\ pc = "setup"
    /\ \/ messages' = Append(messages, User(Prompt(turn))) /\ UNCHANGED channel
       \/ /\ messages # <<>>
          /\ messages' = <<Summary(Known(messages)), User(Prompt(turn))>>
          /\ Emit(<<Compacted(Known(messages))>>)
    /\ pc' = "loop"
    /\ UNCHANGED <<history, step, queue, observations, lastCall, turn, steering, grants, rows,
                   status, dropped, boundVars>>

SetupCompactionFails ==
    /\ pc = "setup" /\ messages # <<>>
    /\ Saves("failed", messages \o <<User(Prompt(turn)), Note>>, <<>>)

-----------------------------------------------------------------------------
(* The loop: a request, and its answer.                                    *)

MayAsk == step < MaxSteps

(* The step limit, a failed compaction, or the context budget, which is    *)
(* looked at when pending steering has joined the request.                 *)
LoopFails ==
    /\ pc \in {"loop", "compacted"}
    /\ \/ Drops(<<>>)
       \/ MayAsk /\ steering = "pending" /\ Drops(<<SteeringApplied>>)

LoopCompacts ==
    /\ pc = "loop" /\ step \in 1..(MaxSteps - 1)
    /\ messages' = <<Summary(Known(messages)), Continuation>>
    /\ history' = messages'
    /\ Emit(<<Compacted(Known(messages))>>)
    /\ pc' = "compacted"
    /\ UNCHANGED <<step, queue, observations, lastCall, turn, steering, grants, rows, status,
                   dropped, boundVars>>

(* Pending steering joins the request at this boundary.                    *)
Ask ==
    /\ pc \in {"loop", "compacted"} /\ MayAsk /\ work < MaxWork
    /\ step' = step + 1 /\ work' = work + 1
    /\ pc' = "asking"
    /\ IF steering = "pending"
       THEN /\ messages' = Append(messages, User(Steered(turn)))
            /\ Emit(<<SteeringApplied>>)
            /\ lastCall' = "none" /\ steering' = "applied"
       ELSE UNCHANGED <<messages, channel, lastCall, steering>>
    /\ UNCHANGED <<history, queue, observations, turn, grants, rows, status, dropped, unstored,
                   faults>>

Interrupted(partial) ==
    messages \o [i \in DOMAIN partial |-> Assistant({})] \o <<Note>>

(* Mutant: the failed turn is saved without the note.                      *)
MutProviderFails ==
    /\ pc = "asking"
    /\ \E partial \in Partial :
         Saves("failed", messages \o [i \in DOMAIN partial |-> Assistant({})], partial)

(* The request fails or times out, perhaps after some text.                *)
ProviderFails ==
    /\ pc = "asking"
    /\ \E partial \in Partial : Saves("failed", Interrupted(partial), partial)

Batches ==
    UNION {{[i \in 1..n |-> [fact |-> [turn |-> turn, step |-> step, n |-> i], tool |-> ts[i]]] :
                ts \in [1..n -> Tools]} : n \in 0..MaxBatch}

(* Bound: a response speaks or calls, not both.                            *)
Answers ==
    /\ pc = "asking"
    /\ \E batch \in Batches :
         /\ work + Len(batch) <= MaxWork /\ work' = work + Len(batch)
         /\ messages' = Append(messages, Assistant({batch[i].fact : i \in DOMAIN batch}))
         /\ Emit(IF batch = <<>> THEN <<TextSent>> ELSE <<>>)
         /\ queue' = batch
         /\ pc' = IF batch = <<>> THEN "closing" ELSE "calling"
    /\ UNCHANGED <<history, step, observations, lastCall, turn, steering, grants, rows, status,
                   dropped, unstored, faults>>

(* A response without calls: the context may be compacted once more; a     *)
(* failure is only a warning.                                              *)
CompactsAtEnd ==
    /\ pc = "closing" /\ steering # "pending"
    /\ messages' = <<Summary(Known(messages))>>
    /\ Emit(<<Compacted(Known(messages))>>)
    /\ pc' = "finishing"
    /\ UNCHANGED <<history, step, queue, observations, lastCall, turn, steering, grants, rows,
                   status, dropped, boundVars>>

(* Steering that came meanwhile reopens the loop; otherwise the inbox is   *)
(* closed and the turn is complete.                                        *)
Finishes ==
    /\ pc \in {"closing", "finishing"}
    /\ IF steering = "pending"
       THEN /\ pc' = "loop"
            /\ UNCHANGED <<history, turnVars, turn, steering, grants, channel, rows, status,
                           dropped, boundVars>>
       ELSE Saves("completed", messages, <<>>)

-----------------------------------------------------------------------------
(* The batch of calls.                                                     *)
Call == Head(queue)

(* The call at the head is answered and the next one is looked at.         *)
Answered(es, out) ==
    /\ Emit(es \o <<Output(Call.fact, out)>>)
    /\ messages' = Append(messages, Answer(Call.fact))
    /\ queue' = Tail(queue)
    /\ pc' = "calling"
    /\ UNCHANGED <<history, step, turn, steering, rows, status, dropped, boundVars>>

BatchDone ==
    /\ pc = "calling" /\ queue = <<>>
    /\ messages' = messages \o observations
    /\ observations' = <<>>
    /\ pc' = "loop"
    /\ UNCHANGED <<history, step, queue, lastCall, turn, steering, grants, channel, rows, status,
                   dropped, boundVars>>

(* "Not run: new user instructions are pending."                           *)
SkipCall ==
    /\ pc = "calling" /\ queue # <<>> /\ steering = "pending"
    /\ Answered(<<Proposed(Call.fact)>>, "text")
    /\ UNCHANGED <<observations, lastCall, grants>>

MayCall == pc = "calling" /\ queue # <<>> /\ steering # "pending"

RepeatedCall == MayCall /\ Call.tool = lastCall /\ Drops(<<>>)

RefuseCall ==
    /\ MayCall /\ Call.tool # lastCall /\ Call.tool \in Refused
    /\ lastCall' = Call.tool
    /\ Answered(<<Proposed(Call.fact)>>, "text")
    /\ UNCHANGED <<observations, grants>>

(* authorize: allowed by the policy or by a grant, or the user is asked.   *)
StartCall ==
    /\ MayCall /\ Call.tool # lastCall /\ Call.tool \notin Refused
    /\ lastCall' = Call.tool
    /\ Emit(<<Proposed(Call.fact)>>)
    /\ pc' = IF Call.tool \in Free \cup grants THEN "running" ELSE "approving"
    /\ UNCHANGED <<history, messages, step, queue, observations, turn, steering, grants, rows,
                   status, dropped, boundVars>>

(* Allowed once, or for the session where a grant is offered.              *)
Approves ==
    /\ pc = "approving"
    /\ grants' \in {grants, grants \cup ({Call.tool} \cap Grantable)}
    /\ pc' = "running"
    /\ UNCHANGED <<history, turnVars, turn, steering, channel, rows, status, dropped, boundVars>>

(* The request cannot be delivered, or the scope is refused: fail closed.  *)
ApprovalFails ==
    /\ pc = "approving"
    /\ Answered(<<>>, "text")
    /\ UNCHANGED <<observations, lastCall, grants>>

(* "A user's Deny ends this turn": every open call is answered in the      *)
(* saved copy, which the driver then replaces by what is stored.           *)
Declined ==
    LET open == {f \in UNION {messages[i].calls : i \in DOMAIN messages} :
                    \A j \in DOMAIN messages : messages[j] # Answer(f)}
    IN messages \o SetToSeq({Answer(f) : f \in open}) \o <<Note>>

Declines == pc = "approving" /\ Cancels(<<Output(Call.fact, "text")>>)

(* Mutant: the observation joins the context at once.                      *)
MutToolEnds ==
    /\ pc = "running"
    /\ \E out \in {"text", "empty", "image"} :
         /\ Emit(<<Output(Call.fact, out)>>)
         /\ messages' = messages \o <<Answer(Call.fact)>>
                                 \o (IF out = "image" THEN <<Observation>> ELSE <<>>)
    /\ queue' = Tail(queue) /\ pc' = "calling"
    /\ UNCHANGED <<history, step, turn, steering, rows, status, dropped, boundVars, lastCall,
                   grants, observations>>

(* The tool's result, or its error, is the reply; an image it shows waits  *)
(* for the other replies of the batch.                                     *)
ToolEnds ==
    /\ pc = "running"
    /\ \E out \in {"text", "empty", "image"} :
         /\ Answered(<<>>, out)
         /\ observations' = observations \o (IF out = "image" THEN <<Observation>> ELSE <<>>)
    /\ UNCHANGED <<lastCall, grants>>

(* limits.max_wall_time passes while a tool or an approval is waited for.  *)
DeadlinePasses == pc \in {"approving", "running"} /\ Drops(<<>>)

-----------------------------------------------------------------------------
(* Around the turn.                                                        *)

Steer ==
    /\ pc # "idle" /\ steering = "none"
    /\ steering' = "pending"
    /\ UNCHANGED <<history, turnVars, pc, turn, grants, channel, rows, status, dropped, boundVars>>

(* The user's stop: the driver drops the agent wherever it waits.          *)
StopTurn == pc # "idle" /\ \E partial \in Partial : Cancels(partial)

(* How many of the turn's events are stored when it is cut off.            *)
StoredEvents ==
    {SubSeq(channel, 1, n) : n \in 0..Len(channel)} \cup {channel \o partial : partial \in Partial}

(* What the agent may have saved at an end that cannot be stored.          *)
MaySave ==
    CASE pc = "setup" /\ messages # <<>> -> {messages \o <<User(Prompt(turn)), Note>>}
      [] pc = "asking" -> {Interrupted(partial) : partial \in Partial}
      [] pc \in {"closing", "finishing"} /\ steering # "pending" -> {messages}
      [] pc = "approving" -> {Declined}
      [] OTHER -> {}

(* An event cannot be stored: the rest is lost, and the turn fails, in the *)
(* timeline too if that can be written; or only its end cannot be stored.  *)
StoreFails ==
    /\ pc # "idle" /\ faults < MaxFaults
    /\ faults' = faults + 1
    /\ \E es \in StoredEvents : rows' = Stored(es)
    /\ status' \in {status, [status EXCEPT ![turn] = "failed"]}
    /\ history' \in {history} \cup MaySave
    /\ unstored' = unstored \cup {turn}
    /\ TurnGone
    /\ UNCHANGED <<turn, grants, dropped, work>>

(* /compact, while no turn runs.  Bound: not twice in a row, nor after the *)
(* last turn.                                                              *)
Compact ==
    /\ pc = "idle" /\ turn < MaxTurns /\ history # <<>> /\ Last(history).role # "summary"
    /\ history' = <<Summary(Known(history))>>
    /\ rows' = Append(rows, CompactedRow(turn, Known(history)))
    /\ UNCHANGED <<turnVars, pc, turn, steering, grants, channel, status, dropped, boundVars>>

(* reset_session_permissions, when the settings of the thread change.      *)
ResetPermissions ==
    /\ pc = "idle" /\ grants # {}
    /\ grants' = {}
    /\ UNCHANGED <<history, turnVars, pc, turn, steering, channel, rows, status, dropped,
                   boundVars>>

(* The process dies, some of the events stored; the next one interrupts    *)
(* what was running (session/recovery.rs) and loads the thread.            *)
Restart ==
    /\ faults < MaxFaults
    /\ faults' = faults + 1
    /\ \E es \in StoredEvents : rows' = Stored(es)
    /\ status' = [t \in Turns |-> IF status[t] = "running" THEN "interrupted" ELSE status[t]]
    /\ history' = Restored(rows', status')
    /\ grants' = {}
    /\ TurnGone
    /\ UNCHANGED <<turn, dropped, unstored, work>>

Next ==
    \/ SubmitPrompt \/ SetupFails \/ SetsUp \/ SetupCompactionFails
    \/ LoopFails \/ LoopCompacts \/ Ask \/ ProviderFails \/ Answers
    \/ CompactsAtEnd \/ Finishes
    \/ BatchDone \/ SkipCall \/ RepeatedCall \/ RefuseCall \/ StartCall
    \/ Approves \/ ApprovalFails \/ Declines \/ ToolEnds \/ DeadlinePasses
    \/ Steer \/ StopTurn \/ StoreFails \/ Compact \/ ResetPermissions \/ Restart

Spec == Init /\ [][Next]_vars

-----------------------------------------------------------------------------
(* Types, and that an idle thread has nothing left of its last turn.       *)
TypeOK ==
    /\ history \in Seq(Messages) /\ messages \in Seq(Messages)
    /\ pc \in {"idle", "setup", "loop", "compacted", "asking", "closing", "finishing",
               "calling", "approving", "running"}
    /\ turn \in 0..MaxTurns /\ step \in 0..MaxSteps
    /\ queue \in Seq(Calls) /\ observations \in Seq({Observation})
    /\ lastCall \in Tools \cup {"none"}
    /\ steering \in {"none", "pending", "applied"} /\ grants \subseteq Grantable
    /\ status \in [Turns -> {"absent", "running", "completed", "failed", "cancelled",
                             "interrupted"}]
    /\ dropped \subseteq Turns /\ unstored \subseteq Turns
    /\ faults \in 0..MaxFaults /\ work \in 0..MaxWork
    /\ pc \in {"approving", "running"} => queue # <<>>
    /\ pc = "idle" => messages = <<>> /\ channel = <<>>

(* "Providers require every tool reply before the next user message": a    *)
(* request leaves no call unanswered but one whose stored row has no       *)
(* output, which only a rebuilt history can hold.  The types are included. *)
RequestsAnswerCalls ==
    /\ TypeOK
    /\ pc = "asking" =>
         \A f \in Unanswered(messages) :
             \E i \in DOMAIN rows : rows[i].kind = "tool" /\ rows[i].fact = f /\ ~rows[i].out

(* "Pruning here would silently discard facts on restart or Stop": between *)
(* turns, the history in memory and the one a restart would rebuild hold   *)
(* the same prompts, steering inputs and tool results, except for turns    *)
(* that ended without saving, turns that could not be stored, and results  *)
(* that were empty.                                                        *)
RestartKeepsContext ==
    pc = "idle" =>
        LET excused == {f \in Facts : f.turn \in dropped \cup unstored}
                       \cup {rows[i].fact : i \in {j \in DOMAIN rows :
                                                    rows[j].kind = "tool" /\ ~rows[j].out}}
        IN Known(history) \ excused = Known(Restored(rows, status)) \ excused

(* "Preserve its partial response [...] but do not assume unfinished       *)
(* claims or actions completed": the model never sees an earlier turn that *)
(* did not complete without the note that says so, before the next prompt, *)
(* unless the end of that turn could not be stored.                        *)
UnfinishedTurnIsMarked ==
    pc = "asking" =>
        \A i \in DOMAIN messages, t \in 1..(turn - 1) :
            /\ messages[i].role = "user" /\ messages[i].knows \subseteq {Prompt(t), Steered(t)}
            /\ status[t] # "completed" /\ t \notin unstored
            => \E j \in (i + 1)..Len(messages) :
                 /\ messages[j] = Note
                 /\ \A k \in i..j : messages[k].role = "user" =>
                        messages[k].knows \subseteq {Prompt(t), Steered(t)}
=============================================================================
