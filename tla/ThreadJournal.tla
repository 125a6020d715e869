--------------------------- MODULE ThreadJournal ---------------------------
(***************************************************************************)
(* One thread of the local database (apps/axiomcli/src/session): its turns,*)
(* timeline items and request records, written by the processes that have  *)
(* the database open.  Each process has its own in-memory kernel (app.rs)  *)
(* and at most one prompt driver for the thread (acp/prompts.rs), which    *)
(* persists every event of the agent in a transaction of its own; opening  *)
(* the database interrupts what an earlier process left unfinished         *)
(* (session/recovery.rs).                                                  *)
(*                                                                         *)
(* An event of the agent, its pass through the kernel (emit) and its       *)
(* transaction (append) are one step: the kernel is private to the process *)
(* and the transaction is atomic.  Rows that are written complete          *)
(* (warnings, workspace changes, compaction and provider notices) and      *)
(* settings only advance the revision.  A row is open (pending, in         *)
(* progress), completed or ended (failed, cancelled, interrupted), and a   *)
(* request that failed is not told from a cancelled one; wording, times    *)
(* and token counts are left out.                                          *)
(***************************************************************************)
EXTENDS Naturals, Sequences, FiniteSets, Functions

CONSTANTS
    Processes,      \* processes that may open the database
    MaxTurns,       \* turns ever begun in the thread
    MaxRequests,    \* model requests ever made for it
    MaxEvents,      \* pieces, steerings, tool calls, questions, views and
                    \* failed transactions together
    MaxOpens        \* times the database is opened

ASSUME JournalAssumption ==
    {MaxTurns, MaxRequests, MaxEvents, MaxOpens} \subseteq Nat

VARIABLES
    revision,       \* threads.revision
    lifecycle,      \* threads.lifecycle
    turns,          \* turns.status
    items,          \* timeline_items, in the order of their sequence numbers
    requests,       \* request_usage: turn, state, response_verified
    process,        \* each process: its kernel session and its driver
    view,           \* the revision and the items a process last showed its user
    disowned,       \* turns another process interrupted while they were driven
    stranded,       \* turns whose process died, or could not write their end
    said,           \* pieces of each response that were stored and not revised away
    used            \* how much of each bound is used up

database == <<revision, lifecycle, turns, items, requests>>
ghosts == <<disowned, stranded, said>>
vars == <<database, process, view, ghosts, used>>

Turns == 1..MaxTurns
Requests == 1..MaxRequests
Ends == {"completed", "cancelled", "failed", "interrupted"}
Users == {"prompt", "steering"}

Item ==
    [turn : 0..MaxTurns, kind : Users \cup {"assistant", "reasoning", "tool", "notice"},
     status : {"open", "completed", "ended"}, request : 0..MaxRequests, verified : BOOLEAN,
     text : Seq(Requests), call : 0..MaxTurns, by : Turns]

(* The kernel session (lifecycle and active turn) and the driver: what it  *)
(* is doing, the agent's place in its loop, and the message being revised. *)
Process ==
    [at : {"down", "up", "idle", "turn", "failing"},
     lifecycle : {"none", "ready", "running", "waiting_for_approval", "waiting_for_answer"},
     turn : 0..MaxTurns, phase : {"boundary", "request", "answered", "proposed", "tool",
                                  "declined", "error"},
     request : 0..MaxRequests, image : BOOLEAN, revise : 0..MaxTurns]

Down ==
    [at |-> "down", lifecycle |-> "none", turn |-> 0, phase |-> "boundary", request |-> 0,
     image |-> FALSE, revise |-> 0]

Unseen == [revision |-> 0, items |-> <<>>]

TypeOK ==
    /\ revision \in Nat
    /\ lifecycle \in {"ready", "running", "waiting_for_approval", "waiting_for_answer"}
    /\ turns \in [Turns -> {"absent", "running", "removed"} \cup Ends]
    /\ items \in Seq(Item)
    /\ requests \in [Requests -> [turn : 0..MaxTurns, verified : BOOLEAN,
                                  state : {"absent", "running", "completed", "failed"}]]
    /\ process \in [Processes -> Process]
    /\ view \in [Processes -> [revision : Nat, items : Seq(Item)]]
    /\ disowned \subseteq Turns /\ stranded \subseteq Turns
    /\ said \in [Requests -> Nat]
    /\ used \in [events : 0..MaxEvents, opens : 0..MaxOpens]

(* The thread exists; no process has the database open.                    *)
Init ==
    /\ revision = 1 /\ lifecycle = "ready"
    /\ turns = [t \in Turns |-> "absent"]
    /\ items = <<>>
    /\ requests = [r \in Requests |-> [turn |-> 0, state |-> "absent", verified |-> FALSE]]
    /\ process = [p \in Processes |-> Down]
    /\ view = [p \in Processes |-> Unseen]
    /\ disowned = {} /\ stranded = {}
    /\ said = [r \in Requests |-> 0]
    /\ used = [events |-> 0, opens |-> 0]

(***************************************************************************)
(* The timeline's own operations (session/timeline.rs).                    *)
(***************************************************************************)
NewItem(t, kind, status, by) ==
    [turn |-> t, kind |-> kind, status |-> status, request |-> 0, verified |-> FALSE,
     text |-> <<>>, call |-> 0, by |-> by]

(* Every transaction adds to the revision.  It is only ever compared with  *)
(* the revision a user saw, so two revisions nobody saw are not told apart. *)
Advance ==
    revision' = IF \E p \in Processes : view[p].revision = revision THEN revision + 1 ELSE revision

LastOf(S) == IF S = {} THEN 0 ELSE CHOOSE i \in S : \A j \in S : j <= i

ActiveTurn == LastOf({t \in Turns : turns[t] = "running"})

FindItem(kind, call) == LastOf({i \in DOMAIN items : items[i].kind = kind /\ items[i].call = call})

(* The row of a tool call or of a question: inserted under turn t when no  *)
(* row has its external id (upsert_timeline_item, ensure_external_item).   *)
PutExternal(kind, call, t, status, by) ==
    LET i == FindItem(kind, call) IN
    IF i # 0
    THEN [items EXCEPT ![i].status = status, ![i].by = by]
    ELSE Append(items, [NewItem(t, kind, status, by) EXCEPT !.call = call])

(* Rows found by their external id only: nothing happens when it is gone.  *)
SetExternal(kind, call, status, by) ==
    LET i == FindItem(kind, call) IN
    IF i = 0 THEN items ELSE [items EXCEPT ![i].status = status, ![i].by = by]

(* The segment a streamed piece belongs to: an open row of the turn after  *)
(* its last tool call or user message, bound to the request that is        *)
(* recorded as running.                                                    *)
RunningRequest(t) ==
    LastOf({r \in Requests : requests[r].turn = t /\ requests[r].state = "running"})

Segment(t, kind) ==
    LET boundary == LastOf({i \in DOMAIN items : /\ items[i].turn = t
                                                 /\ items[i].kind \in Users \cup {"tool"}})
    IN LastOf({i \in DOMAIN items :
                /\ items[i].turn = t /\ items[i].kind = kind
                /\ ~items[i].verified /\ items[i].status = "open"
                /\ items[i].request = RunningRequest(t)
                /\ i > boundary})

(* Mutant: a new row is not bound to the request that streams.             *)
MutAppend(t, kind, piece) ==
    LET i == Segment(t, kind) IN
    IF i # 0 THEN [items EXCEPT ![i].text = Append(@, piece)]
    ELSE Append(items, [NewItem(t, kind, "open", t) EXCEPT !.text = <<piece>>])

append_turn_content(t, kind, piece) ==
    LET i == Segment(t, kind) IN
    IF i # 0
    THEN [items EXCEPT ![i].text = Append(@, piece), ![i].status = "open",
                       ![i].verified = FALSE, ![i].by = t]
    ELSE Append(items, [NewItem(t, kind, "open", t)
                            EXCEPT !.request = RunningRequest(t), !.text = <<piece>>])

(* The empty reply row that a prompt creates is bound to the first request *)
(* of its turn.                                                            *)
BindPlaceholder(t, r) ==
    IF \E q \in Requests \ {r} : requests[q].turn = t THEN items
    ELSE [i \in DOMAIN items |->
            IF /\ items[i].turn = t /\ items[i].kind = "assistant"
               /\ i > 1 /\ items[i - 1].kind = "prompt" /\ items[i - 1].turn = t
               /\ items[i].status = "open" /\ items[i].text = <<>> /\ items[i].request = 0
            THEN [items[i] EXCEPT !.request = r] ELSE items[i]]

(* A verified response marks the rows of its own request.                  *)
MarkVerified(r) ==
    [i \in DOMAIN items |->
        IF items[i].request = r /\ items[i].kind \in {"assistant", "reasoning"}
        THEN [items[i] EXCEPT !.status = "completed", !.verified = TRUE] ELSE items[i]]

(* finish_turn settles the open rows and, unless the turn completed, the   *)
(* running requests of a running turn; any other turn makes the            *)
(* transaction fail.                                                       *)
MutFinishable(t) == t # 0         \* mutant: a turn that has ended ends again

Finishable(t) == t # 0 /\ turns[t] = "running"

SettleItems(t, s) ==
    [i \in DOMAIN items |-> IF items[i].turn = t /\ items[i].status = "open"
                            THEN [items[i] EXCEPT !.status = IF s = "completed" THEN s ELSE "ended"]
                            ELSE items[i]]

SettleRequests(t, s) ==
    [r \in Requests |->
        IF requests[r].turn = t /\ requests[r].state = "running" /\ s # "completed"
        THEN [requests[r] EXCEPT !.state = "failed"]
        ELSE requests[r]]

finish_turn(t, s) ==
    /\ turns' = [turns EXCEPT ![t] = s]
    /\ items' = SettleItems(t, s)
    /\ requests' = SettleRequests(t, s)
    /\ lifecycle' = "ready"

(* truncate_for_revision: the prompt of turn u must still be there, nothing *)
(* may run, and the thread must be at the revision the user saw.           *)
PromptOf(u) == LastOf({i \in DOMAIN items : items[i].kind = "prompt" /\ items[i].turn = u})

(* Mutant: the revision is not compared again in the transaction.          *)
MutTruncatable(u, expected) ==
    /\ \A t \in Turns : turns[t] # "running"
    /\ turns[u] # "removed" /\ PromptOf(u) # 0

Truncatable(u, expected) ==
    /\ revision = expected
    /\ \A t \in Turns : turns[t] # "running"
    /\ turns[u] # "removed" /\ PromptOf(u) # 0

(* The places of the pieces of response r in the rows s.                   *)
Pieces(s, r) ==
    UNION {{<<i, k>> : k \in {j \in DOMAIN s[i].text : s[i].text[j] = r}} : i \in DOMAIN s}

Truncated(u) == SubSeq(items, 1, PromptOf(u) - 1)

TurnsCut(u) == {t \in Turns : PromptOf(t) # 0 /\ PromptOf(t) >= PromptOf(u)}

(***************************************************************************)
(* A process: it opens the database, loads the thread, and may die at any  *)
(* time.                                                                   *)
(***************************************************************************)
Driving(p) == process[p].at \in {"turn", "failing"}

(* SessionStore::open runs interrupt_incomplete_turns: every running       *)
(* request fails; when a turn runs, it and the open rows of interrupted    *)
(* turns are interrupted.                                                  *)
Open(p) ==
    LET running == {t \in Turns : turns[t] = "running"}
        Interrupted(t) == t # 0 /\ (t \in running \/ turns[t] = "interrupted")
    IN
    /\ process[p].at = "down" /\ used.opens < MaxOpens
    /\ requests' = [r \in Requests |-> IF requests[r].state = "running"
                        THEN [requests[r] EXCEPT !.state = "failed", !.verified = FALSE]
                        ELSE requests[r]]
    /\ IF running = {} THEN UNCHANGED <<revision, lifecycle, turns, items>>
       ELSE /\ turns' = [t \in Turns |-> IF t \in running THEN "interrupted" ELSE turns[t]]
            /\ items' = [i \in DOMAIN items |->
                            IF items[i].status = "open" /\ Interrupted(items[i].turn)
                            THEN [items[i] EXCEPT !.status = "ended"] ELSE items[i]]
            /\ lifecycle' = "ready" /\ Advance
    /\ process' = [process EXCEPT ![p].at = "up"]
    /\ disowned' = disowned \cup {t \in running : \E q \in Processes : process[q].turn = t}
    /\ stranded' = {}
    /\ used' = [used EXCEPT !.opens = @ + 1]
    /\ UNCHANGED <<view, said>>

(* The process dies; its kernel and its driver are lost.                   *)
Crash(p) ==
    /\ process[p].at # "down"
    /\ stranded' = stranded \cup {t \in Turns : process[p].turn = t /\ turns[t] = "running"}
    /\ process' = [process EXCEPT ![p] = Down]
    /\ view' = [view EXCEPT ![p] = Unseen]
    /\ UNCHANGED <<database, disowned, said, used>>

(* session/load: the kernel session is restored ready, whatever the rows   *)
(* say, and SessionResumed is appended.                                    *)
Load(p) ==
    /\ process[p].at = "up"
    /\ process' = [process EXCEPT ![p].at = "idle", ![p].lifecycle = "ready"]
    /\ lifecycle' = "ready" /\ Advance
    /\ UNCHANGED <<turns, items, requests, view, ghosts, used>>

(* The user is shown the thread (thread_snapshot).                         *)
Spend == used.events < MaxEvents /\ used' = [used EXCEPT !.events = @ + 1]

Look(p) ==
    /\ process[p].at = "idle" /\ process[p].revise = 0
    /\ view' = [view EXCEPT ![p] = [revision |-> revision, items |-> items]]
    /\ Spend
    /\ UNCHANGED <<database, process, ghosts>>

(* Events that leave turns and open rows alone: settings while idle, and   *)
(* usage, warnings and completed notices during a turn.                    *)
Annotate(p) ==
    /\ process[p].at = "idle" \/ (process[p].at = "turn" /\ process[p].lifecycle = "running")
    /\ Advance
    /\ UNCHANGED <<lifecycle, turns, items, requests, process, view, ghosts, used>>

(***************************************************************************)
(* Beginning a turn.  A transaction that fails changes nothing in the      *)
(* database; the kernel has already made the turn active.                  *)
(***************************************************************************)
Fresh(t) ==
    /\ turns[t] = "absent" /\ \A p \in Processes : process[p].turn # t
    /\ \A u \in 1..(t - 1) : turns[u] # "absent" \/ \E p \in Processes : process[p].turn = u

Outcome(ok) == IF ok THEN UNCHANGED used ELSE Spend

(* history_before_user_message: an edit or a regeneration is prepared      *)
(* against the revision its user saw; the driver may still give it up.     *)
PrepareRevision(p, u) ==
    /\ process[p].at = "idle" /\ process[p].revise = 0
    /\ view[p].revision = revision
    /\ turns[u] # "removed" /\ PromptOf(u) # 0
    /\ process' = [process EXCEPT ![p].revise = u]
    /\ UNCHANGED <<database, view, ghosts, used>>

AbandonRevision(p) ==
    /\ process[p].at = "idle" /\ process[p].revise # 0
    /\ process' = [process EXCEPT ![p].revise = 0]
    /\ UNCHANGED <<database, view, ghosts, used>>

Active(p, t, at, image) ==
    process' = [process EXCEPT ![p] = [@ EXCEPT !.at = at, !.lifecycle = "running", !.turn = t,
                    !.phase = "boundary", !.request = 0, !.image = image, !.revise = 0]]

(* SubmitPrompt and append_prompt_revision: the truncation, if any, and    *)
(* PromptAccepted with TurnStarted in one transaction.                     *)
SubmitPrompt(p, t, ok) ==
    LET u == process[p].revise
        kept == IF u = 0 THEN items ELSE Truncated(u)
        cut == IF u = 0 THEN {} ELSE TurnsCut(u)
    IN
    /\ process[p].at = "idle" /\ process[p].lifecycle = "ready" /\ Fresh(t)
    /\ Outcome(ok)
    /\ IF ok /\ (u # 0 => Truncatable(u, view[p].revision))
       THEN /\ items' = kept \o <<NewItem(t, "prompt", "completed", t),
                                   NewItem(t, "assistant", "open", t)>>
            /\ turns' = [s \in Turns |-> IF s = t THEN "running"
                                          ELSE IF s \in cut THEN "removed" ELSE turns[s]]
            /\ lifecycle' = "running"
            /\ Advance
            /\ Active(p, t, "turn", FALSE)
            /\ said' = IF u = 0 THEN said ELSE [r \in Requests |-> Cardinality(Pieces(kept, r))]
            /\ UNCHANGED requests
       ELSE UNCHANGED <<database, said>> /\ Active(p, t, "failing", FALSE)
    /\ view' = [view EXCEPT ![p] = Unseen]
    /\ UNCHANGED <<disowned, stranded>>

(* StartImageGeneration: a turn of tools only (acp/images.rs).             *)
StartImage(p, t, ok) ==
    /\ process[p].at = "idle" /\ process[p].lifecycle = "ready" /\ process[p].revise = 0 /\ Fresh(t)
    /\ Outcome(ok)
    /\ IF ok
       THEN /\ turns' = [turns EXCEPT ![t] = "running"]
            /\ lifecycle' = "running" /\ Advance
            /\ Active(p, t, "turn", TRUE)
            /\ UNCHANGED <<items, requests>>
       ELSE UNCHANGED database /\ Active(p, t, "failing", TRUE)
    /\ UNCHANGED <<view, ghosts>>

(***************************************************************************)
(* The agent's events during a turn, each persisted as it comes.           *)
(***************************************************************************)
InTurn(p) == process[p].at = "turn" /\ process[p].lifecycle = "running"

Goto(p, phase) == process' = [process EXCEPT ![p].phase = phase]

(* Accounting of a request that runs: at its start and while it streams.   *)
StartRequest(p, r) ==
    /\ InTurn(p) /\ process[p].phase = "boundary" /\ ~process[p].image
    /\ requests[r].state = "absent" /\ \A q \in 1..(r - 1) : requests[q].state # "absent"
    /\ requests' = [requests EXCEPT ![r] = [turn |-> process[p].turn, state |-> "running",
                                            verified |-> FALSE]]
    /\ items' = BindPlaceholder(process[p].turn, r)
    /\ process' = [process EXCEPT ![p].phase = "request", ![p].request = r]
    /\ Advance
    /\ UNCHANGED <<lifecycle, turns, view, ghosts, used>>

ReportRequest(p) ==
    LET r == process[p].request IN
    /\ InTurn(p) /\ process[p].phase = "request"
    /\ requests' = [requests EXCEPT ![r].state = "running"]
    /\ items' = BindPlaceholder(process[p].turn, r)
    /\ Advance
    /\ UNCHANGED <<lifecycle, turns, process, view, ghosts, used>>

Delta(p, kind) ==
    LET r == process[p].request IN
    /\ InTurn(p) /\ process[p].phase = "request"
    /\ items' = append_turn_content(process[p].turn, kind, r)
    /\ said' = [said EXCEPT ![r] = @ + 1]
    /\ Advance
    /\ Spend
    /\ UNCHANGED <<lifecycle, turns, requests, process, view, disowned, stranded>>

(* The last accounting of a request: verified, or failed with the turn.    *)
EndRequest(p, verified) ==
    LET r == process[p].request IN
    /\ InTurn(p) /\ process[p].phase = "request"
    /\ requests' = [requests EXCEPT ![r].state = IF verified THEN "completed" ELSE "failed",
                                    ![r].verified = verified]
    /\ items' = IF verified THEN MarkVerified(r) ELSE items
    /\ Goto(p, IF verified THEN "answered" ELSE "error")
    /\ Advance
    /\ UNCHANGED <<lifecycle, turns, view, ghosts, used>>

Steer(p) ==
    /\ InTurn(p) /\ process[p].phase \in {"boundary", "answered"} /\ ~process[p].image
    /\ items' = Append(items, NewItem(process[p].turn, "steering", "completed", process[p].turn))
    /\ Goto(p, "boundary")
    /\ Advance
    /\ Spend
    /\ UNCHANGED <<lifecycle, turns, requests, view, ghosts>>

ProposeTool(p) ==
    LET t == process[p].turn IN
    /\ InTurn(p) /\ process[p].phase = (IF process[p].image THEN "boundary" ELSE "answered")
    /\ FindItem("tool", t) = 0
    /\ items' = PutExternal("tool", t, t, "open", t)
    /\ Goto(p, "proposed")
    /\ Advance
    /\ Spend
    /\ UNCHANGED <<lifecycle, turns, requests, view, ghosts>>

(* ToolStarted, and ToolOutput of a tool that runs or was refused.         *)
RunTool(p) ==
    LET t == process[p].turn IN
    /\ InTurn(p) /\ process[p].phase \in {"proposed", "tool", "declined"}
    /\ items' = PutExternal("tool", t, ActiveTurn, "open", t)
    /\ Goto(p, IF process[p].phase = "declined" THEN "declined" ELSE "tool")
    /\ Advance
    /\ UNCHANGED <<lifecycle, turns, requests, view, ghosts, used>>

CompleteTool(p, success) ==
    LET t == process[p].turn IN
    /\ InTurn(p) /\ process[p].phase = "tool"
    /\ items' = SetExternal("tool", t, IF success THEN "completed" ELSE "ended", t)
    /\ Goto(p, IF ~process[p].image THEN "boundary" ELSE IF success THEN "answered" ELSE "error")
    /\ Advance
    /\ UNCHANGED <<lifecycle, turns, requests, view, ghosts, used>>

(* A permission is asked for before a tool runs, a question by a tool that *)
(* runs; the kernel accepts nothing else until it is resolved.             *)
Ask(p) ==
    LET t == process[p].turn
        waiting == IF process[p].phase = "proposed" THEN "waiting_for_approval" ELSE "waiting_for_answer"
    IN
    /\ InTurn(p) /\ process[p].phase \in {"proposed", "tool"} /\ ~process[p].image
    /\ FindItem("notice", t) = 0
    /\ items' = PutExternal("notice", t, ActiveTurn, "open", t)
    /\ process' = [process EXCEPT ![p].lifecycle = waiting]
    /\ lifecycle' = waiting /\ Advance
    /\ Spend
    /\ UNCHANGED <<turns, requests, view, ghosts>>

Resolve(p, yes) ==
    LET t == process[p].turn IN
    /\ process[p].at = "turn"
    /\ process[p].lifecycle \in {"waiting_for_approval", "waiting_for_answer"}
    /\ items' = SetExternal("notice", t, IF yes THEN "completed" ELSE "ended", t)
    /\ process' = [process EXCEPT ![p].lifecycle = "running",
                        ![p].phase = IF ~yes /\ @ = "proposed" THEN "declined" ELSE @]
    /\ lifecycle' = "running" /\ Advance
    /\ UNCHANGED <<turns, requests, view, ghosts, used>>

Release(p) ==
    process' = [process EXCEPT ![p] = [Down EXCEPT !.at = "idle", !.lifecycle = "ready"]]

(* An append of one of these events fails: the driver gives the turn up.   *)
(* Mutant: it leaves the turn as it is.                                    *)
MutAppendFails(p) ==
    /\ process[p].at = "turn"
    /\ Outcome(FALSE)
    /\ Release(p)
    /\ UNCHANGED <<database, view, ghosts>>

AppendFails(p) ==
    /\ process[p].at = "turn"
    /\ Outcome(FALSE)
    /\ Active(p, process[p].turn, "failing", process[p].image)
    /\ UNCHANGED <<database, view, ghosts>>

(***************************************************************************)
(* Ending a turn: the kernel's session is ready again whether or not the   *)
(* end can be written.                                                     *)
(***************************************************************************)
WriteEnd(t, s, ok) ==
    IF ok /\ Finishable(t)
    THEN finish_turn(t, s) /\ Advance /\ UNCHANGED stranded
    ELSE /\ UNCHANGED database
         /\ stranded' = stranded \cup {u \in Turns : u = t /\ turns[t] = "running"}

EndTurn(p, s, ok) ==
    /\ process[p].at = "turn"
    /\ s = "completed" => process[p].phase = "answered" /\ process[p].lifecycle = "running"
    /\ Outcome(ok)
    /\ WriteEnd(process[p].turn, s, ok)
    /\ Release(p)
    /\ UNCHANGED <<view, disowned, said>>

(* fail_active_prompt; an image regeneration that was cancelled as well    *)
(* ends cancelled.                                                         *)
FailActivePrompt(p, s, ok) ==
    /\ process[p].at = "failing" /\ (s = "cancelled" => process[p].image)
    /\ Outcome(ok)
    /\ WriteEnd(process[p].turn, s, ok)
    /\ Release(p)
    /\ UNCHANGED <<view, disowned, said>>

Next ==
    \E p \in Processes :
        \/ Open(p) \/ Crash(p) \/ Load(p) \/ Look(p) \/ Annotate(p)
        \/ \E u \in Turns : PrepareRevision(p, u)
        \/ AbandonRevision(p)
        \/ \E t \in Turns, ok \in BOOLEAN : SubmitPrompt(p, t, ok) \/ StartImage(p, t, ok)
        \/ \E r \in Requests : StartRequest(p, r)
        \/ ReportRequest(p)
        \/ \E kind \in {"assistant", "reasoning"} : Delta(p, kind)
        \/ \E verified \in BOOLEAN : EndRequest(p, verified)
        \/ Steer(p) \/ ProposeTool(p) \/ RunTool(p) \/ Ask(p)
        \/ \E success \in BOOLEAN : CompleteTool(p, success)
        \/ \E yes \in BOOLEAN : Resolve(p, yes)
        \/ AppendFails(p)
        \/ \E s \in {"completed", "cancelled", "failed"}, ok \in BOOLEAN : EndTurn(p, s, ok)
        \/ \E s \in {"cancelled", "failed"}, ok \in BOOLEAN : FailActivePrompt(p, s, ok)

Spec == Init /\ [][Next]_vars

(***************************************************************************)
(* Properties                                                              *)
(***************************************************************************)
(* A turn that the database shows as running is being driven by a live     *)
(* process, or its process died or failed to write its end and nobody has  *)
(* opened the database since; and a row that is still open belongs to a    *)
(* running turn, unless another process interrupted the turn of the driver *)
(* that wrote it (finish_turn, fail_active_prompt,                         *)
(* interrupt_incomplete_turns).  Every variable keeps its type.            *)
UnfinishedIsDriven ==
    /\ TypeOK
    /\ \A t \in Turns : turns[t] = "running" =>
            t \in stranded \/ \E p \in Processes : Driving(p) /\ process[p].turn = t
    /\ \A i \in DOMAIN items : items[i].status = "open" =>
            \/ items[i].turn # 0 /\ turns[items[i].turn] = "running"
            \/ items[i].by \in disowned

(* A row marked verified holds only text of verified responses; the text   *)
(* of a verified response is stored piece for piece, unless a revision     *)
(* removed it, and in rows marked verified and complete, unless another    *)
(* process interrupted the turn while it streamed (append_turn_content,    *)
(* RequestUsageUpdated).                                                   *)
VerifiedIsWhole ==
    /\ \A i \in DOMAIN items : items[i].verified =>
            \A r \in Range(items[i].text) : requests[r].verified
    /\ \A r \in Requests : requests[r].verified =>
            /\ Cardinality(Pieces(items, r)) = said[r]
            /\ \/ requests[r].turn \in disowned
               \/ \A i \in DOMAIN items : r \in Range(items[i].text) =>
                    items[i].verified /\ items[i].status = "completed"

(* An edit or a regeneration removes messages only from the thread its     *)
(* user was looking at: nothing was added or changed since                 *)
(* (history_before_user_message, truncate_for_revision).                   *)
RevisesWhatWasSeen ==
    [][\A p \in Processes :
          process[p].revise # 0 /\ process'[p].at = "turn" => view[p].items = items]_vars

(* The user's messages and the outcome of each turn, as the abstract       *)
(* specification of the transcript sees them.                              *)
UserRows == {i \in DOMAIN items : items[i].kind \in Users}

Rank(i) == Cardinality({j \in UserRows : j <= i})

UserMessages ==
    [k \in 1..Cardinality(UserRows) |->
        LET row == items[CHOOSE i \in UserRows : Rank(i) = k]
        IN [turn |-> row.turn, kind |-> row.kind]]

Journal == INSTANCE Transcript WITH status <- turns, messages <- UserMessages

(* The database implements the transcript: a turn ends once, and messages  *)
(* are only appended, or cut together with their replacement, across       *)
(* crashes, failed transactions and several processes.                     *)
ImplementsTranscript == Journal!Spec
=============================================================================
