---------------------------- MODULE MessageQueue ----------------------------
(***************************************************************************)
(* The on-device outbox of the desktop chat                                *)
(* (packages/chat-core/src/messageQueue.ts), as one thread sees it: a      *)
(* message is written to local storage before it is sent, dispatched to    *)
(* the native agent when the thread is idle, and dropped when the agent's  *)
(* transcript echoes it.                                                   *)
(*                                                                         *)
(* The object runs on the renderer's only thread, so a step is the code    *)
(* between two awaits.  Its methods call each other (sync, pump,           *)
(* dispatch), so each is an operator from the object q to the object, and  *)
(* an action applies one; `ok` tells whether storage accepts the writes of *)
(* the step.  What is awaited (payloads, the native prompt, cancel,        *)
(* getState) is answered in any order, late, with an error, or after the   *)
(* account or the runtime has changed.                                     *)
(***************************************************************************)
EXTENDS Naturals, Sequences, FiniteSets, SequencesExt

CONSTANTS
    Messages,          \* client message ids; each is submitted at most once
    Accounts,          \* signed-in accounts
    None,              \* no account, no message, no interruption
    PersistQueue,      \* TRUE when the host commits the outbox before a dispatch
    MaxMessages,       \* MAX_MESSAGES
    MaxGeneration,     \* bound on the context changes the queue observes
    MaxTrouble,        \* bound on context changes, settings changes and failures together
    MaxInterrupts      \* bound on "send now" interruptions

ASSUME QueueAssumption ==
    /\ None \notin Messages \cup Accounts
    /\ None \notin [serial : Nat, id : Messages \cup {None}, ready : BOOLEAN]
    /\ PersistQueue \in BOOLEAN
    /\ {MaxMessages, MaxGeneration, MaxTrouble, MaxInterrupts} \subseteq Nat

VARIABLES
    mq,            \* the MessageQueue object, its storage and the calls it awaits
    native,        \* the native agent, as getState reports it
    submissions,   \* progress of the composer's submission of each message
    consent,       \* messages the user wants sent and that are not sent yet
    unasked,       \* messages that were sent without the user's consent
    owner,         \* the account a message was submitted under
    gone,          \* messages the user removed or whose thread was deleted
    faults         \* failures so far

vars == <<mq, native, submissions, consent, unasked, owner, gone, faults>>
history == <<consent, unasked, owner, gone>>

(* What the queue reads of a ClientState: its context, the thread's        *)
(* session, the client ids of the transcript's user rows, and the revision *)
(* of the agent and MCP settings.                                          *)
ClientState ==
    [account : Accounts \cup {None}, runtime : 0..MaxTrouble,
     session : {"absent", "idle", "running"},
     rows : SUBSET Messages, revision : 0..MaxTrouble]

QueuedMessage ==
    [id : Messages, revision : 0..MaxTrouble, preparing : BOOLEAN,
     status : {"queued", "sending", "stopping"}]

(* dispatch() awaiting persistQueue, the prompt or getState, with the      *)
(* prompt's answer so far.                                                 *)
Dispatches ==
    [id : Messages, generation : 0..MaxGeneration, at : {"persist", "prompt", "state"},
     reply : {"none", "running", "end_turn", "cancelled", "error"}]

Interrupts == [serial : 1..MaxInterrupts, generation : 0..MaxGeneration, at : {"cancel", "state"}]

Restores == [generation : 0..MaxGeneration, account : Accounts, rest : Seq(QueuedMessage)]

MayFail == native.runtime + native.revision + faults < MaxTrouble

SignedOut == [account |-> None, runtime |-> 0, session |-> "absent", rows |-> {}, revision |-> 0]

(* The object as constructed; storage may hold messages of an earlier run. *)
Init ==
    \E a \in Accounts, n \in 0..MaxMessages : \E left \in [1..n -> Messages] :
        /\ IsInjective(left)
        /\ native = [SignedOut EXCEPT !.account = a, !.session = "idle"]
        /\ mq = [account |-> None, runtime |-> 0, generation |-> 0, state |-> SignedOut,
                 items |-> <<>>, paused |-> FALSE, freshSends |-> {}, interruption |-> None,
                 loading |-> FALSE, dispatches |-> {}, interrupts |-> {}, restores |-> {}, serial |-> 0,
                 saved |-> [b \in Accounts |-> IF b = a THEN [k \in DOMAIN left |->
                     [id |-> left[k], revision |-> 0, preparing |-> FALSE, status |-> "queued"]] ELSE <<>>],
                 payloads |-> {a} \X Range(left), partial |-> FALSE, clobbered |-> FALSE]
        /\ submissions = [m \in Messages |->
                [at |-> IF m \in Range(left) THEN "done" ELSE "none", generation |-> 0]]
        /\ owner = [m \in Messages |-> IF m \in Range(left) THEN a ELSE None]
        /\ consent = {} /\ unasked = {} /\ gone = {} /\ faults = 0

-----------------------------------------------------------------------------
(* The object's methods *)

Ids(items) == {items[k].id : k \in DOMAIN items}
ItemOf(q, id) == q.items[CHOOSE k \in DOMAIN q.items : q.items[k].id = id]
Has(q, id, status) == id \in Ids(q.items) /\ ItemOf(q, id).status = status

Put(q, item) ==
    [q EXCEPT !.items = [k \in DOMAIN q.items |-> IF q.items[k].id = item.id THEN item ELSE q.items[k]]]

WithStatus(q, id, status) ==
    IF id \in Ids(q.items) THEN Put(q, [ItemOf(q, id) EXCEPT !.status = status]) ELSE q

(* The items whose ids are not in S, in their order. *)
Kept(items, S) ==
    LET keep == {k \in DOMAIN items : items[k].id \notin S}
    IN [n \in 1..Cardinality(keep) |->
            items[CHOOSE k \in keep : Cardinality({j \in keep : j <= k}) = n]]

Without(q, S) == [q EXCEPT !.items = Kept(q.items, S)]

Hold(q) == [q EXCEPT !.paused = TRUE]

MutCurrent(q, call) == q.account # None

(* The check after every await: is it still the context of the call? *)
Current(q, call) == call.generation = q.generation

Saves(q, ok) == ok /\ q.account # None

MutSave(q, ok) ==
    IF Saves(q, ok)
    THEN [q EXCEPT !.saved = [q.saved EXCEPT ![q.account] = SelectSeq(q.items, LAMBDA i : ~i.preparing)],
                   !.clobbered = q.clobbered \/ q.partial]
    ELSE q

(* save, without the status, which is never read back.  `clobbered`        *)
(* remembers a save that replaced an outbox which the object had not read  *)
(* back completely (`partial`).                                            *)
Save(q, ok) ==
    IF Saves(q, ok)
    THEN [q EXCEPT !.saved = [q.saved EXCEPT ![q.account] =
                        [k \in DOMAIN q.items |-> [q.items[k] EXCEPT !.status = "queued"]]],
                   !.clobbered = q.clobbered \/ q.partial]
    ELSE q

Cleanup(q, S) == [q EXCEPT !.payloads = q.payloads \ {<<q.account, id>> : id \in S}]

MutIdle(q) == q.state.session = "idle"

(* The thread runs no reply and the object awaits no prompt for it. *)
Idle(q) == q.state.session = "idle" /\ ~\E d \in q.dispatches : Current(q, d)

(* checkAgentRevision refuses a message written under other settings. *)
RevisionChanged(q, id) == ItemOf(q, id).revision # q.state.revision
HoldForRevision(q, id, ok) == Save(Hold(WithStatus(q, id, "queued")), ok)

(* dispatch up to its first await. *)
Dispatch(q, id, ok) ==
    LET s == WithStatus([q EXCEPT !.freshSends = q.freshSends \ {id}], id, "sending")
    IN IF RevisionChanged(q, id) THEN HoldForRevision(q, id, ok)
       ELSE IF ~Saves(s, ok) THEN Hold(WithStatus(s, id, "queued"))
       ELSE [Save(s, ok) EXCEPT !.dispatches = s.dispatches \cup
                {[id |-> id, generation |-> q.generation, reply |-> "none",
                  at |-> IF PersistQueue THEN "persist" ELSE "prompt"]}]

(* pump, first loop: an interruption is over when its reply has ended. *)
ReleaseInterruption(q, ok) ==
    LET d == [q EXCEPT !.interruption = None]
    IN IF q.interruption = None \/ ~Idle(q) \/ (q.interruption # None => ~q.interruption.ready) THEN q
       ELSE IF q.interruption.id \in Ids(q.items) THEN Dispatch(d, q.interruption.id, ok) ELSE d

(* pump, second loop: the first message that is not held goes out. *)
SendFirst(q, ok) ==
    LET k == SelectInSeq(q.items, LAMBDA i : ~i.preparing /\ (q.paused => i.id \in q.freshSends))
    IN IF q.interruption = None /\ k # 0 /\ q.items[k].status = "queued" /\ Idle(q)
       THEN Dispatch(q, q.items[k].id, ok)
       ELSE q

Pump(q, ok) ==
    IF q.account = None \/ q.loading THEN q ELSE SendFirst(ReleaseInterruption(q, ok), ok)

Reset(q, a, r) ==
    [q EXCEPT !.generation = q.generation + 1, !.account = a, !.runtime = r,
              !.items = <<>>, !.paused = FALSE, !.freshSends = {}, !.interruption = None,
              !.partial = FALSE]

(* sync in another context: an outbox is read back in the background. *)
Adopt(q, s) ==
    LET r == Reset(q, s.account, IF s.account = None THEN 0 ELSE s.runtime)
    IN IF s.account = None THEN r
       ELSE IF q.saved[s.account] = <<>> THEN [r EXCEPT !.loading = FALSE]
       ELSE [r EXCEPT !.loading = TRUE, !.partial = TRUE,
                      !.restores = q.restores \cup {[generation |-> r.generation,
                                       account |-> s.account, rest |-> q.saved[s.account]]}]

ContextChanged(q, s) == s.account # q.account \/ (s.account # None /\ s.runtime # q.runtime)

(* The messages that a loaded transcript echoes leave the outbox. *)
DropAcknowledged(q, s, ok) ==
    LET done == {id \in Ids(q.items) : s.session # "absent" /\ id \in s.rows}
        d    == Without(q, done)
    IN IF done = {} THEN q ELSE IF Saves(d, ok) THEN Cleanup(Save(d, ok), done) ELSE d

Sync(q, s, ok) ==
    LET seen == [q EXCEPT !.state = s]
        r    == IF ContextChanged(q, s) THEN Adopt(seen, s) ELSE seen
    IN IF s.account = None \/ r.loading THEN r ELSE Pump(DropAcknowledged(r, s, ok), ok)

(* pause: nothing of the thread is sent before the user asks again. *)
PauseThread(q, ok) ==
    LET f == Hold([q EXCEPT !.freshSends = {}])
    IN IF q.interruption = None THEN f
       ELSE Save([WithStatus(f, q.interruption.id, "queued")
                    EXCEPT !.interruption = [q.interruption EXCEPT !.id = None]], ok)

-----------------------------------------------------------------------------
(* A step of the object: F(ok) is the object after it. *)
Applies(F(_)) ==
    \E ok \in BOOLEAN :
        /\ ok \/ (MayFail /\ F(FALSE) # F(TRUE))
        /\ mq' = F(ok)
        /\ mq'.generation <= MaxGeneration
        /\ faults' = IF ok THEN faults ELSE faults + 1

(* Consent is granted for a message, used up by its prompt, and void when  *)
(* the queue observes another context.                                     *)
Remember(granted) ==
    LET standing == IF mq'.generation = mq.generation THEN granted ELSE {}
        sent == {d.id : d \in {e \in mq'.dispatches : e.at = "prompt" /\ e.reply = "none" /\ e \notin mq.dispatches}}
    IN /\ consent' = standing \ sent
       /\ unasked' = unasked \cup (sent \ standing)

Replace(d, e) == [mq EXCEPT !.dispatches = (mq.dispatches \ {d}) \cup e]

-----------------------------------------------------------------------------
(* The native agent (external) *)

(* Sign-in, sign-out or a restarted sidecar: the session is unloaded and   *)
(* prompts in flight fail.                                                 *)
NativeContext ==
    /\ MayFail
    /\ \E a \in Accounts \cup {None} :
         native' = [native EXCEPT !.account = a, !.runtime = native.runtime + 1, !.session = "absent"]
    /\ mq' = [mq EXCEPT !.dispatches =
                {IF d.reply \in {"none", "running"} /\ d.at = "prompt"
                 THEN [d EXCEPT !.reply = "error"] ELSE d : d \in mq.dispatches}]
    /\ UNCHANGED <<submissions, history, faults>>

NativeSession ==
    /\ \/ /\ native.session = "absent" /\ native.account # None
          /\ native' = [native EXCEPT !.session = "idle"]
       \/ /\ MayFail
          /\ native' = [native EXCEPT !.revision = native.revision + 1]
    /\ UNCHANGED <<mq, submissions, history, faults>>

(* A prompt ends before its message is committed to the transcript, or is  *)
(* committed and runs to its end.                                          *)
NativePrompt(d) ==
    /\ d.at = "prompt"
    /\ \/ /\ d.reply = "none"
          /\ \E r \in {"end_turn", "cancelled", "error"} : mq' = Replace(d, {[d EXCEPT !.reply = r]})
          /\ UNCHANGED native
       \/ /\ d.reply = "none" /\ native.session = "idle" /\ native.account = owner[d.id]
          /\ mq' = Replace(d, {[d EXCEPT !.reply = "running"]})
          /\ native' = [native EXCEPT !.rows = native.rows \cup {d.id}, !.session = "running"]
       \/ /\ d.reply = "running"
          /\ \E r \in {"end_turn", "cancelled", "error"} : mq' = Replace(d, {[d EXCEPT !.reply = r]})
          /\ native' = [native EXCEPT !.session = "idle"]
    /\ UNCHANGED <<submissions, history, faults>>

-----------------------------------------------------------------------------
(* Observing the native state *)

(* sync, from a state notification. *)
StateChanged ==
    /\ Applies(LAMBDA ok : Sync(mq, native, ok))
    /\ Remember(consent)
    /\ UNCHANGED <<native, submissions, owner, gone>>

(* dispose, on a connection change that the rendered state may not show. *)
Dispose ==
    /\ mq.generation < MaxGeneration
    /\ mq' = [Reset(mq, None, 0) EXCEPT !.state = SignedOut, !.loading = FALSE]
    /\ Remember({})
    /\ UNCHANGED <<native, submissions, owner, gone, faults>>

(* A payload of the outbox has been read: its message is held for review.  *)
Restored(r, ok) ==
    LET q == [mq EXCEPT !.items = Append(mq.items, Head(r.rest)),
                        !.paused = TRUE, !.restores = mq.restores \ {r}]
    IN IF ~Current(mq, r) THEN [mq EXCEPT !.restores = mq.restores \ {r}]
       ELSE IF Tail(r.rest) # <<>> THEN [q EXCEPT !.restores = @ \cup {[r EXCEPT !.rest = Tail(r.rest)]}]
       ELSE Sync([q EXCEPT !.loading = FALSE, !.partial = FALSE], mq.state, ok)

(* It is missing or unreadable: the object forgets the whole outbox. *)
RestoreFailed(r) ==
    LET q == [mq EXCEPT !.restores = mq.restores \ {r}]
    IN IF Current(mq, r) THEN Sync([q EXCEPT !.items = <<>>, !.loading = FALSE], mq.state, TRUE) ELSE q

Restore(r) ==
    /\ \/ /\ <<r.account, Head(r.rest).id>> \in mq.payloads
          /\ Applies(LAMBDA ok : Restored(r, ok))
       \/ /\ MayFail
          /\ mq' = RestoreFailed(r)
          /\ faults' = faults + 1
    /\ Remember(consent)
    /\ UNCHANGED <<native, submissions, owner, gone>>

-----------------------------------------------------------------------------
(* Submitting a message: reserveDurable, bindPreparation, failPreparation  *)
(* and ready, which the composer calls between its own awaits.             *)

MoveTo(m, at, g) == submissions' = [submissions EXCEPT ![m] = [at |-> at, generation |-> g]]

ReserveDurable(m) ==
    /\ submissions[m].at = "none" /\ mq.account # None
    /\ MoveTo(m, "payload", mq.generation)
    /\ owner' = [owner EXCEPT ![m] = mq.account]
    /\ UNCHANGED <<mq, native, consent, unasked, gone, faults>>

(* reserve, with the payload already stored. *)
Reserved(m) ==
    Save([mq EXCEPT !.items = Append(mq.items, [id |-> m, revision |-> mq.state.revision,
                                                preparing |-> TRUE, status |-> "sending"]),
                    !.payloads = mq.payloads \cup {<<mq.account, m>>}], TRUE)

(* The outbox has been read back and the payload stored.  In another       *)
(* context, when the queue is full or when a store fails (at any time),    *)
(* the draft stays with the composer and the payload is removed.           *)
Reserve(m) ==
    /\ submissions[m].at = "payload"
    /\ \/ /\ Current(mq, submissions[m]) /\ ~mq.loading
          /\ Len(mq.items) < MaxMessages
          /\ mq' = Reserved(m)
          /\ MoveTo(m, "reserved", 0)
       \/ /\ ~Current(mq, submissions[m]) \/ ~mq.loading
          /\ MoveTo(m, "refused", 0)
          /\ UNCHANGED mq
    /\ UNCHANGED <<native, history, faults>>

(* Only a reservation made in this connection can advance. *)
Active(m) == Has(mq, m, "sending") /\ ItemOf(mq, m).preparing

(* bindPreparation names the thread of a first message and saves. *)
BindPreparation(m) ==
    /\ submissions[m].at = "reserved" /\ Active(m)
    /\ Applies(LAMBDA ok : Save(mq, ok))
    /\ UNCHANGED <<native, submissions, history>>

FailPreparation(m) ==
    /\ submissions[m].at = "reserved"
    /\ MoveTo(m, "done", 0)
    /\ Applies(LAMBDA ok : IF Active(m) THEN Save(WithStatus(mq, m, "queued"), ok) ELSE mq)
    /\ UNCHANGED <<native, history>>

(* ready: after a Stop the new message may overtake the held ones. *)
Ready(m) ==
    LET i == [ItemOf(mq, m) EXCEPT !.preparing = FALSE, !.status = "queued", !.revision = mq.state.revision]
        r == Save(Put(mq, i), TRUE)
    IN /\ submissions[m].at = "reserved" /\ Active(m)
       /\ mq.state.session # "absent"
       /\ mq' = Pump([r EXCEPT !.freshSends = IF mq.paused THEN @ \cup {m} ELSE @], TRUE)
       /\ MoveTo(m, "done", 0)
       /\ Remember(consent \cup {m})
       /\ UNCHANGED <<native, owner, gone, faults>>

-----------------------------------------------------------------------------
(* The user's commands *)

Removed(m, ok) ==
    LET d == Without([mq EXCEPT !.freshSends = mq.freshSends \ {m}], {m})
        i == mq.interruption
        e == IF i # None /\ i.id = m
             THEN Hold([d EXCEPT !.interruption = [i EXCEPT !.id = None]]) ELSE d
    IN IF Saves(mq, ok) THEN Cleanup(Save(e, ok), {m}) ELSE PauseThread(mq, ok)

RemoveMessage(m) ==
    /\ m \in Ids(mq.items) /\ ~Has(mq, m, "sending")
    /\ Applies(LAMBDA ok : Removed(m, ok))
    /\ gone' = gone \cup (Ids(mq.items) \ Ids(mq'.items))
    /\ Remember(consent \ {m})
    /\ UNCHANGED <<native, submissions, owner>>

Dispatching == {d.id : d \in {e \in mq.dispatches : Current(mq, e)}}

(* forget, once the native agent has deleted the thread. *)
Forgotten(ok) ==
    LET d == [Without(mq, Ids(mq.items)) EXCEPT !.freshSends = {}, !.paused = FALSE, !.interruption = None]
    IN IF Saves(d, ok) THEN Cleanup(Save(d, ok), Ids(mq.items)) ELSE d

Forget ==
    /\ native.session = "idle"
    /\ native' = [native EXCEPT !.session = "absent"]
    /\ Applies(Forgotten)
    /\ gone' = gone \cup Ids(mq.items)
    /\ Remember(consent \cap Dispatching)
    /\ UNCHANGED <<submissions, owner>>

(* Stop: what is not being sent already loses the user's consent. *)
Pause ==
    /\ Applies(LAMBDA ok : PauseThread(mq, ok))
    /\ Remember(consent \cap Dispatching)
    /\ UNCHANGED <<native, submissions, owner, gone>>

(* sendNow on a busy thread: keep the message and stop the reply. *)
Interrupting(m, ok) ==
    LET n == mq.serial + 1
        s == WithStatus([mq EXCEPT !.freshSends = mq.freshSends \ {m}], m, "stopping")
    IN IF ~Saves(s, ok) THEN Hold(WithStatus(s, m, "queued"))
       ELSE [Save(s, ok) EXCEPT
                !.serial = n,
                !.interruption = [serial |-> n, id |-> m, ready |-> FALSE],
                !.interrupts = @ \cup {[serial |-> n, generation |-> mq.generation, at |-> "cancel"]}]

SendNow(m) ==
    /\ Has(mq, m, "queued") /\ ~ItemOf(mq, m).preparing
    /\ mq.state.session # "absent" /\ mq.interruption = None
    /\ Applies(LAMBDA ok : IF RevisionChanged(mq, m) THEN HoldForRevision(mq, m, ok)
                           ELSE IF Idle(mq) THEN Dispatch(mq, m, ok) ELSE Interrupting(m, ok))
    /\ mq'.serial <= MaxInterrupts
    /\ Remember(consent \cup {m})
    /\ UNCHANGED <<native, submissions, owner, gone>>

-----------------------------------------------------------------------------
(* interrupt, after each of its awaits *)

Owns(p) == Current(mq, p) /\ mq.interruption # None /\ mq.interruption.serial = p.serial

(* After getState the gate may open: when the thread is idle and its old   *)
(* prompt has returned.                                                    *)
InterruptAdvances(p, ok) ==
    LET rest == [mq EXCEPT !.interrupts = mq.interrupts \ {p}]
    IN IF ~Owns(p) THEN rest
       ELSE IF p.at = "cancel" THEN [rest EXCEPT !.interrupts = @ \cup {[p EXCEPT !.at = "state"]}]
       ELSE Sync([rest EXCEPT !.interruption = [mq.interruption EXCEPT !.ready = TRUE]], native, ok)

(* cancel or getState failed: the message is kept, and held. *)
InterruptFails(p, ok) ==
    LET rest == [mq EXCEPT !.interrupts = mq.interrupts \ {p}]
    IN IF ~Owns(p) THEN rest
       ELSE Save(Hold([WithStatus(rest, mq.interruption.id, "queued") EXCEPT !.interruption = None]), ok)

Interrupt(p) ==
    /\ \/ /\ Applies(LAMBDA ok : InterruptAdvances(p, ok))
          /\ Remember(consent)
       \/ /\ MayFail
          /\ mq' = InterruptFails(p, TRUE)
          /\ faults' = faults + 1
          /\ Remember(IF Owns(p) THEN consent \ {mq.interruption.id} ELSE consent)
    /\ UNCHANGED <<native, submissions, owner, gone>>

-----------------------------------------------------------------------------
(* dispatch, after each of its awaits *)

MutSettle(q, d, errorRow, ok) ==
    Save([q EXCEPT !.dispatches = q.dispatches \ {d},
                   !.paused = q.paused \/ errorRow \/ ~Saves(q, ok)], ok)

(* The finally block: an error row or a failed write holds the thread. *)
Settle(q, d, errorRow, ok) ==
    LET e == [q EXCEPT !.dispatches = q.dispatches \ {d},
                       !.paused = q.paused \/ errorRow \/ ~Saves(q, ok)]
    IN Pump(Save(e, ok), ok)

MutUnconfirmed(q, d) == WithStatus(q, d.id, "queued")

(* Not echoed by the transcript: kept, and held. *)
Unconfirmed(q, d) == IF d.id \in Ids(q.items) THEN Hold(WithStatus(q, d.id, "queued")) ELSE q

(* getState has answered after the prompt. *)
Returned(d, errorRow, ok) ==
    LET q == Sync(mq, native, ok)
        r == IF d.reply # "end_turn" /\ q.interruption = None THEN Hold(q) ELSE q
    IN IF Current(q, d) THEN Settle(Unconfirmed(r, d), d, errorRow, ok)
       ELSE [q EXCEPT !.dispatches = q.dispatches \ {d}]

(* The catch block. *)
Failed(d, ok) == Settle(Hold(Unconfirmed(mq, d)), d, FALSE, ok)

(* persistQueue, the prompt or getState has answered. *)
DispatchReturns(d) ==
    /\ d.at = "prompt" => d.reply \in {"end_turn", "cancelled", "error"}
    /\ \/ /\ ~Current(mq, d)
          /\ mq' = Replace(d, {})
          /\ UNCHANGED faults
       \/ /\ Current(mq, d) /\ d.at # "state" /\ d.reply # "error"
          /\ mq' = Replace(d, {[d EXCEPT !.at = IF d.at = "persist" THEN "prompt" ELSE "state"]})
          /\ UNCHANGED faults
       \/ /\ Current(mq, d) /\ d.at = "state"
          /\ \E errorRow \in BOOLEAN : Applies(LAMBDA ok : Returned(d, errorRow, ok))
       \/ /\ Current(mq, d) /\ d.reply = "error"
          /\ Applies(LAMBDA ok : Failed(d, ok))
       \/ /\ Current(mq, d) /\ d.at # "prompt" /\ MayFail
          /\ mq' = Failed(d, TRUE)
          /\ faults' = faults + 1
    /\ Remember(consent)
    /\ UNCHANGED <<native, submissions, owner, gone>>

-----------------------------------------------------------------------------
Next ==
    \/ NativeContext \/ NativeSession \/ StateChanged \/ Dispose \/ Forget \/ Pause
    \/ \E d \in mq.dispatches : NativePrompt(d) \/ DispatchReturns(d)
    \/ \E p \in mq.interrupts : Interrupt(p)
    \/ \E r \in mq.restores : Restore(r)
    \/ \E m \in Messages :
         \/ ReserveDurable(m) \/ Reserve(m) \/ BindPreparation(m) \/ FailPreparation(m) \/ Ready(m)
         \/ RemoveMessage(m) \/ SendNow(m)

Spec == Init /\ [][Next]_vars

-----------------------------------------------------------------------------
(* Every field of the queue, of the native state and of the calls in       *)
(* flight stays in its type, and messages have distinct ids (restore       *)
(* refuses an outbox where they have not).                                 *)
TypeOK ==
    /\ native \in ClientState /\ mq.state \in ClientState
    /\ mq.account \in Accounts \cup {None} /\ mq.generation \in 0..MaxGeneration
    /\ \A items \in {mq.items} \cup Range(mq.saved) :
         /\ items \in Seq(QueuedMessage)
         /\ \A j, k \in DOMAIN items : items[j].id = items[k].id => j = k
    /\ mq.interruption = None \/
         mq.interruption \in [serial : 1..MaxInterrupts, id : Messages \cup {None}, ready : BOOLEAN]
    /\ mq.dispatches \subseteq Dispatches /\ mq.interrupts \subseteq Interrupts
    /\ mq.restores \subseteq Restores /\ mq.payloads \subseteq Accounts \X Messages
    /\ mq.freshSends \cup consent \cup unasked \cup gone \subseteq Messages
    /\ {mq.paused, mq.loading, mq.partial, mq.clobbered} \subseteq BOOLEAN

(* A prompt is only made for a message the user asked to send in this      *)
(* context and has not stopped since: no failed or unconfirmed delivery,   *)
(* no Stop, no reconnect and no restored outbox is followed by a replay    *)
(* (dispatch, pause, sync).                                                *)
NothingSentUnasked == unasked = {}

(* The thread has at most one dispatch of the current context at a time,   *)
(* whichever of pump, sendNow, ready and an interruption starts it, and    *)
(* every field keeps its type.                                             *)
OneDispatchAtATime == TypeOK /\ Cardinality({d \in mq.dispatches : Current(mq, d)}) <= 1

(* The queue in memory holds messages of the signed-in account only, and   *)
(* each saved outbox only its own account's, whichever restore, reserve or *)
(* dispatch returns after an account change.                               *)
MessagesStayWithTheirAccount ==
    /\ \A id \in Ids(mq.items) : owner[id] = mq.account
    /\ \A a \in Accounts : \A id \in Ids(mq.saved[a]) : owner[id] = a

(* Every message of a saved outbox has its payload, so that the outbox can *)
(* be read back: reserveDurable writes the payload first, and cleanup      *)
(* removes it after the save.                                              *)
SavedPayloadsExist ==
    \A a \in Accounts : \A id \in Ids(mq.saved[a]) : <<a, id>> \in mq.payloads

(* What the comment on MessageQueue says of the outbox: only the           *)
(* transcript's acknowledgement, or the user, removes a message from it.   *)
OnlyAcknowledgementRemoves ==
    \A m \in Messages :
        submissions[m].at \in {"reserved", "done"} /\ m \notin gone \cup native.rows
            => m \in Ids(mq.saved[owner[m]])

(* It holds, through failing writes, context changes and abandoned         *)
(* dispatches, as long as no save replaces an outbox that has not been     *)
(* read back completely, and what is saved can be read back: its payload   *)
(* is written first and removed last (reserveDurable, cleanup).            *)
OutboxIsDurable ==
    /\ ~mq.clobbered => OnlyAcknowledgementRemoves
    /\ SavedPayloadsExist

(* A message waiting for "send now" is never stranded: it is the target of *)
(* the thread's interruption, and what will release it is still to come:   *)
(* the answer to cancel or getState, the end of the reply or of its        *)
(* prompt, or the rest of the outbox (sendNow, interrupt, pump).           *)
SendNowIsDriven ==
    \A m \in Messages : Has(mq, m, "stopping") =>
        /\ mq.interruption # None /\ mq.interruption.id = m
        /\ \/ \E p \in mq.interrupts : Owns(p)
           \/ \E r \in mq.restores : Current(mq, r)
           \/ mq.interruption.ready /\ ~Idle(mq)
=============================================================================
