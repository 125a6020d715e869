------------------------- MODULE TurnSteeringProofs -------------------------
(***************************************************************************)
(* Proofs about TurnSteering: its type invariant, the order in which       *)
(* accepted messages reach the journal, what an "applied" and a "not       *)
(* applied" answer promise, and that a successful turn loses nothing, for  *)
(* every set of requests and every limit.                                  *)
(***************************************************************************)
EXTENDS TurnSteering, SequenceTheorems, TLAPS

(* Four sequences, one after the other. *)
Pipe(s, t, u, v) == (s \o t) \o (u \o v)

(* While the driver reads events, every accepted message is at exactly one *)
(* place of the pipeline, and the places are in acceptance order.          *)
Pipeline ==
    /\ driver \in {"loop", "drain"} =>
         accepted = Pipe(journal, events, held, pending)
    /\ driver \notin {"loop", "drain"} => closed
    /\ agent # "apply" => held = <<>>
    /\ Len(journal) <= Len(accepted)
    /\ \A k \in 1..Len(journal) : journal[k] = accepted[k]

(* Accepted identifiers are distinct, because until the inbox closes it    *)
(* remembers every one of them.                                            *)
Distinct ==
    /\ \A j, k \in 1..Len(accepted) : accepted[j].id = accepted[k].id => j = k
    /\ ~closed => \A k \in 1..Len(accepted) : subs[accepted[k].id].status # "none"

(* A submission is marked applied, and a waiter woken, only for a message  *)
(* that is in the journal.                                                 *)
Committed ==
    /\ \A i \in Ids : subs[i].status = "applied" =>
         [id |-> i, text |-> subs[i].text] \in ItemsOf(journal)
    /\ \A i \in Ids : subs[i].status = "waiting" =>
         [id |-> i, text |-> subs[i].text] \in ItemsOf(accepted)
    /\ \A i \in Ids : \A r \in subs[i].waiters :
         /\ subs[i].status = "waiting"
         /\ asked[r] = [id |-> i, text |-> subs[i].text]
         /\ reply[r] # "none"
         /\ driver # "gone" => channel[r] = "open"
    /\ \A r \in Requests : channel[r] = "sent" =>
         asked[r] \in ItemsOf(journal) /\ reply[r] # "none"
    /\ \A r \in Requests : reply[r] = "applied" => channel[r] = "sent"

(* A sender is dropped only for a message that will not be committed: one  *)
(* still in the inbox when it closes, or one lost on the way to a driver   *)
(* that has stopped committing.                                            *)
Undelivered ==
    /\ closed => pending = <<>>
    /\ \A i \in Ids : subs[i].status = "waiting" =>
         [id |-> i, text |-> subs[i].text] \notin ItemsOf(journal)
    /\ \A r \in Requests : channel[r] = "open" =>
         \E i \in Ids : r \in subs[i].waiters
    /\ \A r \in Requests : channel[r] = "dropped" =>
         /\ driver \notin {"loop", "drain"}
         /\ asked[r] \notin ItemsOf(journal)
         /\ reply[r] # "none"
    /\ \A r \in Requests : reply[r] = "notApplied" => channel[r] = "dropped"

(* The model has been shown what is committed and what is on its way, and  *)
(* only an agent that found its inbox empty and closed it reports success. *)
Lossless ==
    /\ driver \in {"loop", "drain"} => context = journal \o events
    /\ agent = "ok" => closed
    /\ driver = "drain" /\ outcome = "ok" => agent = "ok"
    /\ SuccessLosesNothing

IInv == TypeOK /\ Pipeline /\ Distinct /\ Committed /\ Undelivered /\ Lossless

-----------------------------------------------------------------------------
(* Facts about sequences. *)

(* Moving the head of a queue to the end of the sequence before it keeps   *)
(* their concatenation: how one event, or one message, advances.           *)
LEMMA ShiftHead ==
    ASSUME NEW S, NEW s \in Seq(S), NEW t \in Seq(S), t # <<>>
    PROVE  /\ Append(s, Head(t)) \o Tail(t) = s \o t
           /\ Head(t) \in S /\ Tail(t) \in Seq(S)
           /\ Append(s, Head(t)) \in Seq(S)
  OBVIOUS

(* Appending to the second of two sequences appends to both. *)
LEMMA ConcatAppend ==
    ASSUME NEW S, NEW s \in Seq(S), NEW t \in Seq(S), NEW x \in S
    PROVE  s \o Append(t, x) = Append(s \o t, x)
  OBVIOUS

(* The second of two sequences follows the first. *)
LEMMA ConcatIndex ==
    ASSUME NEW S, NEW s \in Seq(S), NEW t \in Seq(S)
    PROVE  /\ Len(s \o t) = Len(s) + Len(t)
           /\ \A n \in 1..Len(t) : (s \o t)[Len(s) + n] = t[n]
  BY ConcatProperties

(* Appending at the end of the last sequence appends to the whole. *)
LEMMA PipeTyped ==
    ASSUME NEW S, NEW s \in Seq(S), NEW t \in Seq(S), NEW u \in Seq(S), NEW v \in Seq(S)
    PROVE  Pipe(s, t, u, v) \in Seq(S)
  BY DEF Pipe

(* A message crosses from the third part to the second. *)
LEMMA PipeShiftMiddle ==
    ASSUME NEW S, NEW s \in Seq(S), NEW t \in Seq(S), NEW u \in Seq(S), NEW v \in Seq(S),
           u # <<>>
    PROVE  Pipe(s, Append(t, Head(u)), Tail(u), v) = Pipe(s, t, u, v)
  <1>1. Append(t, Head(u)) \in Seq(S) /\ Tail(u) \in Seq(S)
    BY ShiftHead
  <1>2. Append(t, Head(u)) \o Tail(u) = t \o u
    BY ShiftHead
  <1>3. ASSUME NEW w \in Seq(S), NEW z \in Seq(S)
        PROVE  Pipe(s, w, z, v) = s \o ((w \o z) \o v)
    <2>1. \A y \in Seq(S) : (s \o w) \o y = s \o (w \o y)
      OBVIOUS
    <2>2. z \o v \in Seq(S) /\ w \o (z \o v) = (w \o z) \o v
      OBVIOUS
    <2> QED
      BY <2>1, <2>2, Zenon DEF Pipe
  <1>4. Pipe(s, Append(t, Head(u)), Tail(u), v)
          = s \o ((Append(t, Head(u)) \o Tail(u)) \o v)
    BY <1>1, <1>3, Zenon
  <1>5. Pipe(s, t, u, v) = s \o ((t \o u) \o v)
    BY <1>3, Zenon
  <1> QED
    BY <1>2, <1>4, <1>5, Zenon

(* A message crosses from the second part to the first. *)
LEMMA PipeShiftFirst ==
    ASSUME NEW S, NEW s \in Seq(S), NEW t \in Seq(S), NEW u \in Seq(S), NEW v \in Seq(S),
           t # <<>>
    PROVE  Pipe(Append(s, Head(t)), Tail(t), u, v) = Pipe(s, t, u, v)
  <1>1. Append(s, Head(t)) \o Tail(t) = s \o t
    BY ShiftHead
  <1> QED
    BY <1>1, Zenon DEF Pipe

(* The fourth part moves to an empty third part. *)
LEMMA PipeTake ==
    ASSUME NEW S, NEW s \in Seq(S), NEW t \in Seq(S), NEW v \in Seq(S)
    PROVE  Pipe(s, t, v, <<>>) = Pipe(s, t, <<>>, v)
  <1>1. v \o <<>> = v /\ <<>> \o v = v
    OBVIOUS
  <1> QED
    BY <1>1, Zenon DEF Pipe

(* The message after the first part is the head of the second. *)
LEMMA PipeNext ==
    ASSUME NEW S, NEW s \in Seq(S), NEW t \in Seq(S), NEW u \in Seq(S), NEW v \in Seq(S),
           t # <<>>
    PROVE  /\ Len(s) + 1 <= Len(Pipe(s, t, u, v))
           /\ Pipe(s, t, u, v)[Len(s) + 1] = Head(t)
  <1>1. \A w \in Seq(S) : /\ Len(s) + 1 <= Len((s \o t) \o w)
                          /\ ((s \o t) \o w)[Len(s) + 1] = Head(t)
    OBVIOUS
  <1>2. u \o v \in Seq(S)
    OBVIOUS
  <1> QED
    BY <1>1, <1>2, Zenon DEF Pipe

LEMMA ItemsAppend ==
    ASSUME NEW S, NEW s \in Seq(S), NEW x \in S
    PROVE  ItemsOf(Append(s, x)) = ItemsOf(s) \cup {x}
  BY DEF ItemsOf

LEMMA ItemsPrefix ==
    ASSUME NEW S, NEW s \in Seq(S), NEW t \in Seq(S),
           Len(s) <= Len(t), \A k \in 1..Len(s) : s[k] = t[k]
    PROVE  ItemsOf(s) \subseteq ItemsOf(t)
  BY DEF ItemsOf

-----------------------------------------------------------------------------
(* Type correctness. *)

(* Closing the inbox keeps the types of the inbox. *)
LEMMA CloseInboxType ==
    ASSUME TypeOK, CloseInbox
    PROVE  /\ closed' \in BOOLEAN /\ bytes' \in 0..MaxTurnBytes
           /\ pending' \in Seq(Message) /\ Len(pending') <= MaxPending
           /\ subs' \in [Ids -> Submission]
           /\ channel' \in [Requests -> {"none", "open", "sent", "dropped"}]
  BY SteeringAssumption DEF TypeOK, CloseInbox, NoSub, Submission

LEMMA AcknowledgeType ==
    ASSUME TypeOK, NEW m \in Message, Acknowledge(m)
    PROVE  /\ subs' \in [Ids -> Submission]
           /\ channel' \in [Requests -> {"none", "open", "sent", "dropped"}]
  <1>1. m.id \in Ids
    BY DEF Message
  <1>2. CASE subs[m.id].status = "none"
    BY <1>2 DEF TypeOK, Acknowledge
  <1>3. CASE subs[m.id].status # "none"
    BY <1>1, <1>3 DEF TypeOK, Acknowledge, Submission
  <1> QED
    BY <1>2, <1>3

LEMMA SteerTurnType ==
    ASSUME TypeOK, NEW r \in Requests, NEW m \in Message, SteerTurn(r, m)
    PROVE  TypeOK'
  <1> USE SteeringAssumption
  <1>1. m.id \in Ids /\ m.text \in Texts
    BY DEF Message
  <1>2. asked' \in [Requests -> Message \cup {NoMessage}]
    BY DEF SteerTurn, TypeOK
  <1>3. CASE Reject(r, m)
    BY <1>2, <1>3 DEF SteerTurn, Reject, TypeOK, inboxVars, agentVars, driverVars
  <1>4. CASE JoinApplied(r, m)
    BY <1>2, <1>4 DEF SteerTurn, JoinApplied, TypeOK, agentVars, driverVars
  <1>5. CASE JoinWaiting(r, m)
    <2>1. subs' \in [Ids -> Submission]
      BY <1>1, <1>5 DEF JoinWaiting, TypeOK, Submission
    <2> QED
      BY <1>2, <1>5, <2>1 DEF SteerTurn, JoinWaiting, TypeOK, agentVars, driverVars
  <1>6. CASE HasRoom(m) /\ Enqueue(r, m)
    <2>1. subs' \in [Ids -> Submission]
      BY <1>1, <1>6 DEF Enqueue, TypeOK, Submission
    <2>2. bytes' \in 0..MaxTurnBytes
      BY <1>1, <1>6 DEF Enqueue, HasRoom, TypeOK
    <2>3. /\ pending' \in Seq(Message) /\ Len(pending') <= MaxPending
          /\ accepted' \in Seq(Message)
      BY <1>1, <1>6 DEF Enqueue, HasRoom, TypeOK
    <2> QED
      BY <1>2, <1>6, <2>1, <2>2, <2>3
         DEF SteerTurn, Enqueue, TypeOK, agentVars, driverVars
  <1> QED
    BY <1>3, <1>4, <1>5, <1>6 DEF SteerTurn, Submit

LEMMA AgentType ==
    ASSUME TypeOK, Agent
    PROVE  TypeOK'
  <1>1. CASE AgentTakePending
    BY <1>1, SteeringAssumption DEF AgentTakePending, AgentStep, TypeOK, clientVars, driverVars
  <1>2. CASE AgentSendApplied
    <2>1. /\ context' \in Seq(Message) /\ events' \in Seq(Message)
          /\ held' \in Seq(Message)
      BY <1>2, ShiftHead DEF AgentSendApplied, TypeOK
    <2> QED
      BY <1>2, <2>1 DEF AgentSendApplied, AgentStep, TypeOK, inboxVars, clientVars
  <1>3. ASSUME NEW to \in {"boundary", "taking", "model", "replied", "tools",
                             "closing", "failed", "cancelled"},
               NEW from, AgentMove(from, to)
        PROVE  TypeOK'
    BY <1>3 DEF AgentMove, AgentStep, TypeOK, inboxVars, clientVars, driverVars
  <1>4. CASE AgentBoundary \/ AgentCallModel \/ AgentModelReplied
             \/ AgentToolsDone \/ AgentCheckPending \/ AgentFails
    BY <1>3, <1>4 DEF AgentBoundary, AgentCallModel, AgentModelReplied,
       AgentToolsDone, AgentCheckPending, AgentFails
  <1>5. CASE AgentFinishIfEmpty
    <2>1. CASE pending # <<>>
      BY <1>3, <1>5, <2>1 DEF AgentFinishIfEmpty
    <2>2. CASE pending = <<>>
      BY <1>5, <2>2 DEF AgentFinishIfEmpty, AgentStep, TypeOK, clientVars, driverVars
    <2> QED
      BY <2>1, <2>2
  <1> QED
    BY <1>1, <1>2, <1>4, <1>5 DEF Agent

LEMMA DriverType ==
    ASSUME TypeOK, Driver
    PROVE  TypeOK'
  <1>1. CASE DriverCommit
    <2>1. /\ Head(events) \in Message
          /\ events' \in Seq(Message) /\ journal' \in Seq(Message)
      BY <1>1, ShiftHead DEF DriverCommit, TypeOK
    <2>2. /\ subs' \in [Ids -> Submission]
          /\ channel' \in [Requests -> {"none", "open", "sent", "dropped"}]
      BY <1>1, <2>1, AcknowledgeType DEF DriverCommit
    <2> QED
      BY <1>1, <2>1, <2>2 DEF DriverCommit, TypeOK, clientVars, agentVars
  <1>2. CASE DriverCommitFails
    <2>1. events' \in Seq(Message)
      BY <1>2, ShiftHead DEF DriverCommitFails, TypeOK
    <2>2. CloseInbox
      BY <1>2 DEF DriverCommitFails
    <2> QED
      BY <1>2, <2>1, <2>2, CloseInboxType
         DEF DriverCommitFails, TypeOK, clientVars, agentVars
  <1>3. CASE DriverResult
    BY <1>3 DEF DriverResult, TypeOK, inboxVars, clientVars, agentVars
  <1>4. CASE DriverStop
    BY <1>4 DEF DriverStop, TypeOK, inboxVars, clientVars, agentVars
  <1>5. CASE DriverTerminate
    <2>1. CloseInbox
      BY <1>5 DEF DriverTerminate
    <2> QED
      BY <1>5, <2>1, CloseInboxType DEF DriverTerminate, TypeOK, clientVars, agentVars
  <1>6. CASE DriverRelease
    <2>1. CloseInbox
      BY <1>6 DEF DriverRelease
    <2> QED
      BY <1>6, <2>1, CloseInboxType DEF DriverRelease, TypeOK, clientVars
  <1>7. CASE DropInbox
    BY <1>7 DEF DropInbox, TypeOK, clientVars, agentVars
  <1> QED
    BY <1>1, <1>2, <1>3, <1>4, <1>5, <1>6, <1>7 DEF Driver

LEMMA AnswersType ==
    ASSUME TypeOK, NEW r \in Requests, Answers(r)
    PROVE  TypeOK'
  <1>1. PICK what \in {"applied", "notApplied", "stopped"} : Answer(r, what)
    BY DEF Answers, AnswerApplied, AnswerNotApplied, AnswerStopped
  <1> QED
    BY <1>1 DEF Answer, TypeOK, inboxVars, agentVars, driverVars

LEMMA TypeInductive == TypeOK /\ [Next]_vars => TypeOK'
  <1> SUFFICES ASSUME TypeOK, [Next]_vars PROVE TypeOK'
    OBVIOUS
  <1>1. CASE \E r \in Requests, m \in Message : SteerTurn(r, m)
    BY <1>1, SteerTurnType
  <1>2. CASE \E r \in Requests : Answers(r)
    BY <1>2, AnswersType
  <1>3. CASE Agent
    BY <1>3, AgentType
  <1>4. CASE Driver
    BY <1>4, DriverType
  <1>5. CASE Cancel
    BY <1>5 DEF Cancel, TypeOK, inboxVars, clientVars, agentVars, driverVars
  <1>6. CASE UNCHANGED vars
    BY <1>6 DEF vars, TypeOK, inboxVars, clientVars, agentVars, driverVars
  <1> QED
    BY <1>1, <1>2, <1>3, <1>4, <1>5, <1>6 DEF Next

LEMMA TypeInit == Init => TypeOK
  <1> SUFFICES ASSUME Init PROVE TypeOK
    OBVIOUS
  <1>1. NoSub \in Submission
    BY DEF NoSub, Submission
  <1>2. subs \in [Ids -> Submission]
    BY <1>1 DEF Init
  <1>3. /\ \A S : <<>> \in Seq(S)
        /\ Len(pending) <= MaxPending /\ bytes \in 0..MaxTurnBytes
    BY SteeringAssumption DEF Init
  <1> QED
    BY <1>2, <1>3 DEF Init, TypeOK

(* In every reachable state the inbox respects MAX_PENDING and             *)
(* MAX_TURN_INPUT_BYTES and every variable has its type.                   *)
THEOREM SteeringTypeCorrect == Spec => []TypeOK
  BY TypeInit, TypeInductive, PTL DEF Spec

-----------------------------------------------------------------------------
(* The invariant behind the safety properties. *)

(* What SteerTurn does is one of four things. *)
LEMMA SteerTurnCases ==
    ASSUME NEW r \in Requests, NEW m \in Message, SteerTurn(r, m)
    PROVE  \/ Reject(r, m)
           \/ /\ JoinApplied(r, m) /\ subs[m.id].status = "applied"
              /\ subs[m.id].text = m.text
           \/ /\ JoinWaiting(r, m) /\ subs[m.id].text = m.text
              /\ subs[m.id].status \notin {"none", "applied"}
           \/ /\ Enqueue(r, m) /\ HasRoom(m) /\ ~closed
              /\ subs[m.id].status = "none"
  BY DEF SteerTurn, Submit

LEMMA PipelineUnchanged ==
    ASSUME Pipeline,
           UNCHANGED <<driver, accepted, journal, events, held, pending, closed, agent>>
    PROVE  Pipeline'
  BY DEF Pipeline

LEMMA PipelineSteer ==
    ASSUME TypeOK, Pipeline, NEW r \in Requests, NEW m \in Message, SteerTurn(r, m)
    PROVE  Pipeline'
  <1>1. CASE Reject(r, m) \/ JoinApplied(r, m) \/ JoinWaiting(r, m)
    BY <1>1, PipelineUnchanged DEF SteerTurn, Reject, JoinApplied, JoinWaiting,
       inboxVars, agentVars, driverVars
  <1>2. CASE Enqueue(r, m) /\ ~closed
    <2>1. driver \in {"loop", "drain"}
      BY <1>2 DEF Pipeline
    <2>2. accepted = Pipe(journal, events, held, pending)
      BY <2>1 DEF Pipeline
    <2>3. /\ journal \in Seq(Message) /\ events \in Seq(Message)
          /\ held \in Seq(Message) /\ pending \in Seq(Message)
          /\ accepted \in Seq(Message)
      BY DEF TypeOK
    <2>5. pending' = Append(pending, m)
      BY <1>2 DEF Enqueue
    <2>6. /\ UNCHANGED <<driver, journal, events, held, closed, agent>>
          /\ accepted' = Append(accepted, m)
      BY <1>2 DEF SteerTurn, Enqueue, agentVars, driverVars
    <2>7. /\ Len(journal) <= Len(accepted')
          /\ \A k \in 1..Len(journal) : journal[k] = accepted'[k]
      <3>1. /\ Len(journal) <= Len(accepted)
            /\ \A k \in 1..Len(journal) : journal[k] = accepted[k]
        BY DEF Pipeline
      <3> QED
        BY ONLY <2>3, <2>6, <3>1, m \in Message
    <2>8. accepted' = Pipe(journal', events', held', pending')
      <3>1. \A s, t \in Seq(Message) : s \o Append(t, m) = Append(s \o t, m)
        OBVIOUS
      <3>2. journal \o events \in Seq(Message) /\ held \o pending \in Seq(Message)
        BY ONLY <2>3
      <3>3. held \o Append(pending, m) = Append(held \o pending, m)
        BY <2>3, <3>1, Zenon
      <3>4. (journal \o events) \o Append(held \o pending, m)
              = Append((journal \o events) \o (held \o pending), m)
        BY <3>1, <3>2, Zenon
      <3> QED
        BY <2>2, <2>5, <2>6, <3>3, <3>4, Zenon DEF Pipe
    <2> QED
      BY <2>1, <2>6, <2>7, <2>8 DEF Pipeline
  <1> QED
    BY <1>1, <1>2, SteerTurnCases

LEMMA PipelineAgent ==
    ASSUME TypeOK, Pipeline, Agent
    PROVE  Pipeline'
  <1>1. CASE AgentTakePending
    <2>1. held = <<>> /\ held' = pending /\ pending' = <<>>
      BY <1>1 DEF AgentTakePending, AgentStep, Pipeline
    <2>2. Pipe(journal, events, pending, <<>>) = Pipe(journal, events, <<>>, pending)
      <3>1. /\ journal \in Seq(Message) /\ events \in Seq(Message)
            /\ pending \in Seq(Message)
        BY DEF TypeOK
      <3> QED
        BY <3>1, PipeTake, Zenon
    <2> QED
      BY <1>1, <2>1, <2>2 DEF AgentTakePending, AgentStep, Pipeline, clientVars, driverVars
  <1>2. CASE AgentSendApplied
    <2>1. /\ held # <<>> /\ held' = Tail(held) /\ events' = Append(events, Head(held))
          /\ UNCHANGED <<driver, accepted, journal, pending, closed, agent>>
          /\ driver = "loop" /\ agent = "apply"
      BY <1>2 DEF AgentSendApplied, AgentStep, inboxVars, clientVars
    <2>2. /\ journal \in Seq(Message) /\ events \in Seq(Message)
          /\ held \in Seq(Message) /\ pending \in Seq(Message)
      BY DEF TypeOK
    <2>3. Pipe(journal, Append(events, Head(held)), Tail(held), pending)
            = Pipe(journal, events, held, pending)
      BY <2>1, <2>2, PipeShiftMiddle, Zenon
    <2>4. accepted = Pipe(journal, events, held, pending)
      BY <2>1 DEF Pipeline
    <2>5. accepted' = Pipe(journal', events', held', pending')
      BY <2>1, <2>3, <2>4, Zenon
    <2> QED
      BY <2>1, <2>5 DEF Pipeline
  <1>3. ASSUME NEW from, NEW to, AgentMove(from, to), to # "apply",
               from = "apply" => held = <<>>
        PROVE  Pipeline'
    BY <1>3 DEF AgentMove, AgentStep, Pipeline, inboxVars, clientVars, driverVars
  <1>4. CASE AgentBoundary \/ AgentCallModel \/ AgentModelReplied
             \/ AgentToolsDone \/ AgentCheckPending \/ AgentFails
    BY <1>3, <1>4 DEF AgentBoundary, AgentCallModel, AgentModelReplied,
       AgentToolsDone, AgentCheckPending, AgentFails
  <1>5. CASE AgentFinishIfEmpty
    <2>1. CASE pending # <<>>
      BY <1>3, <1>5, <2>1 DEF AgentFinishIfEmpty
    <2>2. CASE pending = <<>>
      BY <1>5, <2>2 DEF AgentFinishIfEmpty, AgentStep, Pipeline, clientVars, driverVars
    <2> QED
      BY <2>1, <2>2
  <1> QED
    BY <1>1, <1>2, <1>4, <1>5 DEF Agent

(* An event that is committed extends the journal by the next accepted     *)
(* message.                                                                *)
LEMMA CommitNext ==
    ASSUME TypeOK, Pipeline, DriverCommit
    PROVE  /\ Len(journal) + 1 <= Len(accepted)
           /\ accepted[Len(journal) + 1] = Head(events)
           /\ Head(events) \in Message
  <1>1. /\ events # <<>> /\ events \in Seq(Message) /\ journal \in Seq(Message)
        /\ held \in Seq(Message) /\ pending \in Seq(Message)
    BY DEF DriverCommit, TypeOK
  <1>2. accepted = Pipe(journal, events, held, pending)
    BY DEF DriverCommit, Pipeline
  <1>3. Head(events) \in Message
    BY <1>1, ShiftHead
  <1>4. /\ Len(journal) + 1 <= Len(Pipe(journal, events, held, pending))
        /\ Pipe(journal, events, held, pending)[Len(journal) + 1] = Head(events)
    BY <1>1, PipeNext, Zenon
  <1> QED
    BY <1>2, <1>3, <1>4, Zenon

LEMMA PipelineDriver ==
    ASSUME TypeOK, Pipeline, Driver
    PROVE  Pipeline'
  <1>1. CASE DriverCommit
    <2>1. /\ events # <<>> /\ driver \in {"loop", "drain"}
          /\ journal' = Append(journal, Head(events)) /\ events' = Tail(events)
          /\ UNCHANGED <<driver, accepted, held, pending, closed, agent>>
      BY <1>1 DEF DriverCommit, clientVars, agentVars
    <2>2. Pipe(Append(journal, Head(events)), Tail(events), held, pending)
            = Pipe(journal, events, held, pending)
      <3>1. /\ journal \in Seq(Message) /\ events \in Seq(Message)
            /\ held \in Seq(Message) /\ pending \in Seq(Message)
            /\ events # <<>>
        BY <2>1 DEF TypeOK
      <3> QED
        BY ONLY <3>1, PipeShiftFirst
    <2>3. /\ Len(journal) + 1 <= Len(accepted)
          /\ accepted[Len(journal) + 1] = Head(events)
          /\ Head(events) \in Message
      BY <1>1, CommitNext
    <2>4. /\ Len(journal') = Len(journal) + 1
          /\ journal'[Len(journal) + 1] = Head(events)
          /\ \A k \in 1..Len(journal) : journal'[k] = journal[k]
      BY <2>1, <2>3, AppendProperties DEF TypeOK
    <2>5. Len(journal) \in Nat /\ \A k \in 1..Len(journal) : journal[k] = accepted[k]
      BY LenProperties DEF Pipeline, TypeOK
    <2>6. /\ Len(journal') <= Len(accepted)
          /\ \A k \in 1..Len(journal') : journal'[k] = accepted[k]
      BY <2>3, <2>4, <2>5
    <2>7. accepted' = Pipe(journal', events', held', pending')
      BY <2>1, <2>2 DEF Pipeline
    <2> QED
      BY <2>1, <2>6, <2>7 DEF Pipeline
  <1>2. CASE DriverCommitFails
    BY <1>2 DEF DriverCommitFails, CloseInbox, Pipeline, clientVars, agentVars
  <1>3. CASE DriverResult \/ DriverStop
    BY <1>3 DEF DriverResult, DriverStop, Pipeline, inboxVars, clientVars, agentVars
  <1>4. CASE DriverTerminate
    BY <1>4 DEF DriverTerminate, CloseInbox, Pipeline, clientVars, agentVars
  <1>5. CASE DriverRelease
    BY <1>5 DEF DriverRelease, CloseInbox, Pipeline, clientVars
  <1>6. CASE DropInbox
    BY <1>6 DEF DropInbox, Pipeline, clientVars, agentVars
  <1> QED
    BY <1>1, <1>2, <1>3, <1>4, <1>5, <1>6 DEF Driver

LEMMA PipelineInductive == TypeOK /\ Pipeline /\ [Next]_vars => Pipeline'
  <1> SUFFICES ASSUME TypeOK, Pipeline, [Next]_vars PROVE Pipeline'
    OBVIOUS
  <1>1. CASE \E r \in Requests, m \in Message : SteerTurn(r, m)
    BY <1>1, PipelineSteer
  <1>2. CASE \E r \in Requests : Answers(r)
    BY <1>2, PipelineUnchanged DEF Answers, AnswerApplied, AnswerNotApplied,
       AnswerStopped, Answer, inboxVars, agentVars, driverVars
  <1>3. CASE Agent
    BY <1>3, PipelineAgent
  <1>4. CASE Driver
    BY <1>4, PipelineDriver
  <1>5. CASE Cancel
    BY <1>5, PipelineUnchanged DEF Cancel, inboxVars, clientVars, agentVars, driverVars
  <1>6. CASE UNCHANGED vars
    BY <1>6, PipelineUnchanged DEF vars, inboxVars, clientVars, agentVars, driverVars
  <1> QED
    BY <1>1, <1>2, <1>3, <1>4, <1>5, <1>6 DEF Next

-----------------------------------------------------------------------------
(* Accepted identifiers stay distinct. *)

LEMMA AcceptedTyped ==
    ASSUME TypeOK
    PROVE  /\ Len(accepted) \in Nat /\ Len(journal) \in Nat
           /\ \A k \in 1..Len(accepted) :
                /\ accepted[k] \in Message /\ accepted[k].id \in Ids
                /\ accepted[k].text \in Texts
           /\ \A k \in 1..Len(journal) : journal[k] \in Message
  <1>1. accepted \in Seq(Message) /\ journal \in Seq(Message)
    BY DEF TypeOK
  <1>2. /\ Len(accepted) \in Nat /\ Len(journal) \in Nat
        /\ \A k \in 1..Len(accepted) : accepted[k] \in Message
        /\ \A k \in 1..Len(journal) : journal[k] \in Message
    BY <1>1
  <1>3. \A m \in Message : m.id \in Ids /\ m.text \in Texts
    BY DEF Message
  <1> QED
    BY <1>2, <1>3

LEMMA DistinctSteer ==
    ASSUME TypeOK, Distinct, NEW r \in Requests, NEW m \in Message, SteerTurn(r, m)
    PROVE  Distinct'
  <1>1. m.id \in Ids
    BY DEF Message
  <1>2. CASE Reject(r, m) \/ JoinApplied(r, m)
    BY <1>2 DEF Distinct, Reject, JoinApplied, inboxVars
  <1>3. CASE JoinWaiting(r, m) /\ subs[m.id].status \notin {"none", "applied"}
    <2>1. UNCHANGED <<closed, accepted>>
      BY <1>3 DEF JoinWaiting
    <2>2. \A i \in Ids : subs'[i].status = subs[i].status
      BY <1>1, <1>3 DEF JoinWaiting, TypeOK
    <2> QED
      BY <2>1, <2>2, AcceptedTyped DEF Distinct
  <1>4. CASE Enqueue(r, m) /\ ~closed /\ subs[m.id].status = "none"
    <2>1. /\ Len(accepted') = Len(accepted) + 1
          /\ accepted'[Len(accepted) + 1] = m
          /\ \A k \in 1..Len(accepted) : accepted'[k] = accepted[k]
      BY <1>4, AppendProperties DEF Enqueue, TypeOK
    <2>2. \A k \in 1..Len(accepted) : accepted[k].id # m.id
      BY <1>4 DEF Distinct
    <2>3. \A j, k \in 1..Len(accepted') :
            accepted'[j].id = accepted'[k].id => j = k
      BY <2>1, <2>2, AcceptedTyped DEF Distinct
    <2>4. \A i \in Ids : i # m.id => subs'[i] = subs[i]
      BY <1>1, <1>4 DEF Enqueue, TypeOK
    <2>5. subs'[m.id].status # "none"
      BY <1>1, <1>4 DEF Enqueue, TypeOK
    <2>6. \A k \in 1..Len(accepted') : subs'[accepted'[k].id].status # "none"
      BY <1>4, <2>1, <2>2, <2>4, <2>5, AcceptedTyped DEF Distinct
    <2> QED
      BY <2>3, <2>6 DEF Distinct
  <1> QED
    BY <1>2, <1>3, <1>4, SteerTurnCases

LEMMA AcknowledgeKnown ==
    ASSUME TypeOK, NEW m \in Message, Acknowledge(m)
    PROVE  \A i \in Ids : subs[i].status # "none" => subs'[i].status # "none"
  <1>1. m.id \in Ids
    BY DEF Message
  <1>2. CASE subs[m.id].status = "none"
    BY <1>2 DEF Acknowledge
  <1>3. CASE subs[m.id].status # "none"
    <2>1. /\ \A i \in Ids : i # m.id => subs'[i] = subs[i]
          /\ subs'[m.id].status = "applied"
      BY <1>1, <1>3 DEF Acknowledge, TypeOK
    <2> QED
      BY <2>1
  <1> QED
    BY <1>2, <1>3

LEMMA DistinctInductive == TypeOK /\ Distinct /\ [Next]_vars => Distinct'
  <1> SUFFICES ASSUME TypeOK, Distinct, [Next]_vars PROVE Distinct'
    OBVIOUS
  <1>1. CASE \E r \in Requests, m \in Message : SteerTurn(r, m)
    BY <1>1, DistinctSteer
  <1>2. CASE UNCHANGED <<closed, subs, accepted>>
    BY <1>2 DEF Distinct
  <1>3. CASE closed' /\ UNCHANGED accepted
    BY <1>3 DEF Distinct
  <1>4. CASE \E r \in Requests : Answers(r)
    BY <1>2, <1>4 DEF Answers, AnswerApplied, AnswerNotApplied, AnswerStopped,
       Answer, inboxVars
  <1>5. CASE Agent
    BY <1>2, <1>3, <1>5 DEF Agent, AgentTakePending, AgentSendApplied, AgentBoundary,
       AgentCallModel, AgentModelReplied, AgentToolsDone, AgentCheckPending,
       AgentFinishIfEmpty, AgentFails, AgentMove, inboxVars, clientVars
  <1>6. CASE DriverCommit
    <2>1. Head(events) \in Message
      BY <1>6, ShiftHead DEF DriverCommit, TypeOK
    <2>2. Head(events).id \in Ids
      BY <2>1 DEF Message
    <2>3. \A i \in Ids : subs[i].status # "none" => subs'[i].status # "none"
      <3>1. Acknowledge(Head(events))
        BY <1>6 DEF DriverCommit
      <3> QED
        BY <2>1, <3>1, AcknowledgeKnown
    <2>4. UNCHANGED <<closed, accepted>>
      BY <1>6 DEF DriverCommit, clientVars
    <2> QED
      BY <2>3, <2>4, AcceptedTyped DEF Distinct
  <1>7. CASE DriverCommitFails \/ DriverTerminate \/ DriverRelease
    BY <1>3, <1>7 DEF DriverCommitFails, DriverTerminate, DriverRelease, CloseInbox,
       clientVars
  <1>8. CASE DriverResult \/ DriverStop \/ DropInbox \/ Cancel \/ UNCHANGED vars
    BY <1>2, <1>8 DEF DriverResult, DriverStop, DropInbox, Cancel, vars, inboxVars,
       clientVars
  <1> QED
    BY <1>1, <1>4, <1>5, <1>6, <1>7, <1>8 DEF Next, Driver

-----------------------------------------------------------------------------
(* A message is acknowledged only once it is in the journal. *)

LEMMA CommittedUnchanged ==
    ASSUME Committed, UNCHANGED <<subs, channel, asked, reply, journal, accepted>>,
           driver' = driver \/ (driver # "gone" /\ driver' # "gone")
    PROVE  Committed'
  BY DEF Committed

(* A steering request that has not been made waits for nothing. *)
LEMMA FreshRequest ==
    ASSUME Committed, NEW r \in Requests, reply[r] = "none"
    PROVE  /\ channel[r] # "sent"
           /\ \A i \in Ids : r \notin subs[i].waiters
  BY DEF Committed

LEMMA CommittedSteer ==
    ASSUME TypeOK, Committed, NEW r \in Requests, NEW m \in Message, SteerTurn(r, m)
    PROVE  Committed'
  <1>1. /\ m.id \in Ids /\ m.text \in Texts
        /\ m = [id |-> m.id, text |-> m.text]
    BY DEF Message
  <1>2. /\ channel[r] # "sent" /\ \A i \in Ids : r \notin subs[i].waiters
    BY FreshRequest DEF SteerTurn
  <1>3. /\ UNCHANGED <<journal, driver>>
        /\ asked'[r] = m
        /\ \A q \in Requests : q # r => asked'[q] = asked[q]
    BY DEF SteerTurn, TypeOK, driverVars
  <1>4. \A i \in Ids : subs[i].waiters \subseteq Requests
    BY DEF TypeOK, Submission
  <1>5. CASE Reject(r, m)
    <2>1. /\ UNCHANGED <<subs, channel, accepted>> /\ reply'[r] = "rejected"
          /\ \A q \in Requests : q # r => reply'[q] = reply[q]
      BY <1>5 DEF Reject, TypeOK, inboxVars
    <2> QED
      BY <1>2, <1>3, <1>4, <2>1 DEF Committed
  <1>6. CASE JoinApplied(r, m) /\ subs[m.id].status = "applied"
             /\ subs[m.id].text = m.text
    <2>1. /\ UNCHANGED <<subs, accepted>> /\ reply'[r] = "waiting" /\ channel'[r] = "sent"
          /\ \A q \in Requests : q # r => reply'[q] = reply[q] /\ channel'[q] = channel[q]
      BY <1>6 DEF JoinApplied, TypeOK
    <2>2. m \in ItemsOf(journal)
      BY <1>1, <1>6 DEF Committed
    <2> QED
      BY <1>2, <1>3, <1>4, <2>1, <2>2 DEF Committed
  <1>7. CASE JoinWaiting(r, m) /\ subs[m.id].text = m.text
             /\ subs[m.id].status \notin {"none", "applied"}
    <2>1. subs[m.id].status = "waiting"
      BY <1>1, <1>7 DEF TypeOK, Submission
    <2>2. /\ UNCHANGED accepted /\ reply'[r] = "waiting" /\ channel'[r] = "open"
          /\ \A q \in Requests : q # r => reply'[q] = reply[q] /\ channel'[q] = channel[q]
      BY <1>7 DEF JoinWaiting, TypeOK
    <2>3. /\ \A i \in Ids : i # m.id => subs'[i] = subs[i]
          /\ subs'[m.id].status = "waiting" /\ subs'[m.id].text = m.text
          /\ subs'[m.id].waiters = subs[m.id].waiters \cup {r}
      BY <1>1, <1>7, <2>1 DEF JoinWaiting, TypeOK
    <2> QED
      BY <1>1, <1>2, <1>3, <1>4, <1>7, <2>1, <2>2, <2>3 DEF Committed
  <1>8. CASE Enqueue(r, m) /\ subs[m.id].status = "none"
    <2>1. /\ reply'[r] = "waiting" /\ channel'[r] = "open"
          /\ \A q \in Requests : q # r => reply'[q] = reply[q] /\ channel'[q] = channel[q]
      BY <1>8 DEF Enqueue, TypeOK
    <2>2. /\ \A i \in Ids : i # m.id => subs'[i] = subs[i]
          /\ subs'[m.id].status = "waiting" /\ subs'[m.id].text = m.text
          /\ subs'[m.id].waiters = {r}
      BY <1>1, <1>8 DEF Enqueue, TypeOK
    <2>3. ItemsOf(accepted') = ItemsOf(accepted) \cup {m}
      BY <1>8, ItemsAppend DEF Enqueue, TypeOK
    <2> QED
      BY <1>1, <1>2, <1>3, <1>4, <2>1, <2>2, <2>3 DEF Committed
  <1> QED
    BY <1>5, <1>6, <1>7, <1>8, SteerTurnCases

LEMMA CommittedAnswer ==
    ASSUME TypeOK, Committed, NEW r \in Requests, Answers(r)
    PROVE  Committed'
  <1>1. /\ UNCHANGED <<subs, channel, asked, journal, accepted, driver>>
        /\ reply'[r] \in {"applied", "notApplied", "stopped"}
        /\ reply'[r] = "applied" => channel[r] = "sent"
        /\ \A q \in Requests : q # r => reply'[q] = reply[q]
    BY DEF Answers, AnswerApplied, AnswerNotApplied, AnswerStopped, Answer, TypeOK,
       inboxVars, driverVars
  <1>2. \A i \in Ids : subs[i].waiters \subseteq Requests
    BY DEF TypeOK, Submission
  <1> QED
    BY <1>1, <1>2 DEF Committed

(* Distinct identifiers: an accepted message is known by its identifier. *)
LEMMA SameMessage ==
    ASSUME TypeOK, Distinct, NEW x \in ItemsOf(accepted), NEW y \in ItemsOf(accepted),
           x.id = y.id
    PROVE  x = y
  BY DEF Distinct, ItemsOf

(* A request waits for the one message it carries. *)
LEMMA WaiterOfOne ==
    ASSUME Committed
    PROVE  \A i \in Ids : \A q \in subs[i].waiters : asked[q].id = i
  <1> SUFFICES ASSUME NEW i \in Ids, NEW q \in subs[i].waiters
               PROVE  asked[q].id = i
    OBVIOUS
  <1>1. asked[q] = [id |-> i, text |-> subs[i].text]
    BY DEF Committed
  <1> QED
    BY <1>1

LEMMA CommittedCommit ==
    ASSUME TypeOK, Pipeline, Distinct, Committed, DriverCommit
    PROVE  Committed'
  <1> DEFINE h == Head(events)
  <1>1. /\ Len(journal) + 1 <= Len(accepted) /\ accepted[Len(journal) + 1] = h
        /\ h \in Message
    BY CommitNext
  <1>2. h.id \in Ids /\ h = [id |-> h.id, text |-> h.text]
    BY <1>1 DEF Message
  <1>3. /\ UNCHANGED <<asked, reply, accepted, driver>> /\ Acknowledge(h)
        /\ journal' = Append(journal, h) /\ driver # "gone"
    BY DEF DriverCommit, clientVars
  <1>4. ItemsOf(journal') = ItemsOf(journal) \cup {h}
    BY <1>1, <1>3, ItemsAppend DEF TypeOK
  <1>5. h \in ItemsOf(accepted)
    BY <1>1, AcceptedTyped DEF ItemsOf
  <1>6. ItemsOf(journal) \subseteq ItemsOf(accepted)
    BY ItemsPrefix DEF TypeOK, Pipeline
  <1> HIDE DEF h
  <1>7. \A i \in Ids : subs[i].waiters \subseteq Requests
    BY DEF TypeOK, Submission
  <1>8. CASE subs[h.id].status = "none"
    BY <1>3, <1>4, <1>8 DEF Committed, Acknowledge
  <1>9. CASE subs[h.id].status # "none"
    <2>1. subs[h.id].status \in {"waiting", "applied"}
      BY <1>2, <1>9 DEF TypeOK, Submission
    <2>2. [id |-> h.id, text |-> subs[h.id].text] \in ItemsOf(accepted)
      BY <1>2, <1>6, <2>1 DEF Committed
    <2>3. [id |-> h.id, text |-> subs[h.id].text] = h
      BY <1>5, <2>2, SameMessage
    <2>4. /\ \A i \in Ids : i # h.id => subs'[i] = subs[i]
          /\ subs'[h.id].status = "applied" /\ subs'[h.id].text = subs[h.id].text
          /\ subs'[h.id].waiters = {}
          /\ \A q \in Requests :
               channel'[q] = IF q \in subs[h.id].waiters THEN "sent" ELSE channel[q]
      BY <1>2, <1>3, <1>9 DEF Acknowledge, TypeOK
    <2>5. \A q \in subs[h.id].waiters : asked[q] = h /\ reply[q] # "none"
      BY <1>2, <2>3 DEF Committed
    <2>6. \A i \in Ids : i # h.id => subs[i].waiters \cap subs[h.id].waiters = {}
      BY <1>2, WaiterOfOne
    <2> QED
      BY <1>2, <1>3, <1>4, <1>7, <2>3, <2>4, <2>5, <2>6 DEF Committed
  <1> QED
    BY <1>8, <1>9

LEMMA CommittedClose ==
    ASSUME TypeOK, Committed, CloseInbox, UNCHANGED <<asked, reply, journal, accepted>>,
           driver # "gone"
    PROVE  Committed'
  <1>1. \A i \in Ids : subs[i].waiters \subseteq Requests
    BY DEF TypeOK, Submission
  <1>2. \A i \in Ids : \/ subs'[i] = subs[i]
                       \/ subs'[i].status = "none" /\ subs'[i].waiters = {}
    BY DEF CloseInbox, NoSub
  <1>3. \A i \in Ids : (\E m \in ItemsOf(pending) : m.id = i) => subs'[i].waiters = {}
    BY DEF CloseInbox, NoSub
  <1>4. \A q \in Requests : \/ channel'[q] = channel[q]
                            \/ /\ channel'[q] = "dropped"
                               /\ \E m \in ItemsOf(pending) : q \in subs[m.id].waiters
    BY DEF CloseInbox
  <1>5. \A m \in ItemsOf(pending) : m.id \in Ids
    <2>1. pending \in Seq(Message) /\ \A m \in Message : m.id \in Ids
      BY DEF TypeOK, Message
    <2>2. \A m \in ItemsOf(pending) : m \in Message
      BY <2>1 DEF ItemsOf
    <2> QED
      BY <2>1, <2>2
  <1>6. \A i \in Ids : \A q \in subs[i].waiters : asked[q].id = i /\ channel[q] = "open"
    BY WaiterOfOne DEF Committed
  <1>7. \A i \in Ids : \A q \in subs'[i].waiters : channel'[q] = "open"
    BY <1>1, <1>2, <1>3, <1>4, <1>5, <1>6
  <1>8. \A q \in Requests : channel[q] = "sent" <=> channel'[q] = "sent"
    BY <1>4, <1>5, <1>6
  <1> QED
    BY <1>2, <1>7, <1>8 DEF Committed

LEMMA CommittedInductive ==
    TypeOK /\ Pipeline /\ Distinct /\ Committed /\ [Next]_vars => Committed'
  <1> SUFFICES ASSUME TypeOK, Pipeline, Distinct, Committed, [Next]_vars
               PROVE  Committed'
    OBVIOUS
  <1>1. CASE \E r \in Requests, m \in Message : SteerTurn(r, m)
    BY <1>1, CommittedSteer
  <1>2. CASE \E r \in Requests : Answers(r)
    BY <1>2, CommittedAnswer
  <1>3. CASE Agent
    BY <1>3, CommittedUnchanged DEF Agent, AgentTakePending, AgentSendApplied,
       AgentBoundary, AgentCallModel, AgentModelReplied, AgentToolsDone,
       AgentCheckPending, AgentFinishIfEmpty, AgentFails, AgentMove, inboxVars,
       clientVars, driverVars
  <1>4. CASE DriverCommit
    BY <1>4, CommittedCommit
  <1>5. CASE DriverCommitFails \/ DriverTerminate \/ DriverRelease
    BY <1>5, CommittedClose DEF DriverCommitFails, DriverTerminate, DriverRelease,
       clientVars
  <1>6. CASE DriverResult \/ DriverStop
    BY <1>6, CommittedUnchanged DEF DriverResult, DriverStop, inboxVars, clientVars
  <1>7. CASE DropInbox
    <2>1. /\ UNCHANGED <<subs, asked, reply, journal, accepted>> /\ driver' = "gone"
          /\ \A q \in Requests : channel[q] = "sent" <=> channel'[q] = "sent"
      BY <1>7 DEF DropInbox, clientVars
    <2> QED
      BY <2>1 DEF Committed
  <1>8. CASE Cancel \/ UNCHANGED vars
    BY <1>8, CommittedUnchanged DEF Cancel, vars, inboxVars, clientVars, driverVars
  <1> QED
    BY <1>1, <1>2, <1>3, <1>4, <1>5, <1>6, <1>7, <1>8 DEF Next, Driver

-----------------------------------------------------------------------------
(* A dropped sender's message is not, and will not be, committed.          *)

(* Steps that touch neither the submissions nor the transcript. *)
LEMMA UndeliveredUnchanged ==
    ASSUME Undelivered, UNCHANGED <<subs, channel, asked, reply, journal>>,
           closed' => pending' = <<>>,
           driver' \in {"loop", "drain"} => driver \in {"loop", "drain"}
    PROVE  Undelivered'
  BY DEF Undelivered

(* Requests arrive, join or are refused. *)
LEMMA UndeliveredSteer ==
    ASSUME TypeOK, Pipeline, Distinct, Committed, Undelivered,
           NEW r \in Requests, NEW m \in Message, SteerTurn(r, m)
    PROVE  Undelivered'
  <1>1. /\ m.id \in Ids /\ m.text \in Texts
        /\ m = [id |-> m.id, text |-> m.text]
    BY DEF Message
  <1>2. /\ channel[r] \notin {"sent", "dropped"}
        /\ \A i \in Ids : r \notin subs[i].waiters
    BY FreshRequest DEF SteerTurn, Undelivered
  <1>3. channel[r] # "open"
    BY <1>2 DEF Undelivered
  <1>4. /\ UNCHANGED <<journal, driver>>
        /\ \A q \in Requests : q # r => asked'[q] = asked[q]
    BY DEF SteerTurn, TypeOK, driverVars
  <1>5. CASE Reject(r, m)
    <2>1. /\ UNCHANGED <<subs, channel, closed, pending>> /\ reply'[r] = "rejected"
          /\ \A q \in Requests : q # r => reply'[q] = reply[q]
      BY <1>5 DEF Reject, TypeOK, inboxVars
    <2> QED
      BY <1>2, <1>3, <1>4, <2>1 DEF Undelivered
  <1>6. CASE JoinApplied(r, m)
    <2>1. /\ UNCHANGED <<subs, closed, pending>>
          /\ reply'[r] = "waiting" /\ channel'[r] = "sent"
          /\ \A q \in Requests : q # r => reply'[q] = reply[q] /\ channel'[q] = channel[q]
      BY <1>6 DEF JoinApplied, TypeOK
    <2> QED
      BY <1>4, <2>1 DEF Undelivered
  <1>7. CASE JoinWaiting(r, m) /\ subs[m.id].text = m.text
             /\ subs[m.id].status \notin {"none", "applied"}
    <2>1. /\ UNCHANGED <<closed, pending>>
          /\ reply'[r] = "waiting" /\ channel'[r] = "open"
          /\ \A q \in Requests : q # r => reply'[q] = reply[q] /\ channel'[q] = channel[q]
      BY <1>7 DEF JoinWaiting, TypeOK
    <2>2. /\ \A i \in Ids : i # m.id => subs'[i] = subs[i]
          /\ subs'[m.id].status = subs[m.id].status /\ subs'[m.id].text = subs[m.id].text
          /\ subs'[m.id].waiters = subs[m.id].waiters \cup {r}
      BY <1>1, <1>7 DEF JoinWaiting, TypeOK
    <2> QED
      BY <1>1, <1>4, <2>1, <2>2 DEF Undelivered
  <1>8. CASE Enqueue(r, m) /\ ~closed /\ subs[m.id].status = "none"
    <2>1. /\ closed' = closed /\ reply'[r] = "waiting" /\ channel'[r] = "open"
          /\ \A q \in Requests : q # r => reply'[q] = reply[q] /\ channel'[q] = channel[q]
      BY <1>8 DEF Enqueue, TypeOK
    <2>2. /\ \A i \in Ids : i # m.id => subs'[i] = subs[i]
          /\ subs'[m.id].status = "waiting" /\ subs'[m.id].text = m.text
          /\ subs'[m.id].waiters = {r}
      BY <1>1, <1>8 DEF Enqueue, TypeOK
    <2>3. subs[m.id].waiters = {}
      BY <1>1, <1>8 DEF Committed
    <2>4. m \notin ItemsOf(accepted)
      BY <1>8 DEF Distinct, ItemsOf
    <2>5. m \notin ItemsOf(journal)
      BY <2>4, ItemsPrefix DEF TypeOK, Pipeline
    <2> QED
      BY <1>1, <1>4, <1>8, <2>1, <2>2, <2>3, <2>5 DEF Undelivered
  <1> QED
    BY <1>5, <1>6, <1>7, <1>8, SteerTurnCases

(* "Not applied" is the answer of a dropped sender only. *)
LEMMA UndeliveredAnswer ==
    ASSUME TypeOK, Undelivered, NEW r \in Requests, Answers(r)
    PROVE  Undelivered'
  <1>1. /\ UNCHANGED <<subs, channel, asked, journal, driver, closed, pending>>
        /\ reply'[r] \in {"applied", "notApplied", "stopped"}
        /\ reply'[r] = "notApplied" => channel[r] = "dropped"
        /\ \A q \in Requests : q # r => reply'[q] = reply[q]
    BY DEF Answers, AnswerApplied, AnswerNotApplied, AnswerStopped, Answer, TypeOK,
       inboxVars, driverVars
  <1> QED
    BY <1>1 DEF Undelivered

(* A committed message is acknowledged at once, and no other is touched. *)
LEMMA UndeliveredCommit ==
    ASSUME TypeOK, Pipeline, Committed, Undelivered, DriverCommit
    PROVE  Undelivered'
  <1> DEFINE h == Head(events)
  <1>1. h \in Message
    BY CommitNext
  <1>2. h.id \in Ids
    BY <1>1 DEF Message
  <1>3. /\ UNCHANGED <<asked, reply, driver, closed, pending>> /\ Acknowledge(h)
        /\ journal' = Append(journal, h) /\ driver \in {"loop", "drain"}
    BY DEF DriverCommit, clientVars
  <1>4. ItemsOf(journal') = ItemsOf(journal) \cup {h}
    BY <1>1, <1>3, ItemsAppend DEF TypeOK
  <1> HIDE DEF h
  <1>5. \A i \in Ids : i # h.id => [id |-> i, text |-> subs[i].text] # h
    OBVIOUS
  <1>6. CASE subs[h.id].status = "none"
    BY <1>3, <1>4, <1>5, <1>6 DEF Undelivered, Acknowledge
  <1>7. CASE subs[h.id].status # "none"
    <2>1. /\ \A i \in Ids : i # h.id => subs'[i] = subs[i]
          /\ subs'[h.id].status = "applied"
      BY <1>2, <1>3, <1>7 DEF Acknowledge, TypeOK
    <2>2. \A q \in Requests :
            channel'[q] = IF q \in subs[h.id].waiters THEN "sent" ELSE channel[q]
      BY <1>3, <1>7 DEF Acknowledge
    <2> QED
      BY <1>2, <1>3, <1>4, <1>5, <2>1, <2>2 DEF Undelivered
  <1> QED
    BY <1>6, <1>7

(* A message still in the inbox is behind everything that is committed. *)
LEMMA PendingNotCommitted ==
    ASSUME TypeOK, Pipeline, Distinct, Undelivered, NEW m \in ItemsOf(pending)
    PROVE  m \in ItemsOf(accepted) /\ m \notin ItemsOf(journal)
  <1>1. PICK k \in 1..Len(pending) : m = pending[k]
    BY DEF ItemsOf
  <1>2. /\ journal \in Seq(Message) /\ events \in Seq(Message)
        /\ held \in Seq(Message) /\ pending \in Seq(Message)
    BY DEF TypeOK
  <1>3. pending # <<>>
    BY <1>1, <1>2
  <1>4. accepted = (journal \o events) \o (held \o pending)
    BY <1>3 DEF Undelivered, Pipeline, Pipe
  <1>5. /\ Len(accepted) = Len(journal) + Len(events) + Len(held) + Len(pending)
        /\ accepted[Len(journal) + Len(events) + Len(held) + k] = pending[k]
    <2> DEFINE a == journal \o events
               b == held \o pending
    <2>1. /\ a \in Seq(Message) /\ Len(a) = Len(journal) + Len(events)
      BY <1>2
    <2>2. /\ b \in Seq(Message) /\ Len(b) = Len(held) + Len(pending)
          /\ b[Len(held) + k] = pending[k]
      BY <1>2
    <2>3. accepted = a \o b
      BY <1>4
    <2>4. Len(journal) \in Nat /\ Len(events) \in Nat /\ Len(held) \in Nat
      BY <1>2
    <2> HIDE DEF a, b
    <2>5. Len(held) + k \in 1..Len(b)
      BY <1>2, <2>2, <2>4
    <2>6. /\ Len(accepted) = Len(a) + Len(b)
          /\ \A n \in 1..Len(b) : accepted[Len(a) + n] = b[n]
      BY <2>1, <2>2, <2>3, ConcatIndex
    <2> QED
      BY <1>2, <2>1, <2>2, <2>4, <2>5, <2>6
  <1> DEFINE p == Len(journal) + Len(events) + Len(held) + k
  <1>6. /\ p \in 1..Len(accepted) /\ accepted[p] = m /\ p > Len(journal)
        /\ Len(journal) \in Nat
    BY <1>1, <1>2, <1>5
  <1> HIDE DEF p
  <1>7. m \in ItemsOf(accepted)
    BY <1>6 DEF ItemsOf
  <1>8. ASSUME NEW j \in 1..Len(journal), journal[j] = m PROVE FALSE
    <2>1. j \in 1..Len(accepted) /\ accepted[j] = m
      BY <1>6, <1>8, AcceptedTyped DEF Pipeline
    <2> QED
      BY <1>6, <2>1 DEF Distinct
  <1> QED
    BY <1>7, <1>8 DEF ItemsOf

(* Closing the inbox drops the senders of the messages it still holds. *)
LEMMA UndeliveredClose ==
    ASSUME TypeOK, Pipeline, Distinct, Committed, Undelivered, CloseInbox,
           UNCHANGED <<asked, reply, journal>>, driver' \notin {"loop", "drain"}
    PROVE  Undelivered'
  <1>1. \A i \in Ids : \/ /\ subs'[i] = subs[i]
                          /\ ~\E m \in ItemsOf(pending) : m.id = i
                       \/ subs'[i].status = "none"
    BY DEF CloseInbox, NoSub
  <1>2. \A q \in Requests :
          IF \E m \in ItemsOf(pending) : q \in subs[m.id].waiters
          THEN channel'[q] = "dropped" ELSE channel'[q] = channel[q]
    BY DEF CloseInbox
  <1>3. \A m \in ItemsOf(pending) : m.id \in Ids
    <2>1. pending \in Seq(Message) /\ \A m \in Message : m.id \in Ids
      BY DEF TypeOK, Message
    <2>2. \A m \in ItemsOf(pending) : m \in Message
      BY <2>1 DEF ItemsOf
    <2> QED
      BY <2>1, <2>2
  <1>4. ASSUME NEW q \in Requests, NEW m \in ItemsOf(pending), q \in subs[m.id].waiters
        PROVE  asked[q] \notin ItemsOf(journal) /\ reply[q] # "none"
    <2>1. /\ asked[q] = [id |-> m.id, text |-> subs[m.id].text]
          /\ subs[m.id].status = "waiting" /\ reply[q] # "none"
      BY <1>3, <1>4 DEF Committed
    <2>2. asked[q] \in ItemsOf(accepted) /\ asked[q].id = m.id
      BY <1>3, <2>1 DEF Committed
    <2>3. asked[q] = m
      BY <2>2, PendingNotCommitted, SameMessage
    <2> QED
      BY <2>1, <2>3, PendingNotCommitted
  <1>5. \A q \in Requests : channel'[q] = "open" => \E i \in Ids : q \in subs'[i].waiters
    <2> SUFFICES ASSUME NEW q \in Requests, channel'[q] = "open"
                 PROVE  \E i \in Ids : q \in subs'[i].waiters
      OBVIOUS
    <2>1. channel[q] = "open" /\ ~\E m \in ItemsOf(pending) : q \in subs[m.id].waiters
      BY <1>2
    <2>2. PICK i \in Ids : q \in subs[i].waiters
      BY <2>1 DEF Undelivered
    <2>3. subs'[i] = subs[i]
      BY <2>1, <2>2 DEF CloseInbox
    <2> QED
      BY <2>2, <2>3
  <1>6. \A q \in Requests : channel'[q] = "dropped" =>
          asked'[q] \notin ItemsOf(journal') /\ reply'[q] # "none"
    BY <1>2, <1>4 DEF Undelivered
  <1>7. \A q \in Requests : reply'[q] = "notApplied" => channel'[q] = "dropped"
    BY <1>2 DEF Undelivered
  <1>8. closed' => pending' = <<>>
    BY DEF CloseInbox
  <1> QED
    BY <1>1, <1>5, <1>6, <1>7, <1>8 DEF Undelivered

(* Every step keeps the promise behind "not applied". *)
LEMMA UndeliveredInductive ==
    TypeOK /\ Pipeline /\ Distinct /\ Committed /\ Undelivered /\ [Next]_vars => Undelivered'
  <1> SUFFICES ASSUME TypeOK, Pipeline, Distinct, Committed, Undelivered, [Next]_vars
               PROVE  Undelivered'
    OBVIOUS
  <1>1. CASE \E r \in Requests, m \in Message : SteerTurn(r, m)
    BY <1>1, UndeliveredSteer
  <1>2. CASE \E r \in Requests : Answers(r)
    BY <1>2, UndeliveredAnswer
  <1>3. CASE Agent
    <2>1. /\ UNCHANGED <<subs, channel, asked, reply, journal, driver>>
          /\ closed' => pending' = <<>>
      BY <1>3 DEF Agent, AgentTakePending, AgentSendApplied, AgentBoundary,
         AgentCallModel, AgentModelReplied, AgentToolsDone, AgentCheckPending,
         AgentFinishIfEmpty, AgentFails, AgentMove, inboxVars, clientVars, driverVars,
         Undelivered
    <2> QED
      BY <2>1, UndeliveredUnchanged
  <1>4. CASE DriverCommit
    BY <1>4, UndeliveredCommit
  <1>5. CASE DriverCommitFails \/ DriverTerminate \/ DriverRelease
    BY <1>5, UndeliveredClose DEF DriverCommitFails, DriverTerminate, DriverRelease,
       clientVars
  <1>6. CASE DriverResult \/ DriverStop
    BY <1>6, UndeliveredUnchanged
    DEF DriverResult, DriverStop, inboxVars, clientVars, Undelivered
  <1>7. CASE DropInbox
    <2>1. /\ UNCHANGED <<subs, asked, reply, journal, closed, pending>>
          /\ driver = "done" /\ driver' = "gone"
          /\ \A q \in Requests :
               channel'[q] = IF channel[q] = "open" THEN "dropped" ELSE channel[q]
      BY <1>7 DEF DropInbox, clientVars
    <2>2. \A q \in Requests : channel[q] = "open" =>
            asked[q] \notin ItemsOf(journal) /\ reply[q] # "none"
      <3> SUFFICES ASSUME NEW q \in Requests, channel[q] = "open"
                   PROVE  asked[q] \notin ItemsOf(journal) /\ reply[q] # "none"
        OBVIOUS
      <3>1. PICK i \in Ids : q \in subs[i].waiters
        BY DEF Undelivered
      <3>2. /\ subs[i].status = "waiting" /\ reply[q] # "none"
            /\ asked[q] = [id |-> i, text |-> subs[i].text]
        BY <3>1 DEF Committed
      <3> QED
        BY <3>2 DEF Undelivered
    <2> QED
      BY <2>1, <2>2 DEF Undelivered
  <1>8. CASE Cancel \/ UNCHANGED vars
    BY <1>8, UndeliveredUnchanged
    DEF Cancel, vars, inboxVars, clientVars, driverVars, Undelivered
  <1> QED
    BY <1>1, <1>2, <1>3, <1>4, <1>5, <1>6, <1>7, <1>8 DEF Next, Driver

-----------------------------------------------------------------------------
(* A successful turn loses nothing.                                        *)

(* Steps that touch neither the context, the events nor the transcript. *)
LEMMA LosslessUnchanged ==
    ASSUME Lossless, UNCHANGED <<context, journal, events, accepted, driver, outcome>>,
           driver = "loop" \/ agent' = agent, agent' = "ok" => closed'
    PROVE  Lossless'
  BY DEF Lossless, SuccessLosesNothing

(* Before the driver leaves its loop, nothing has ended; afterwards the    *)
(* inbox accepts nothing.                                                  *)
LEMMA LosslessSteer ==
    ASSUME TypeOK, Pipeline, Lossless, NEW r \in Requests, NEW m \in Message,
           SteerTurn(r, m)
    PROVE  Lossless'
  <1>1. /\ UNCHANGED <<context, journal, events, driver, outcome, agent, closed>>
        /\ closed => UNCHANGED accepted
    BY SteerTurnCases
    DEF SteerTurn, Reject, JoinApplied, JoinWaiting, Enqueue, inboxVars, agentVars,
        driverVars
  <1> QED
    BY <1>1 DEF Lossless, SuccessLosesNothing, Pipeline

(* A message is shown to the model and sent on in one step. *)
LEMMA LosslessAgent ==
    ASSUME TypeOK, Lossless, Agent
    PROVE  Lossless'
  <1>1. CASE AgentSendApplied
    <2>1. /\ context' = Append(context, Head(held)) /\ events' = Append(events, Head(held))
          /\ UNCHANGED <<journal, accepted, driver, outcome, closed>>
          /\ driver = "loop" /\ agent' = "apply" /\ held # <<>>
      BY <1>1 DEF AgentSendApplied, AgentStep, inboxVars, clientVars
    <2>2. context = journal \o events
      BY <2>1 DEF Lossless
    <2>3. /\ journal \in Seq(Message) /\ events \in Seq(Message) /\ held \in Seq(Message)
      BY DEF TypeOK
    <2>4. Head(held) \in Message
      BY <2>1, <2>3
    <2>5. journal \o Append(events, Head(held)) = Append(journal \o events, Head(held))
      BY <2>3, <2>4, ConcatAppend
    <2>6. context' = journal' \o events'
      BY <2>1, <2>2, <2>5
    <2> QED
      BY <2>1, <2>6 DEF Lossless, SuccessLosesNothing
  <1>2. CASE ~AgentSendApplied
    <2>1. /\ UNCHANGED <<context, journal, events, accepted, driver, outcome>>
          /\ driver = "loop" /\ (agent' = "ok" => closed')
      BY <1>2 DEF Agent, AgentTakePending, AgentBoundary, AgentCallModel,
         AgentModelReplied, AgentToolsDone, AgentCheckPending, AgentFinishIfEmpty,
         AgentFails, AgentMove, AgentStep, inboxVars, clientVars, driverVars
    <2> QED
      BY <2>1, LosslessUnchanged
  <1> QED
    BY <1>1, <1>2

(* The driver commits what it was sent, and ends. *)
LEMMA LosslessDriver ==
    ASSUME TypeOK, Pipeline, Undelivered, Lossless, Driver
    PROVE  Lossless'
  <1>1. CASE DriverCommit
    <2>1. /\ journal' = Append(journal, Head(events)) /\ events' = Tail(events)
          /\ UNCHANGED <<context, accepted, driver, outcome, closed, agent>>
          /\ driver \in {"loop", "drain"} /\ events # <<>>
      BY <1>1 DEF DriverCommit, clientVars, agentVars
    <2>2. journal \in Seq(Message) /\ events \in Seq(Message)
      BY DEF TypeOK
    <2>3. journal' \o events' = journal \o events
      BY <2>1, <2>2, ShiftHead
    <2> QED
      BY <2>1, <2>3 DEF Lossless, SuccessLosesNothing
  <1>2. CASE DriverCommitFails
    BY <1>2 DEF DriverCommitFails, CloseInbox, agentVars, Lossless, SuccessLosesNothing
  <1>3. CASE DriverResult \/ DriverStop
    BY <1>3 DEF DriverResult, DriverStop, inboxVars, clientVars, agentVars, Lossless,
       SuccessLosesNothing
  <1>4. CASE DriverTerminate
    <2>1. /\ driver = "drain" /\ events = <<>> /\ driver' = "release"
          /\ outcome' \in {outcome, "error"} /\ closed'
          /\ UNCHANGED <<accepted, journal, context, agent>>
      BY <1>4 DEF DriverTerminate, CloseInbox, clientVars, agentVars
    <2>2. ASSUME outcome = "ok" PROVE journal = accepted /\ context = accepted
      <3>1. agent = "ok" /\ closed
        BY <2>1, <2>2 DEF Lossless
      <3>2. held = <<>> /\ pending = <<>>
        BY <3>1 DEF Pipeline, Undelivered
      <3>3. accepted = Pipe(journal, <<>>, <<>>, <<>>) /\ context = journal \o <<>>
        BY <2>1, <3>2 DEF Pipeline, Lossless
      <3>4. journal \in Seq(Message)
        BY DEF TypeOK
      <3> QED
        BY <3>3, <3>4 DEF Pipe
    <2> QED
      BY <2>1, <2>2 DEF Lossless, SuccessLosesNothing
  <1>5. CASE DriverRelease \/ DropInbox
    BY <1>5 DEF DriverRelease, DropInbox, CloseInbox, clientVars, agentVars, Lossless,
       SuccessLosesNothing
  <1> QED
    BY <1>1, <1>2, <1>3, <1>4, <1>5 DEF Driver

(* Every step keeps success lossless. *)
LEMMA LosslessInductive ==
    TypeOK /\ Pipeline /\ Undelivered /\ Lossless /\ [Next]_vars => Lossless'
  <1> SUFFICES ASSUME TypeOK, Pipeline, Undelivered, Lossless, [Next]_vars
               PROVE  Lossless'
    OBVIOUS
  <1>1. CASE \E r \in Requests, m \in Message : SteerTurn(r, m)
    BY <1>1, LosslessSteer
  <1>2. CASE \E r \in Requests : Answers(r)
    BY <1>2, LosslessUnchanged DEF Answers, AnswerApplied, AnswerNotApplied,
       AnswerStopped, Answer, inboxVars, agentVars, driverVars, Lossless
  <1>3. CASE Agent
    BY <1>3, LosslessAgent
  <1>4. CASE Driver
    BY <1>4, LosslessDriver
  <1>5. CASE Cancel \/ UNCHANGED vars
    BY <1>5, LosslessUnchanged
    DEF Cancel, vars, inboxVars, clientVars, agentVars, driverVars, Lossless
  <1> QED
    BY <1>1, <1>2, <1>3, <1>4, <1>5 DEF Next

-----------------------------------------------------------------------------
LEMMA InvInit == Init => IInv
  <1> SUFFICES ASSUME Init PROVE IInv
    OBVIOUS
  <1>1. TypeOK
    BY TypeInit
  <1>2. Pipeline
    <2>1. Pipe(<<>>, <<>>, <<>>, <<>>) = <<>>
      BY DEF Pipe
    <2> QED
      BY <2>1 DEF Init, Pipeline
  <1>3. Distinct
    BY DEF Init, Distinct
  <1>4. Committed
    BY DEF Init, Committed, NoSub
  <1>5. Undelivered
    BY DEF Init, Undelivered, NoSub
  <1>6. Lossless
    BY DEF Init, Lossless, SuccessLosesNothing
  <1> QED
    BY <1>1, <1>2, <1>3, <1>4, <1>5, <1>6 DEF IInv

LEMMA InvInductive == IInv /\ [Next]_vars => IInv'
  BY TypeInductive, PipelineInductive, DistinctInductive, CommittedInductive,
     UndeliveredInductive, LosslessInductive
  DEF IInv

LEMMA Invariant == Spec => []IInv
  BY InvInit, InvInductive, PTL DEF Spec

(* Whatever is retried, cancelled or lost by a failing append, the saved   *)
(* transcript holds accepted steering messages in acceptance order, with   *)
(* no gap and no duplicate.                                                *)
THEOREM JournalKeepsOrder == Spec => []JournalIsPrefixOfAccepted
  <1>1. IInv => JournalIsPrefixOfAccepted
    <2> SUFFICES ASSUME IInv PROVE JournalIsPrefixOfAccepted
      OBVIOUS
    <2>1. Len(accepted) \in Nat /\ Len(journal) \in Nat
      BY AcceptedTyped DEF IInv
    <2> QED
      BY <2>1 DEF IInv, Pipeline, Distinct, JournalIsPrefixOfAccepted
  <1> QED
    BY <1>1, Invariant, PTL

(* A client that is told its steering message was applied finds that       *)
(* message in the saved transcript.                                        *)
THEOREM AppliedAnswersAreTrue == Spec => []AppliedIsCommitted
  <1>1. IInv => AppliedIsCommitted
    BY DEF IInv, Committed, AppliedIsCommitted
  <1> QED
    BY <1>1, Invariant, PTL

(* A client that is told its steering message was not applied may send it  *)
(* again: the saved transcript does not hold it, and never will.           *)
THEOREM NotAppliedAnswersAreTrue == Spec => []NotAppliedIsNotCommitted
  <1>1. IInv => NotAppliedIsNotCommitted
    BY DEF IInv, Undelivered, NotAppliedIsNotCommitted
  <1> QED
    BY <1>1, Invariant, PTL

(* A turn that ends successfully has committed, and shown the model, every *)
(* steering message its inbox ever accepted.                               *)
THEOREM SuccessIsLossless == Spec => []SuccessLosesNothing
  BY Invariant, PTL DEF IInv, Lossless
=============================================================================
