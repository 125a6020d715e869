------------------------ MODULE ConversationProofs ------------------------
(***************************************************************************)
(* The proofs of Conversation: every request answers the calls it shows, a *)
(* restart recalls what the history knows, and a turn that did not         *)
(* complete is marked.                                                     *)
(*                                                                         *)
(* What the timeline is replayed to is a recursive function; its values    *)
(* are reasoned about by induction on sets of numbers and of sequences.    *)
(***************************************************************************)
EXTENDS Conversation, FiniteSetTheorems, WellFoundedInduction, TLAPS

-----------------------------------------------------------------------------
(* The timeline.                                                           *)

Kinds == {"user", "text", "tool", "compacted"}
Rows == [kind : Kinds, turn : 0..MaxTurns, fact : Facts, out : BOOLEAN, image : BOOLEAN,
         covers : SUBSET Facts]
Outs == {"text", "empty", "image"}
Events == {TextSent, SteeringApplied} \cup {Proposed(f) : f \in Facts}
          \cup {Output(f, o) : f \in Facts, o \in Outs} \cup {Compacted(fs) : fs \in SUBSET Facts}

(* A row of the client carries input of its turn, a row of a tool a call   *)
(* of its turn; only a compaction belongs to no turn.                      *)
RowOK(r) ==
    /\ r.kind = "compacted" <=> r.turn = 0
    /\ r.kind = "user" => r.fact \in {Prompt(r.turn), Steered(r.turn)}
    /\ r.kind = "tool" => r.fact.turn = r.turn

Ordered(R) ==
    \A i, j \in DOMAIN R : i < j /\ R[i].turn # 0 /\ R[j].turn # 0 => R[i].turn <= R[j].turn

(* R is the timeline of a thread that has had T turns.                     *)
Timeline(R, T) ==
    /\ R \in Seq(Rows)
    /\ \A i \in DOMAIN R : RowOK(R[i]) /\ R[i].turn <= T
    /\ Ordered(R)

ToolFacts(R) == {R[i].fact : i \in {j \in DOMAIN R : R[j].kind = "tool"}}
NoOut(R) == {R[i].fact : i \in {j \in DOMAIN R : R[j].kind = "tool" /\ ~R[j].out}}

(* What a restart recalls does not depend on how the turns ended.          *)
AllDone == [t \in Turns |-> "completed"]
Recalls(R) == Known(Replayed(R, AllDone).context)

-----------------------------------------------------------------------------
(* The messages.                                                           *)

UserOf(m, t) == m.role = "user" /\ m.knows \subseteq {Prompt(t), Steered(t)}

Shaped(m) ==
    /\ m \in Messages
    /\ m.role = "user" => m.knows # {} /\ \E t \in Turns : UserOf(m, t)
    /\ m.role # "assistant" => m.calls = {}

Context(ms) == ms \in Seq(Messages) /\ \A i \in DOMAIN ms : Shaped(ms[i])

(* Each call is excused by X or answered before the next message of the    *)
(* user.                                                                   *)
Replied(ms, i, f) ==
    \E j \in (i + 1)..Len(ms) : ms[j] = Answer(f) /\ \A k \in i..j : ~FromUser(ms[k])
AllReplied(ms, X) ==
    \A i \in DOMAIN ms : \A f \in ms[i].calls : f \in X \/ Replied(ms, i, f)

(* The calls and replies of ms are about calls in F.                       *)
Mentions(ms, F) ==
    \A i \in DOMAIN ms : /\ ms[i].calls \subseteq F
                         /\ ms[i].role = "tool" => ms[i].knows \subseteq F

(* A call of Q is not answered, and the user says nothing after it.        *)
Waiting(ms, Q) ==
    /\ \A i \in DOMAIN ms : \A f \in ms[i].calls \cap Q : \A k \in i..Len(ms) : ~FromUser(ms[k])
    /\ \A i \in DOMAIN ms : \A f \in Q : ms[i] # Answer(f)

(* Input of the client stands in the order of the turns, below turn T ...  *)
InOrder(ms) ==
    \A i, k \in DOMAIN ms : \A t, u \in Turns :
        i <= k /\ UserOf(ms[i], t) /\ UserOf(ms[k], u) => t <= u
Below(ms, T) == \A i \in DOMAIN ms : \A t \in Turns : UserOf(ms[i], t) => t < T

(* ... and that of a turn below T outside D is followed by the note.       *)
Marked(ms, i, t) ==
    \E j \in (i + 1)..Len(ms) :
        /\ ms[j] = Note
        /\ \A k \in i..j : ms[k].role = "user" => ms[k].knows \subseteq {Prompt(t), Steered(t)}
MarkedBelow(ms, T, D) ==
    \A i \in DOMAIN ms : \A t \in Turns :
        t < T /\ UserOf(ms[i], t) => t \in D \/ Marked(ms, i, t)

-----------------------------------------------------------------------------
(* The inductive invariant.                                                *)

(* The timelines that a death of the process may leave, and the one that   *)
(* the end of the turn leaves.                                             *)
TimelinesOf(rs, t, es) == {StoredAfter(rs, t, SubSeq(es, 1, n)) : n \in 0..Len(es)}
Timelines == TimelinesOf(rows, turn, channel)
Final == Stored(channel)

Queued == {queue[i].fact : i \in DOMAIN queue}
TurnFacts(t) == {f \in Facts : f.turn = t}
UpTo(t) == {f \in Facts : f.turn <= t}
(* The calls that turn t may have made before the answer to its request s. *)
MadeBefore(t, s) == {f \in Facts : f.turn < t \/ (f.turn = t /\ f.step < s)}
Made == MadeBefore(turn, IF pc = "asking" THEN step ELSE step + 1)

Lost == {f \in Facts : f.turn \in dropped \cup unstored}
Done == {t \in Turns : status[t] = "completed" \/ t \in unstored}

(* R recalls what is known, but for what is lost or had no output.         *)
Agrees(known, R, lost) ==
    known \ (lost \cup NoOut(R)) = Recalls(R) \ (lost \cup NoOut(R))

(* R is a timeline of turn t and, apart from the facts of that turn, has   *)
(* the tools without output in no and recalls what is known outside X.     *)
Stands(R, t, known, X, no) ==
    /\ Timeline(R, t)
    /\ NoOut(R) \ TurnFacts(t) = no \ TurnFacts(t)
    /\ Recalls(R) \ X = known \ X

Types ==
    /\ TypeOK
    /\ channel \in Seq(Events)
    /\ queue # <<>> => pc \in {"calling", "approving", "running"}
    /\ turn = 0 => pc = "idle" /\ history = <<>> /\ rows = <<>>
    /\ \A i, j \in DOMAIN queue : i # j => queue[i].fact # queue[j].fact
    /\ Queued \subseteq {f \in Facts : f.turn = turn /\ f.step = step}

(* What the process may leave agrees with what the thread knows.  The      *)
(* prompt is stored before the turn's copy holds it.                       *)
Excused == Lost \cup NoOut(rows) \cup TurnFacts(turn)
Held == Known(messages) \cup (IF pc = "setup" THEN {Prompt(turn)} ELSE {})

RecallOK ==
    /\ Timeline(rows, turn)
    /\ pc = "idle" => Agrees(Known(history), rows, Lost)
    /\ pc # "idle" =>
         /\ \A R \in Timelines : Stands(R, turn, Known(history), Excused, NoOut(rows))
         /\ Known(messages) \ Excused = Known(history) \ Excused
         /\ Agrees(Held, Final, Lost)
         /\ NoOut(rows) \cap TurnFacts(turn) = {}

(* The calls of the turn that are stored were made, and are not queued but *)
(* for the one that runs, whose row is the last.                           *)
RunningRow == Row("tool", turn, Call.fact)
CallsOK ==
    /\ pc # "idle" => ToolFacts(Final) \subseteq Made
    /\ pc \notin {"approving", "running"} => ToolFacts(Final) \cap Queued = {}
    /\ pc \in {"approving", "running"} =>
         /\ Final # <<>> /\ Last(Final) = RunningRow
         /\ ToolFacts(Front(Final)) \cap Queued = {}
    /\ pc = "setup" =>
         /\ channel = <<>> /\ rows # <<>>
         /\ Last(rows) = Row("user", turn, Prompt(turn))

ContextsOK ==
    /\ Context(history) /\ Context(messages)
    /\ InOrder(history) /\ InOrder(messages)
    /\ Below(history, IF pc = "idle" THEN turn + 1 ELSE turn)
    /\ Below(messages, IF pc = "setup" THEN turn ELSE turn + 1)

RepliesOK ==
    /\ AllReplied(history, NoOut(rows))
    /\ Mentions(history, UpTo(IF pc = "idle" THEN turn ELSE turn - 1))
    /\ pc # "idle" =>
         /\ AllReplied(messages, NoOut(rows) \cup Queued)
         /\ Mentions(messages, Made)
         /\ Waiting(messages, Queued)

MarksOK ==
    /\ MarkedBelow(history, IF pc = "idle" THEN turn + 1 ELSE turn, Done)
    /\ MarkedBelow(messages, turn, Done)

Inv == Types /\ RecallOK /\ CallsOK /\ ContextsOK /\ RepliesOK /\ MarksOK

-----------------------------------------------------------------------------
(* Induction.  The theorems of NaturalsInduction take an operator; a set   *)
(* that contains 0 and is closed under the successor says the same.        *)

(* A set of numbers has a least element.                                   *)
LEMMA LeastElement ==
    ASSUME NEW S \in SUBSET Nat, S # {}
    PROVE  \E m \in S : \A i \in S : m <= i
  <1> DEFINE R == {ss \in Nat \X Nat : ss[1] < ss[2]}
  <1>1. IsWellFoundedOn(R, Nat)
    BY NatLessThanWellFounded DEF OpToRel
  <1>2. PICK m \in S : \A i \in S : ~(<<i, m>> \in R)
    <2> HIDE DEF R
    <2> QED
      BY <1>1, WFMin
  <1>3. \A i \in S : ~(i < m)
    BY <1>2
  <1> QED
    BY <1>2, <1>3

(* Induction over the numbers, stated for a set.                           *)
LEMMA SetInduction ==
    ASSUME NEW S, 0 \in S, \A n \in Nat : n \in S => n + 1 \in S
    PROVE  Nat \subseteq S
  <1> DEFINE out == Nat \ S
  <1>1. SUFFICES ASSUME out # {} PROVE FALSE
    OBVIOUS
  <1>2. PICK m \in out : \A i \in out : m <= i
    <2>1. out \in SUBSET Nat
      OBVIOUS
    <2> HIDE DEF out
    <2> QED
      BY <1>1, <2>1, LeastElement
  <1>3. m # 0 /\ m - 1 \in Nat /\ ~(m <= m - 1)
    OBVIOUS
  <1>4. m - 1 \in S
    BY <1>2, <1>3
  <1> QED
    BY <1>3, <1>4

LEMMA AppendFacts ==
    ASSUME NEW E, NEW s \in Seq(E), NEW e \in E
    PROVE  /\ Append(s, e) \in Seq(E)
           /\ Len(s) \in Nat
           /\ Len(Append(s, e)) = Len(s) + 1
           /\ DOMAIN s = 1..Len(s)
           /\ DOMAIN Append(s, e) = 1..(Len(s) + 1)
           /\ \A i \in 1..Len(s) : Append(s, e)[i] = s[i]
           /\ Append(s, e)[Len(s) + 1] = e
           /\ Append(s, e) # <<>>
  OBVIOUS

LEMMA LastOf ==
    ASSUME NEW E, NEW s \in Seq(E), s # <<>>
    PROVE  /\ Len(s) \in Nat /\ Len(s) # 0
           /\ SubSeq(s, 1, Len(s) - 1) \in Seq(E)
           /\ s[Len(s)] \in E
           /\ s = Append(SubSeq(s, 1, Len(s) - 1), s[Len(s)])
  OBVIOUS

(* Every sequence is made by appending.                                    *)
LEMMA SeqInduction ==
    ASSUME NEW E, NEW S, <<>> \in S,
           \A s \in Seq(E) : \A e \in E : s \in S => Append(s, e) \in S
    PROVE  Seq(E) \subseteq S
  <1> DEFINE N == {n \in Nat : \A s \in Seq(E) : Len(s) = n => s \in S}
  <1>1. 0 \in N
    OBVIOUS
  <1>2. ASSUME NEW n \in Nat, n \in N PROVE n + 1 \in N
    <2>1. SUFFICES ASSUME NEW s \in Seq(E), Len(s) = n + 1 PROVE s \in S
      OBVIOUS
    <2> DEFINE front == SubSeq(s, 1, Len(s) - 1)
    <2>2. s # <<>>
      BY <2>1
    <2>3. front \in Seq(E) /\ Len(front) = n
      BY <2>1
    <2>4. front \in S
      BY <1>2, <2>3
    <2>5. s[Len(s)] \in E /\ s = Append(front, s[Len(s)])
      BY <2>2, LastOf
    <2> HIDE DEF front
    <2> QED
      BY <2>3, <2>4, <2>5
  <1> HIDE DEF N
  <1>3. Nat \subseteq N
    BY <1>1, <1>2, SetInduction
  <1> QED
    BY <1>3 DEF N

-----------------------------------------------------------------------------
(* Recursive functions over a sequence: storing the events of turn p, and  *)
(* replaying rows with the ends p.                                         *)

Step(how, p, x, e) == IF how = "store" THEN Store(x, p, e) ELSE Replay(p, x, e)

(* g holds what x has become after each of the first n elements of es.     *)
Stages(g, n, how, p, x, es) ==
    /\ g = [i \in 0..n |-> g[i]]
    /\ g[0] = x
    /\ \A i \in 1..n : g[i] = Step(how, p, g[i - 1], es[i])

(* A recursion over es has every stage, ...                                *)
LEMMA StagesExist ==
    ASSUME NEW how, NEW p, NEW x, NEW es
    PROVE  \A n \in Nat : \E g : Stages(g, n, how, p, x, es)
  <1> DEFINE S == {n \in Nat : \E g : Stages(g, n, how, p, x, es)}
  <1>1. 0 \in S
    <2> DEFINE z == [i \in 0..0 |-> x]
    <2>1. Stages(z, 0, how, p, x, es)
      BY DEF Stages
    <2> QED
      BY <2>1
  <1>2. ASSUME NEW n \in Nat, n \in S PROVE n + 1 \in S
    <2>1. PICK g : Stages(g, n, how, p, x, es)
      BY <1>2
    <2>2. PICK last : last = Step(how, p, g[n], es[n + 1])
      OBVIOUS
    <2> DEFINE h == [i \in 0..(n + 1) |-> IF i = n + 1 THEN last ELSE g[i]]
    <2>3. \A i \in 0..n : h[i] = g[i]
      OBVIOUS
    <2>4. h[n + 1] = last /\ h = [i \in 0..(n + 1) |-> h[i]]
      OBVIOUS
    <2>5. \A i \in 1..(n + 1) : i - 1 \in 0..n /\ (i \in 1..n \/ i = n + 1)
      OBVIOUS
    <2> HIDE DEF h
    <2>6. h[0] = x
      BY <2>1, <2>3 DEF Stages
    <2>7. ASSUME NEW i \in 1..(n + 1) PROVE h[i] = Step(how, p, h[i - 1], es[i])
      <3>1. CASE i \in 1..n
        <4>1. h[i] = g[i] /\ h[i - 1] = g[i - 1]
          BY <2>3, <3>1
        <4>2. g[i] = Step(how, p, g[i - 1], es[i])
          BY <2>1, <3>1 DEF Stages
        <4> QED
          BY <4>1, <4>2
      <3>2. CASE i = n + 1
        <4>1. h[n] = g[n] /\ i - 1 = n
          BY <2>3, <3>2
        <4> QED
          BY <2>2, <2>4, <3>2, <4>1
      <3> QED
        BY <2>5, <3>1, <3>2
    <2>8. Stages(h, n + 1, how, p, x, es)
      BY <2>4, <2>6, <2>7 DEF Stages
    <2> QED
      BY <2>8
  <1> HIDE DEF S
  <1>3. Nat \subseteq S
    BY <1>1, <1>2, SetInduction
  <1> QED
    BY <1>3 DEF S

(* Two sequences that agree on their first m elements agree on the stages. *)
Agree(es, fs, m) == \A i \in 1..m : es[i] = fs[i]

(* ... which depends on the elements before it only.                       *)
LEMMA StagesUnique ==
    ASSUME NEW how, NEW p, NEW x, NEW es, NEW fs, NEW f, NEW g, NEW m \in Nat, NEW n \in Nat,
           m <= n, Stages(f, m, how, p, x, fs), Stages(g, n, how, p, x, es), Agree(es, fs, m)
    PROVE  f[m] = g[m]
  <1> DEFINE S == {k \in Nat : k <= m => f[k] = g[k]}
  <1>1. 0 \in S
    BY DEF Stages
  <1>2. ASSUME NEW k \in Nat, k \in S PROVE k + 1 \in S
    <2>1. SUFFICES ASSUME k + 1 <= m PROVE f[k + 1] = g[k + 1]
      OBVIOUS
    <2>2. f[k] = g[k] /\ k + 1 \in 1..m /\ k + 1 \in 1..n /\ (k + 1) - 1 = k
      BY <1>2, <2>1
    <2> QED
      BY <2>2 DEF Stages, Agree
  <1> HIDE DEF S
  <1>3. Nat \subseteq S
    BY <1>1, <1>2, SetInduction
  <1> QED
    BY <1>3 DEF S

Recursive(g, how, p, x, es) ==
    g = [n \in 0..Len(es) |-> IF n = 0 THEN x ELSE Step(how, p, g[n - 1], es[n])]

(* The function that the recursion chooses.                                *)
LEMMA ChosenStages ==
    ASSUME NEW how, NEW p, NEW x, NEW es, Len(es) \in Nat,
           NEW c, c = CHOOSE g : Recursive(g, how, p, x, es)
    PROVE  Stages(c, Len(es), how, p, x, es)
  <1>0. PICK n \in Nat : n = Len(es)
    OBVIOUS
  <1>1. PICK f : Stages(f, n, how, p, x, es)
    BY StagesExist
  <1>2. Recursive(f, how, p, x, es)
    <2>1. \A i \in 0..n : f[i] = IF i = 0 THEN x ELSE Step(how, p, f[i - 1], es[i])
      <3>1. \A i \in 0..n : i = 0 \/ i \in 1..n
        OBVIOUS
      <3> QED
        BY <1>1, <3>1 DEF Stages
    <2>2. f = [i \in 0..n |-> f[i]]
      BY <1>1 DEF Stages
    <2>3. f = [i \in 0..n |-> IF i = 0 THEN x ELSE Step(how, p, f[i - 1], es[i])]
      BY <2>1, <2>2
    <2> QED
      BY <1>0, <2>3 DEF Recursive
  <1>3. Recursive(c, how, p, x, es)
    BY <1>2
  <1>4. c = [i \in 0..n |-> IF i = 0 THEN x ELSE Step(how, p, c[i - 1], es[i])]
    BY <1>0, <1>3 DEF Recursive
  <1>5. c = [i \in 0..n |-> c[i]]
    BY <1>4
  <1>6. c[0] = x
    <2>1. 0 \in 0..n
      OBVIOUS
    <2> QED
      BY <1>4, <2>1
  <1>7. ASSUME NEW i \in 1..n PROVE c[i] = Step(how, p, c[i - 1], es[i])
    <2>1. i \in 0..n /\ i # 0
      OBVIOUS
    <2> QED
      BY <1>4, <2>1
  <1> QED
    BY <1>0, <1>5, <1>6, <1>7 DEF Stages

(* One more element is one more step.                                      *)
LEMMA OneMoreStage ==
    ASSUME NEW how, NEW p, NEW x, NEW E, NEW es \in Seq(E), NEW e \in E, NEW f, NEW g,
           Stages(f, Len(es), how, p, x, es),
           Stages(g, Len(Append(es, e)), how, p, x, Append(es, e))
    PROVE  g[Len(Append(es, e))] = Step(how, p, f[Len(es)], e)
  <1>0. PICK more, n : more = Append(es, e) /\ n = Len(es)
    OBVIOUS
  <1>1. n \in Nat /\ Len(more) = n + 1 /\ more[n + 1] = e /\ \A i \in 1..n : more[i] = es[i]
    BY <1>0, AppendFacts
  <1>2. Stages(f, n, how, p, x, es) /\ Stages(g, n + 1, how, p, x, more)
    BY <1>0, <1>1
  <1>3. f[n] = g[n]
    <2>1. n + 1 \in Nat /\ n <= n + 1
      BY <1>1
    <2>2. PICK k \in Nat : k = n + 1
      BY <2>1
    <2>3. /\ n \in Nat /\ k \in Nat /\ n <= k
          /\ Stages(f, n, how, p, x, es)
          /\ Stages(g, k, how, p, x, more)
          /\ Agree(more, es, n)
      BY <1>1, <1>2, <2>1, <2>2 DEF Agree
    <2> QED
      BY ONLY <2>3, StagesUnique
  <1>4. n + 1 \in 1..(n + 1) /\ (n + 1) - 1 = n
    BY <1>1
  <1>5. g[n + 1] = Step(how, p, g[n], more[n + 1])
    BY <1>2, <1>4 DEF Stages
  <1>6. g[n + 1] = Step(how, p, f[n], e)
    BY <1>1, <1>3, <1>5
  <1> QED
    BY <1>0, <1>1, <1>6

(* The timeline after one more event.                                      *)
LEMMA StoredSteps ==
    ASSUME NEW rs, NEW t, NEW E, NEW es \in Seq(E)
    PROVE  /\ StoredAfter(rs, t, <<>>) = rs
           /\ \A e \in E : StoredAfter(rs, t, Append(es, e)) = Store(StoredAfter(rs, t, es), t, e)
  <1> DEFINE C(s) == CHOOSE g : Recursive(g, "store", t, rs, s)
  <1>1. \A s : StoredAfter(rs, t, s) = C(s)[Len(s)]
    BY DEF StoredAfter, Recursive, Step
  <1>2. \A s \in Seq(E) : Stages(C(s), Len(s), "store", t, rs, s)
    <2>1. TAKE s \in Seq(E)
    <2>2. PICK c : c = C(s)
      OBVIOUS
    <2>3. Len(s) \in Nat
      OBVIOUS
    <2>4. Stages(c, Len(s), "store", t, rs, s)
      BY <2>2, <2>3, ChosenStages
    <2> QED
      BY <2>2, <2>4
  <1> HIDE DEF C
  <1>3. StoredAfter(rs, t, <<>>) = rs
    <2>1. <<>> \in Seq(E) /\ Len(<<>>) = 0
      OBVIOUS
    <2> QED
      BY <1>1, <1>2, <2>1 DEF Stages
  <1>4. ASSUME NEW e \in E
        PROVE  StoredAfter(rs, t, Append(es, e)) = Store(StoredAfter(rs, t, es), t, e)
    <2>1. Append(es, e) \in Seq(E)
      BY AppendFacts
    <2>2. PICK f : f = C(es)
      OBVIOUS
    <2>3. PICK g : g = C(Append(es, e))
      OBVIOUS
    <2>4. /\ Stages(f, Len(es), "store", t, rs, es)
          /\ Stages(g, Len(Append(es, e)), "store", t, rs, Append(es, e))
      BY <1>2, <2>1, <2>2, <2>3
    <2>5. g[Len(Append(es, e))] = Step("store", t, f[Len(es)], e)
      BY <2>4, OneMoreStage
    <2> QED
      BY <1>1, <2>2, <2>3, <2>5 DEF Step
  <1> QED
    BY <1>3, <1>4

(* The replay of one more row.                                             *)
LEMMA ReplayedSteps ==
    ASSUME NEW ends, NEW E, NEW rs \in Seq(E)
    PROVE  /\ Replayed(<<>>, ends) = [open |-> 0, context |-> <<>>]
           /\ \A r \in E : Replayed(Append(rs, r), ends) = Replay(ends, Replayed(rs, ends), r)
  <1> DEFINE start == [open |-> 0, context |-> <<>>]
             C(s) == CHOOSE g : Recursive(g, "replay", ends, start, s)
  <1>1. \A s : Replayed(s, ends) = C(s)[Len(s)]
    BY DEF Replayed, Recursive, Step
  <1>2. \A s \in Seq(E) : Stages(C(s), Len(s), "replay", ends, start, s)
    <2>1. TAKE s \in Seq(E)
    <2>2. PICK c : c = C(s)
      OBVIOUS
    <2>3. Len(s) \in Nat
      OBVIOUS
    <2>4. Stages(c, Len(s), "replay", ends, start, s)
      <3> HIDE DEF start
      <3> QED
        BY <2>2, <2>3, ChosenStages
    <2> QED
      BY <2>2, <2>4
  <1> HIDE DEF C, start
  <1>3. Replayed(<<>>, ends) = start
    <2>1. <<>> \in Seq(E) /\ Len(<<>>) = 0
      OBVIOUS
    <2> QED
      BY <1>1, <1>2, <2>1 DEF Stages
  <1>4. ASSUME NEW r \in E
        PROVE  Replayed(Append(rs, r), ends) = Replay(ends, Replayed(rs, ends), r)
    <2>1. Append(rs, r) \in Seq(E)
      BY AppendFacts
    <2>2. PICK f : f = C(rs)
      OBVIOUS
    <2>3. PICK g : g = C(Append(rs, r))
      OBVIOUS
    <2>4. /\ Stages(f, Len(rs), "replay", ends, start, rs)
          /\ Stages(g, Len(Append(rs, r)), "replay", ends, start, Append(rs, r))
      BY <1>2, <2>1, <2>2, <2>3
    <2>5. g[Len(Append(rs, r))] = Step("replay", ends, f[Len(rs)], r)
      BY <2>4, OneMoreStage
    <2> QED
      BY <1>1, <2>2, <2>3, <2>5 DEF Step
  <1> QED
    BY <1>3, <1>4 DEF start

-----------------------------------------------------------------------------
(* Messages, one after the other.                                          *)

(* Every message that the loop or a replay makes is well shaped.           *)
LEMMA MessageShapes ==
    /\ \A t \in Turns : /\ Prompt(t) \in Facts /\ Steered(t) \in Facts
                        /\ Shaped(User(Prompt(t))) /\ Shaped(User(Steered(t)))
                        /\ UserOf(User(Prompt(t)), t) /\ UserOf(User(Steered(t)), t)
    /\ \A cs \in SUBSET Facts : Shaped(Assistant(cs)) /\ Shaped(Summary(cs))
    /\ \A f \in Facts : Shaped(Answer(f))
    /\ Shaped(Observation) /\ Shaped(Continuation) /\ Shaped(Note)
  <1>1. \A t \in Turns : Prompt(t) \in Facts /\ Steered(t) \in Facts
    BY ConversationAssumption DEF Prompt, Steered, Facts, Turns
  <1>2. ASSUME NEW t \in Turns, NEW f \in {Prompt(t), Steered(t)}
        PROVE  Shaped(User(f)) /\ UserOf(User(f), t)
    <2>1. f \in Facts
      BY <1>1
    <2>2. User(f) \in Messages
      BY <2>1 DEF User, Messages, Roles
    <2>3. UserOf(User(f), t)
      BY DEF User, UserOf
    <2> QED
      BY <2>2, <2>3 DEF Shaped, User
  <1>3. ASSUME NEW cs \in SUBSET Facts PROVE Shaped(Assistant(cs)) /\ Shaped(Summary(cs))
    BY DEF Shaped, Assistant, Summary, Messages, Roles
  <1>4. ASSUME NEW f \in Facts PROVE Shaped(Answer(f))
    BY DEF Shaped, Answer, Messages, Roles
  <1>5. Shaped(Observation) /\ Shaped(Continuation) /\ Shaped(Note)
    BY DEF Shaped, Observation, Continuation, Note, Messages, Roles
  <1> QED
    BY <1>1, <1>2, <1>3, <1>4, <1>5

(* The facts of a turn's input name the turn.                              *)
LEMMA UserTurn ==
    ASSUME NEW m, Shaped(m), NEW t \in Turns, NEW u \in Turns, UserOf(m, t), UserOf(m, u)
    PROVE  t = u
  <1>1. PICK f : f \in m.knows
    BY DEF Shaped, UserOf
  <1>2. f.turn = t /\ f.turn = u
    BY <1>1 DEF UserOf, Prompt, Steered
  <1> QED
    BY <1>2

LEMMA ContextFacts ==
    ASSUME NEW ms, Context(ms)
    PROVE  /\ ms \in Seq(Messages) /\ Len(ms) \in Nat /\ DOMAIN ms = 1..Len(ms)
           /\ \A i \in 1..Len(ms) : Shaped(ms[i]) /\ ms[i] \in Messages
           /\ Known(ms) \in SUBSET Facts
  <1>1. /\ ms \in Seq(Messages) /\ Len(ms) \in Nat /\ DOMAIN ms = 1..Len(ms)
        /\ \A i \in 1..Len(ms) : Shaped(ms[i]) /\ ms[i] \in Messages
    BY DEF Context
  <1>2. \A i \in DOMAIN ms : ms[i].knows \in SUBSET Facts
    BY <1>1 DEF Messages
  <1> QED
    BY <1>1, <1>2 DEF Known

LEMMA JoinFacts ==
    ASSUME NEW E, NEW s \in Seq(E), NEW r \in Seq(E)
    PROVE  /\ s \o r \in Seq(E) /\ Len(s) \in Nat /\ Len(r) \in Nat
           /\ Len(s \o r) = Len(s) + Len(r)
           /\ DOMAIN s = 1..Len(s) /\ DOMAIN r = 1..Len(r)
           /\ DOMAIN (s \o r) = 1..(Len(s) + Len(r))
           /\ \A i \in 1..Len(s) : i \in 1..Len(s \o r) /\ (s \o r)[i] = s[i]
           /\ \A i \in 1..Len(r) : Len(s) + i \in 1..Len(s \o r) /\ (s \o r)[Len(s) + i] = r[i]
           /\ \A i \in 1..Len(s \o r) :
                i \in 1..Len(s) \/ (i > Len(s) /\ i - Len(s) \in 1..Len(r)
                                    /\ (s \o r)[i] = r[i - Len(s)])
  OBVIOUS

(* Both messages and what follows them are well shaped, and know together  *)
(* what each knows.                                                        *)
LEMMA JoinContext ==
    ASSUME NEW ms, NEW os, Context(ms), Context(os)
    PROVE  Context(ms \o os) /\ Known(ms \o os) = Known(ms) \cup Known(os)
  <1>0. PICK js : js = ms \o os
    OBVIOUS
  <1>1. ms \in Seq(Messages) /\ os \in Seq(Messages)
    BY DEF Context
  <1>2. /\ js \in Seq(Messages)
        /\ \A i \in DOMAIN js : (i \in DOMAIN ms /\ js[i] = ms[i])
                                \/ (i - Len(ms) \in DOMAIN os /\ js[i] = os[i - Len(ms)])
    BY <1>0, <1>1, JoinFacts
  <1>3. Context(js)
    BY <1>2 DEF Context
  <1>4. Known(js) \subseteq Known(ms) \cup Known(os)
    BY <1>2 DEF Known
  <1>5. Known(ms) \subseteq Known(js) /\ Known(os) \subseteq Known(js)
    <2>1. \A i \in DOMAIN ms : i \in DOMAIN js /\ js[i] = ms[i]
      BY <1>0, <1>1, JoinFacts
    <2>2. \A i \in DOMAIN os : Len(ms) + i \in DOMAIN js /\ js[Len(ms) + i] = os[i]
      BY <1>0, <1>1, JoinFacts
    <2> QED
      BY <2>1, <2>2 DEF Known
  <1> QED
    BY <1>0, <1>3, <1>4, <1>5

(* What holds of both parts holds of the whole.                            *)
LEMMA JoinReplied ==
    ASSUME NEW ms, NEW os, Context(ms), Context(os), NEW X, AllReplied(ms, X), AllReplied(os, X)
    PROVE  AllReplied(ms \o os, X)
  <1>0. PICK js : js = ms \o os
    OBVIOUS
  <1>1. ms \in Seq(Messages) /\ os \in Seq(Messages)
    BY DEF Context
  <1>2. PICK n \in Nat, k \in Nat :
           /\ n = Len(ms) /\ k = Len(os) /\ Len(js) = n + k
           /\ DOMAIN ms = 1..n /\ DOMAIN os = 1..k /\ DOMAIN js = 1..(n + k)
    BY <1>0, <1>1, JoinFacts
  <1>3. /\ \A i \in 1..n : js[i] = ms[i]
        /\ \A i \in 1..k : js[n + i] = os[i]
    BY <1>0, <1>1, <1>2, JoinFacts
  <1>4. SUFFICES ASSUME NEW i \in 1..(n + k), NEW f \in js[i].calls, f \notin X
                 PROVE  Replied(js, i, f)
    BY <1>0, <1>2 DEF AllReplied
  <1>5. CASE i \in 1..n
    <2>1. Replied(ms, i, f)
      BY <1>2, <1>3, <1>4, <1>5 DEF AllReplied
    <2>2. PICK j \in (i + 1)..n : ms[j] = Answer(f) /\ \A l \in i..j : ~FromUser(ms[l])
      BY <1>2, <2>1 DEF Replied
    <2>3. j \in (i + 1)..Len(js) /\ j \in 1..n /\ \A l \in i..j : l \in 1..n
      BY <1>2, <1>5
    <2>4. js[j] = Answer(f) /\ \A l \in i..j : ~FromUser(js[l])
      BY <1>3, <2>2, <2>3
    <2> QED
      BY <2>3, <2>4 DEF Replied
  <1>6. CASE i \notin 1..n
    <2>1. PICK h \in 1..k : i = n + h
      <3>1. i - n \in 1..k /\ i = n + (i - n)
        BY <1>6
      <3> QED
        BY <3>1
    <2>2. Replied(os, h, f)
      BY <1>2, <1>3, <1>4, <2>1 DEF AllReplied
    <2>3. PICK j \in (h + 1)..k : os[j] = Answer(f) /\ \A l \in h..j : ~FromUser(os[l])
      BY <1>2, <2>2 DEF Replied
    <2>4. n + j \in (i + 1)..Len(js) /\ j \in 1..k
      BY <1>2, <2>1
    <2>5. ASSUME NEW l \in i..(n + j) PROVE ~FromUser(js[l])
      <3>1. l - n \in h..j /\ l - n \in 1..k /\ l = n + (l - n)
        BY <2>1, <2>4
      <3> QED
        BY <1>3, <2>3, <3>1
    <2>6. js[n + j] = Answer(f)
      BY <1>3, <2>3, <2>4
    <2> QED
      BY <2>4, <2>5, <2>6 DEF Replied
  <1> QED
    BY <1>5, <1>6

LEMMA JoinMentions ==
    ASSUME NEW ms, NEW os, Context(ms), Context(os), NEW F, Mentions(ms, F), Mentions(os, F)
    PROVE  Mentions(ms \o os, F)
  <1>0. PICK js : js = ms \o os
    OBVIOUS
  <1>1. ms \in Seq(Messages) /\ os \in Seq(Messages)
    BY DEF Context
  <1>2. \A i \in DOMAIN js : (i \in DOMAIN ms /\ js[i] = ms[i])
                             \/ (i - Len(ms) \in DOMAIN os /\ js[i] = os[i - Len(ms)])
    BY <1>0, <1>1, JoinFacts
  <1>3. Mentions(js, F)
    BY <1>2 DEF Mentions
  <1> QED
    BY <1>0, <1>3

(* Contexts without input of turn T or later make one.                     *)
LEMMA JoinBelow ==
    ASSUME NEW ms, NEW os, Context(ms), Context(os), NEW T, Below(ms, T), Below(os, T)
    PROVE  Below(ms \o os, T)
  <1>0. PICK js : js = ms \o os
    OBVIOUS
  <1>1. ms \in Seq(Messages) /\ os \in Seq(Messages)
    BY DEF Context
  <1>2. \A i \in DOMAIN js : (i \in DOMAIN ms /\ js[i] = ms[i])
                             \/ (i - Len(ms) \in DOMAIN os /\ js[i] = os[i - Len(ms)])
    BY <1>0, <1>1, JoinFacts
  <1>3. Below(js, T)
    BY <1>2 DEF Below
  <1> QED
    BY <1>0, <1>3

(* The input in os is of turn T or a later one.                            *)
From(os, T) == \A i \in DOMAIN os : \A t \in Turns : UserOf(os[i], t) => t >= T

(* Contexts in order make one, when the second begins where the first ends.*)
LEMMA JoinInOrder ==
    ASSUME NEW ms, NEW os, Context(ms), Context(os), InOrder(ms), InOrder(os),
           NEW T \in Nat, Below(ms, T + 1), From(os, T)
    PROVE  InOrder(ms \o os)
  <1>0. PICK js : js = ms \o os
    OBVIOUS
  <1>1. ms \in Seq(Messages) /\ os \in Seq(Messages)
    BY DEF Context
  <1>2. PICK n \in Nat, m \in Nat :
           /\ n = Len(ms) /\ m = Len(os)
           /\ DOMAIN ms = 1..n /\ DOMAIN os = 1..m /\ DOMAIN js = 1..(n + m)
    BY <1>0, <1>1, JoinFacts
  <1>3. /\ \A i \in 1..n : js[i] = ms[i]
        /\ \A i \in 1..(n + m) : i \notin 1..n => i - n \in 1..m /\ js[i] = os[i - n]
    BY <1>0, <1>1, <1>2, JoinFacts
  <1>4. SUFFICES ASSUME NEW i \in 1..(n + m), NEW k \in 1..(n + m), i <= k,
                        NEW t \in Turns, NEW u \in Turns, UserOf(js[i], t), UserOf(js[k], u)
                 PROVE  t <= u
    BY <1>0, <1>2 DEF InOrder
  <1>5. t \in Nat /\ u \in Nat
    BY DEF Turns
  <1>6. CASE k \in 1..n
    <2>1. i \in 1..n
      BY <1>4, <1>6
    <2> QED
      BY <1>2, <1>3, <1>4, <1>6, <2>1 DEF InOrder
  <1>7. CASE k \notin 1..n /\ i \in 1..n
    <2>1. t < T + 1
      BY <1>2, <1>3, <1>4, <1>7 DEF Below
    <2>2. u >= T
      BY <1>2, <1>3, <1>4, <1>7 DEF From
    <2> QED
      BY <1>5, <2>1, <2>2
  <1>8. CASE k \notin 1..n /\ i \notin 1..n
    <2>1. i - n \in 1..m /\ k - n \in 1..m /\ i - n <= k - n
      BY <1>3, <1>4, <1>8
    <2> QED
      BY <1>2, <1>3, <1>4, <1>8, <2>1 DEF InOrder
  <1> QED
    BY <1>6, <1>7, <1>8

LEMMA JoinMarked ==
    ASSUME NEW ms, NEW os, Context(ms), Context(os), NEW T, NEW D,
           MarkedBelow(ms, T, D), MarkedBelow(os, T, D)
    PROVE  MarkedBelow(ms \o os, T, D)
  <1>0. PICK js : js = ms \o os
    OBVIOUS
  <1>1. ms \in Seq(Messages) /\ os \in Seq(Messages)
    BY DEF Context
  <1>2. PICK n \in Nat, k \in Nat :
           /\ n = Len(ms) /\ k = Len(os) /\ Len(js) = n + k
           /\ DOMAIN ms = 1..n /\ DOMAIN os = 1..k /\ DOMAIN js = 1..(n + k)
    BY <1>0, <1>1, JoinFacts
  <1>3. /\ \A i \in 1..n : js[i] = ms[i]
        /\ \A i \in 1..k : js[n + i] = os[i]
    BY <1>0, <1>1, <1>2, JoinFacts
  <1>4. SUFFICES ASSUME NEW i \in 1..(n + k), NEW t \in Turns, t < T, UserOf(js[i], t), t \notin D
                 PROVE  Marked(js, i, t)
    BY <1>0, <1>2 DEF MarkedBelow
  <1> DEFINE Of(m) == m.role = "user" => m.knows \subseteq {Prompt(t), Steered(t)}
  <1>5. CASE i \in 1..n
    <2>1. Marked(ms, i, t)
      BY <1>2, <1>3, <1>4, <1>5 DEF MarkedBelow
    <2>2. PICK j \in (i + 1)..n : ms[j] = Note /\ \A l \in i..j : Of(ms[l])
      BY <1>2, <2>1 DEF Marked
    <2>3. j \in (i + 1)..Len(js) /\ j \in 1..n /\ \A l \in i..j : l \in 1..n
      BY <1>2, <1>5
    <2>4. js[j] = Note /\ \A l \in i..j : Of(js[l])
      BY <1>3, <2>2, <2>3
    <2> QED
      BY <2>3, <2>4 DEF Marked
  <1>6. CASE i \notin 1..n
    <2>1. PICK h \in 1..k : i = n + h
      <3>1. i - n \in 1..k /\ i = n + (i - n)
        BY <1>6
      <3> QED
        BY <3>1
    <2>2. Marked(os, h, t)
      BY <1>2, <1>3, <1>4, <2>1 DEF MarkedBelow
    <2>3. PICK j \in (h + 1)..k : os[j] = Note /\ \A l \in h..j : Of(os[l])
      BY <1>2, <2>2 DEF Marked
    <2>4. n + j \in (i + 1)..Len(js) /\ j \in 1..k
      BY <1>2, <2>1
    <2>5. ASSUME NEW l \in i..(n + j) PROVE Of(js[l])
      <3>1. l - n \in h..j /\ l - n \in 1..k /\ l = n + (l - n)
        BY <2>1, <2>4
      <3> QED
        BY <1>3, <2>3, <3>1
    <2>6. js[n + j] = Note
      BY <1>3, <2>3, <2>4
    <2> QED
      BY <2>4, <2>5, <2>6 DEF Marked
  <1> QED
    BY <1>5, <1>6

(* Messages without calls and without input of the client.                 *)
Quiet(os) == \A i \in DOMAIN os : os[i].calls = {} /\ os[i].role # "user"

(* Messages that neither call nor are the user's own need no care.         *)
LEMMA QuietFacts ==
    ASSUME NEW os, Quiet(os)
    PROVE  /\ \A X : AllReplied(os, X)
           /\ InOrder(os)
           /\ \A T : Below(os, T) /\ From(os, T)
           /\ \A T, D : MarkedBelow(os, T, D)
  BY DEF Quiet, AllReplied, InOrder, Below, From, MarkedBelow, UserOf

LEMMA JoinQuiet ==
    ASSUME NEW ms, NEW os, Context(ms), Context(os), Quiet(os)
    PROVE  /\ \A X : AllReplied(ms, X) => AllReplied(ms \o os, X)
           /\ InOrder(ms) => InOrder(ms \o os)
           /\ \A T : Below(ms, T) => Below(ms \o os, T)
           /\ \A T, D : MarkedBelow(ms, T, D) => MarkedBelow(ms \o os, T, D)
  <1>1. \A X : AllReplied(ms, X) => AllReplied(ms \o os, X)
    BY QuietFacts, JoinReplied
  <1>2. \A T : Below(ms, T) => Below(ms \o os, T)
    BY QuietFacts, JoinBelow
  <1>3. \A T, D : MarkedBelow(ms, T, D) => MarkedBelow(ms \o os, T, D)
    BY QuietFacts, JoinMarked
  <1>4. InOrder(ms) => InOrder(ms \o os)
    <2>1. MaxTurns \in Nat /\ Below(ms, MaxTurns + 1)
      BY ConversationAssumption DEF Below, Turns
    <2>2. InOrder(os) /\ From(os, MaxTurns)
      BY QuietFacts
    <2> QED
      BY <2>1, <2>2, JoinInOrder
  <1> QED
    BY <1>1, <1>2, <1>3, <1>4

(* A context of one message.                                               *)
LEMMA OneMessage ==
    ASSUME NEW m, Shaped(m)
    PROVE  /\ Context(<<m>>) /\ Known(<<m>>) = m.knows
           /\ \A X : m.calls \subseteq X => AllReplied(<<m>>, X)
           /\ \A F : m.calls \subseteq F /\ (m.role = "tool" => m.knows \subseteq F)
                     => Mentions(<<m>>, F)
           /\ m.calls = {} /\ m.role # "user" => Quiet(<<m>>)
           /\ InOrder(<<m>>)
           /\ \A t \in Turns : UserOf(m, t) =>
                /\ From(<<m>>, t) /\ Below(<<m>>, t + 1)
                /\ \A D : MarkedBelow(<<m>>, t, D)
  <1>0. PICK os : os = <<m>>
    OBVIOUS
  <1>1. m \in Messages
    BY DEF Shaped
  <1>2. os \in Seq(Messages) /\ DOMAIN os = 1..1 /\ os[1] = m /\ \A i \in 1..1 : i = 1
    BY <1>0, <1>1
  <1>3. Context(os) /\ Known(os) = m.knows
    BY <1>2 DEF Context, Known
  <1>4. /\ \A X : m.calls \subseteq X => AllReplied(os, X)
        /\ \A F : m.calls \subseteq F /\ (m.role = "tool" => m.knows \subseteq F)
                  => Mentions(os, F)
        /\ m.calls = {} /\ m.role # "user" => Quiet(os)
    BY <1>2 DEF AllReplied, Mentions, Quiet
  <1>5. \A t, u \in Turns : UserOf(m, t) /\ UserOf(m, u) => t = u
    BY UserTurn
  <1>6. \A t \in Turns : t \in Nat
    BY DEF Turns
  <1>7. InOrder(os)
    BY <1>2, <1>5, <1>6 DEF InOrder
  <1>8. ASSUME NEW t \in Turns, UserOf(m, t)
        PROVE  /\ From(os, t) /\ Below(os, t + 1)
               /\ \A D : MarkedBelow(os, t, D)
    <2>1. \A u \in Turns : UserOf(m, u) => u = t
      BY <1>5, <1>8
    <2>2. From(os, t)
      BY <1>2, <1>6, <2>1 DEF From
    <2>3. Below(os, t + 1)
      BY <1>2, <1>6, <2>1 DEF Below
    <2>4. \A D : MarkedBelow(os, t, D)
      BY <1>2, <1>6, <2>1 DEF MarkedBelow
    <2> QED
      BY <2>2, <2>3, <2>4
  <1> QED
    BY <1>0, <1>3, <1>4, <1>7, <1>8

LEMMA AppendIsJoin ==
    ASSUME NEW ms, Context(ms), NEW m
    PROVE  Append(ms, m) = ms \o <<m>>
  BY DEF Context

(* One more message.                                                       *)
LEMMA AppendContext ==
    ASSUME NEW ms, Context(ms), NEW m, Shaped(m)
    PROVE  /\ Context(Append(ms, m)) /\ Known(Append(ms, m)) = Known(ms) \cup m.knows
           /\ \A X : AllReplied(ms, X) /\ m.calls \subseteq X => AllReplied(Append(ms, m), X)
           /\ \A F : Mentions(ms, F) /\ m.calls \subseteq F
                     /\ (m.role = "tool" => m.knows \subseteq F)
                     => Mentions(Append(ms, m), F)
  <1>0. PICK os : os = <<m>>
    OBVIOUS
  <1>1. Append(ms, m) = ms \o os
    BY <1>0, AppendIsJoin
  <1>2. Context(os) /\ Known(os) = m.knows
    BY <1>0, OneMessage
  <1>3. Context(ms \o os) /\ Known(ms \o os) = Known(ms) \cup m.knows
    BY <1>2, JoinContext
  <1>4. \A X : AllReplied(ms, X) /\ m.calls \subseteq X => AllReplied(ms \o os, X)
    <2>1. \A X : m.calls \subseteq X => AllReplied(os, X)
      BY <1>0, OneMessage
    <2> QED
      BY <1>2, <2>1, JoinReplied
  <1>5. \A F : Mentions(ms, F) /\ m.calls \subseteq F
               /\ (m.role = "tool" => m.knows \subseteq F) => Mentions(ms \o os, F)
    <2>1. \A F : m.calls \subseteq F /\ (m.role = "tool" => m.knows \subseteq F)
                 => Mentions(os, F)
      BY <1>0, OneMessage
    <2> QED
      BY <1>2, <2>1, JoinMentions
  <1> QED
    BY <1>1, <1>3, <1>4, <1>5

(* ... that is not input of the client: the marks stay as they are.        *)
LEMMA AppendOther ==
    ASSUME NEW ms, Context(ms), NEW m, Shaped(m), m.role # "user"
    PROVE  /\ InOrder(ms) => InOrder(Append(ms, m))
           /\ \A T : Below(ms, T) => Below(Append(ms, m), T)
           /\ \A T, D : MarkedBelow(ms, T, D) => MarkedBelow(Append(ms, m), T, D)
  <1>0. PICK os : os = <<m>>
    OBVIOUS
  <1>1. Append(ms, m) = ms \o os /\ Context(os)
    BY <1>0, AppendIsJoin, OneMessage
  <1>2. DOMAIN os = 1..1 /\ \A i \in 1..1 : os[i] = m
    BY <1>0
  <1>3. InOrder(os) /\ \A T : Below(os, T) /\ From(os, T)
    BY <1>2 DEF InOrder, Below, From, UserOf
  <1>4. \A T, D : MarkedBelow(os, T, D)
    BY <1>2 DEF MarkedBelow, UserOf
  <1>5. InOrder(ms) => InOrder(ms \o os)
    <2>1. MaxTurns \in Nat /\ Below(ms, MaxTurns + 1)
      BY ConversationAssumption DEF Below, Turns
    <2> QED
      BY <1>1, <1>3, <2>1, JoinInOrder
  <1>6. \A T : Below(ms, T) => Below(ms \o os, T)
    BY <1>1, <1>3, JoinBelow
  <1>7. \A T, D : MarkedBelow(ms, T, D) => MarkedBelow(ms \o os, T, D)
    BY <1>1, <1>4, JoinMarked
  <1> QED
    BY <1>1, <1>5, <1>6, <1>7

(* ... that is input of turn t.                                            *)
LEMMA AppendInput ==
    ASSUME NEW ms, Context(ms), NEW t \in Turns, NEW m, Shaped(m), UserOf(m, t),
           InOrder(ms), Below(ms, t + 1)
    PROVE  /\ InOrder(Append(ms, m)) /\ Below(Append(ms, m), t + 1)
           /\ \A D : MarkedBelow(ms, t, D) => MarkedBelow(Append(ms, m), t, D)
  <1>0. PICK os : os = <<m>>
    OBVIOUS
  <1>1. Append(ms, m) = ms \o os /\ Context(os)
    BY <1>0, AppendIsJoin, OneMessage
  <1>2. /\ InOrder(os) /\ From(os, t) /\ Below(os, t + 1)
        /\ \A D : MarkedBelow(os, t, D)
    BY <1>0, OneMessage
  <1>3. t \in Nat
    BY DEF Turns
  <1>4. InOrder(ms \o os)
    BY <1>1, <1>2, <1>3, JoinInOrder
  <1>5. Below(ms \o os, t + 1)
    BY <1>1, <1>2, JoinBelow
  <1>6. \A D : MarkedBelow(ms, t, D) => MarkedBelow(ms \o os, t, D)
    BY <1>1, <1>2, JoinMarked
  <1> QED
    BY <1>1, <1>4, <1>5, <1>6

(* The note marks all input of turn t when no later turn has input.        *)
LEMMA NoteMarks ==
    ASSUME NEW ms, Context(ms), NEW t \in Turns, NEW D,
           InOrder(ms), Below(ms, t + 1), MarkedBelow(ms, t, D)
    PROVE  MarkedBelow(Append(ms, Note), t + 1, D)
  <1>0. PICK js : js = Append(ms, Note)
    OBVIOUS
  <1>1. Shaped(Note) /\ Note.role = "note" /\ Note.calls = {}
    BY MessageShapes DEF Note
  <1>2. PICK n \in Nat :
           /\ n = Len(ms) /\ Len(js) = n + 1 /\ DOMAIN ms = 1..n /\ DOMAIN js = 1..(n + 1)
           /\ \A i \in 1..n : js[i] = ms[i]
           /\ js[n + 1] = Note
    BY <1>0, <1>1, AppendFacts DEF Context, Shaped
  <1>3. MarkedBelow(js, t, D)
    BY <1>0, <1>1, AppendOther
  <1>4. SUFFICES ASSUME NEW i \in 1..(n + 1), NEW u \in Turns, u < t + 1, UserOf(js[i], u),
                        u \notin D
                 PROVE  Marked(js, i, u)
    BY <1>0, <1>2 DEF MarkedBelow
  <1>5. u \in Nat /\ t \in Nat
    BY DEF Turns
  <1>6. CASE u < t
    BY <1>2, <1>3, <1>4, <1>6 DEF MarkedBelow
  <1>7. CASE u = t
    <2>1. i \in 1..n
      <3>1. ~UserOf(Note, u)
        BY <1>1 DEF UserOf
      <3> QED
        BY <1>2, <1>4, <3>1
    <2>2. ASSUME NEW k \in i..(n + 1), js[k].role = "user"
          PROVE  js[k].knows \subseteq {Prompt(u), Steered(u)}
      <3>1. k \in 1..n /\ k \in i..n
        <4>1. k # n + 1
          BY <1>1, <1>2, <2>2
        <4> QED
          BY <2>1, <4>1
      <3>2. js[k] = ms[k] /\ js[i] = ms[i] /\ Shaped(ms[k])
        BY <1>2, <2>1, <3>1 DEF Context
      <3>3. PICK v \in Turns : UserOf(ms[k], v)
        BY <2>2, <3>2 DEF Shaped
      <3>4. v < t + 1 /\ u <= v /\ v \in Nat
        <4>1. v < t + 1 /\ v \in Nat
          BY <1>2, <3>1, <3>3 DEF Below, Turns
        <4>2. UserOf(ms[i], u) /\ i <= k
          BY <1>4, <3>1, <3>2
        <4>3. u <= v
          BY <1>2, <2>1, <3>1, <3>3, <4>2 DEF InOrder
        <4> QED
          BY <4>1, <4>3
      <3>5. v = u
        BY <1>5, <1>7, <3>4
      <3> QED
        BY <3>2, <3>3, <3>5 DEF UserOf
    <2>3. n + 1 \in (i + 1)..Len(js)
      BY <1>2, <2>1
    <2> QED
      BY <1>2, <2>2, <2>3 DEF Marked
  <1> QED
    BY <1>4, <1>5, <1>6, <1>7

-----------------------------------------------------------------------------
(* The replay of one row.                                                  *)

(* ws is ms, and maybe one message more, with one call more in its last    *)
(* message, the assistant's.                                               *)
CallAdded(ms, ws, f) ==
    /\ ws # <<>> /\ ws[Len(ws)].role = "assistant"
    /\ Len(ws) \in {Len(ms), Len(ms) + 1}
    /\ \A i \in 1..Len(ms) :
         /\ ws[i].role = ms[i].role /\ ws[i].knows = ms[i].knows
         /\ ws[i].role # "assistant" => ws[i] = ms[i]
         /\ ws[i].calls \subseteq ms[i].calls \cup (IF i = Len(ws) THEN {f} ELSE {})
    /\ Len(ws) # Len(ms) => ws[Len(ws)] = Assistant({f})

(* A replayed call joins the last message, or is one of its own.           *)
LEMMA WithCallAdds ==
    ASSUME NEW ms, Context(ms), NEW f \in Facts
    PROVE  Context(WithCall(ms, f)) /\ CallAdded(ms, WithCall(ms, f), f)
  <1>1. PICK n \in Nat : n = Len(ms) /\ DOMAIN ms = 1..n /\ ms \in Seq(Messages)
    BY DEF Context
  <1>2. CASE EndsWith(ms, LAMBDA m : m.role = "assistant")
    <2>1. n # 0 /\ ms[n].role = "assistant" /\ n \in 1..n
      BY <1>1, <1>2 DEF EndsWith, Last
    <2>2. PICK m : m = [ms[n] EXCEPT !.calls = @ \cup {f}]
      OBVIOUS
    <2>3. Shaped(ms[n]) /\ ms[n] \in Messages
      BY <1>1, <2>1 DEF Context
    <2>4. /\ m \in Messages /\ m.role = ms[n].role /\ m.knows = ms[n].knows
          /\ m.calls = ms[n].calls \cup {f}
      BY <2>2, <2>3 DEF Messages
    <2>5. Shaped(m)
      BY <2>1, <2>4 DEF Shaped
    <2>6. PICK ws : ws = [ms EXCEPT ![n] = m]
      OBVIOUS
    <2>7. WithCall(ms, f) = ws
      BY <1>1, <1>2, <2>2, <2>6 DEF WithCall
    <2>8. /\ ws \in Seq(Messages) /\ Len(ws) = n /\ DOMAIN ws = 1..n
          /\ \A i \in 1..n : ws[i] = IF i = n THEN m ELSE ms[i]
      <3>1. n \in 1..n /\ ms \in [1..n -> Messages]
        BY <1>1, <2>1
      <3>2. ws \in [1..n -> Messages] /\ \A i \in 1..n : ws[i] = IF i = n THEN m ELSE ms[i]
        BY <2>4, <2>6, <3>1
      <3>3. ws \in Seq(Messages) /\ Len(ws) = n /\ DOMAIN ws = 1..n
        BY <3>2
      <3> QED
        BY <3>2, <3>3
    <2>9. Context(ws)
      BY <1>1, <2>5, <2>8 DEF Context
    <2>10. CallAdded(ms, ws, f)
      <3>1. \A i \in 1..n : /\ ws[i].role = ms[i].role /\ ws[i].knows = ms[i].knows
                            /\ ws[i].role # "assistant" => ws[i] = ms[i]
                            /\ ws[i].calls \subseteq ms[i].calls \cup (IF i = n THEN {f} ELSE {})
        BY <2>1, <2>4, <2>8
      <3>2. ws # <<>> /\ ws[n].role = "assistant"
        BY <2>1, <2>4, <2>8
      <3> QED
        BY <1>1, <2>8, <3>1, <3>2 DEF CallAdded
    <2> QED
      BY <2>7, <2>9, <2>10
  <1>3. CASE ~EndsWith(ms, LAMBDA m : m.role = "assistant")
    <2>1. PICK m : m = Assistant({f})
      OBVIOUS
    <2>2. Shaped(m) /\ m \in Messages /\ m.role = "assistant"
      BY <2>1, MessageShapes DEF Shaped, Assistant
    <2>3. PICK ws : ws = Append(ms, m)
      OBVIOUS
    <2>4. WithCall(ms, f) = ws
      BY <1>3, <2>1, <2>3 DEF WithCall
    <2>5. Context(ws)
      BY <2>2, <2>3, AppendContext
    <2>6. /\ Len(ws) = n + 1 /\ ws # <<>> /\ ws[n + 1] = m
          /\ \A i \in 1..n : ws[i] = ms[i]
      BY <1>1, <2>2, <2>3, AppendFacts
    <2>7. CallAdded(ms, ws, f)
      BY <1>1, <2>1, <2>2, <2>6 DEF CallAdded
    <2> QED
      BY <2>4, <2>5, <2>7
  <1> QED
    BY <1>2, <1>3

(* The message that it joins is not the user's.                            *)
LEMMA CallAddedKeeps ==
    ASSUME NEW ms, Context(ms), NEW ws, Context(ws), NEW f \in Facts, CallAdded(ms, ws, f)
    PROVE  /\ Known(ws) = Known(ms)
           /\ InOrder(ms) => InOrder(ws)
           /\ \A T : Below(ms, T) => Below(ws, T)
           /\ \A T, D : MarkedBelow(ms, T, D) => MarkedBelow(ws, T, D)
           /\ \A F : Mentions(ms, F) /\ f \in F => Mentions(ws, F)
  <1>1. PICK n \in Nat, k \in Nat :
           n = Len(ms) /\ DOMAIN ms = 1..n /\ k = Len(ws) /\ DOMAIN ws = 1..k
    BY DEF Context
  <1>2. /\ k \in {n, n + 1} /\ k # 0
        /\ k # n => ws[k] = Assistant({f})
        /\ \A i \in 1..n : /\ ws[i].role = ms[i].role /\ ws[i].knows = ms[i].knows
                           /\ ws[i].role # "assistant" => ws[i] = ms[i]
                           /\ ws[i].calls \subseteq ms[i].calls \cup {f}
    <2>1. k # 0
      BY <1>1 DEF CallAdded, Context
    <2> QED
      BY <1>1, <2>1 DEF CallAdded
  <1>3. \A i \in 1..k : i \in 1..n \/ (i = k /\ k # n /\ ws[i] = Assistant({f}))
    BY <1>2
  <1>4. \A i \in 1..n : i \in 1..k
    BY <1>2
  <1>5. /\ Assistant({f}).role = "assistant" /\ Assistant({f}).knows = {}
        /\ Assistant({f}).calls = {f}
    BY DEF Assistant
  <1>6. Known(ws) = Known(ms)
    <2>1. Known(ws) \subseteq Known(ms)
      <3>1. \A i \in 1..k : ws[i].knows \subseteq {} \/ (i \in 1..n /\ ws[i].knows = ms[i].knows)
        BY <1>2, <1>3, <1>5
      <3> QED
        BY <1>1, <3>1 DEF Known
    <2>2. Known(ms) \subseteq Known(ws)
      BY <1>1, <1>2, <1>4 DEF Known
    <2> QED
      BY <2>1, <2>2
  <1>7. \A i \in 1..k : \A t : UserOf(ws[i], t) => i \in 1..n /\ UserOf(ms[i], t)
    BY <1>2, <1>3, <1>5 DEF UserOf
  <1>8. InOrder(ms) => InOrder(ws)
    BY <1>1, <1>7 DEF InOrder
  <1>9. \A T : Below(ms, T) => Below(ws, T)
    BY <1>1, <1>7 DEF Below
  <1>10. ASSUME NEW T, NEW D, MarkedBelow(ms, T, D) PROVE MarkedBelow(ws, T, D)
    <2>1. SUFFICES ASSUME NEW i \in 1..k, NEW t \in Turns, t < T, UserOf(ws[i], t), t \notin D
                   PROVE  Marked(ws, i, t)
      BY <1>1 DEF MarkedBelow
    <2>2. i \in 1..n /\ Marked(ms, i, t)
      BY <1>1, <1>7, <1>10, <2>1 DEF MarkedBelow
    <2>3. PICK j \in (i + 1)..n : /\ ms[j] = Note
                                  /\ \A l \in i..j : ms[l].role = "user" =>
                                       ms[l].knows \subseteq {Prompt(t), Steered(t)}
      BY <1>1, <2>2 DEF Marked
    <2>4. j \in 1..n /\ j \in (i + 1)..k /\ \A l \in i..j : l \in 1..n
      BY <1>2, <2>2, <2>3
    <2>5. ws[j] = Note
      BY <1>2, <2>3, <2>4 DEF Note
    <2>6. \A l \in i..j : ws[l].role = "user" => ws[l].knows \subseteq {Prompt(t), Steered(t)}
      BY <1>2, <2>3, <2>4
    <2> QED
      BY <1>1, <2>4, <2>5, <2>6 DEF Marked
  <1>11. \A F : Mentions(ms, F) /\ f \in F => Mentions(ws, F)
    <2>1. TAKE F
    <2>2. HAVE Mentions(ms, F) /\ f \in F
    <2>3. ASSUME NEW i \in 1..k
          PROVE  ws[i].calls \subseteq F /\ (ws[i].role = "tool" => ws[i].knows \subseteq F)
      <3>1. CASE i \in 1..n
        <4>1. ms[i].calls \subseteq F /\ (ms[i].role = "tool" => ms[i].knows \subseteq F)
          BY <1>1, <2>2, <3>1 DEF Mentions
        <4> QED
          BY <1>2, <2>2, <3>1, <4>1
      <3>2. CASE i \notin 1..n
        BY <1>3, <1>5, <2>2, <3>2
      <3> QED
        BY <3>1, <3>2
    <2> QED
      BY <1>1, <2>3 DEF Mentions
  <1> QED
    BY <1>6, <1>8, <1>9, <1>10, <1>11

(* The calls of ms stay answered; the new one is the only one that may     *)
(* still have to be.                                                       *)
LEMMA CallAddedReplied ==
    ASSUME NEW ms, Context(ms), NEW ws, Context(ws), NEW f \in Facts, CallAdded(ms, ws, f),
           NEW X, AllReplied(ms, X)
    PROVE  /\ AllReplied(ws, X \cup {f})
           /\ AllReplied(Append(ws, Answer(f)), X)
  <1>1. PICK n \in Nat, k \in Nat :
           n = Len(ms) /\ DOMAIN ms = 1..n /\ k = Len(ws) /\ DOMAIN ws = 1..k
    BY DEF Context
  <1>2. /\ k \in {n, n + 1} /\ k # 0 /\ ws[k].role = "assistant"
        /\ k # n => ws[k] = Assistant({f})
        /\ \A i \in 1..n : /\ ws[i].role = ms[i].role
                           /\ ws[i].role # "assistant" => ws[i] = ms[i]
                           /\ ws[i].calls \subseteq ms[i].calls \cup (IF i = k THEN {f} ELSE {})
    <2>1. k # 0
      BY <1>1 DEF CallAdded, Context
    <2> QED
      BY <1>1, <2>1 DEF CallAdded
  <1>3. ASSUME NEW i \in 1..k, NEW g \in ws[i].calls, g \notin X
        PROVE  (i = k /\ g = f) \/ (i < k /\ Replied(ws, i, g))
    <2>1. CASE i = k /\ k # n
      BY <1>2, <1>3, <2>1 DEF Assistant
    <2>2. CASE i \in 1..n
      <3>1. CASE i = k /\ g = f
        BY <3>1
      <3>2. CASE ~(i = k /\ g = f)
        <4>1. g \in ms[i].calls
          BY <1>2, <1>3, <2>2, <3>2
        <4>2. Replied(ms, i, g)
          BY <1>1, <1>3, <2>2, <4>1 DEF AllReplied
        <4>3. PICK j \in (i + 1)..n : ms[j] = Answer(g) /\ \A l \in i..j : ~FromUser(ms[l])
          BY <1>1, <4>2 DEF Replied
        <4>4. j \in 1..n /\ j \in (i + 1)..k /\ i < k /\ \A l \in i..j : l \in 1..n
          BY <1>2, <2>2, <4>3
        <4>5. ws[j] = Answer(g)
          BY <1>2, <4>3, <4>4 DEF Answer
        <4>6. \A l \in i..j : ~FromUser(ws[l])
          BY <1>2, <4>3, <4>4 DEF FromUser
        <4> QED
          BY <1>1, <4>4, <4>5, <4>6 DEF Replied
      <3> QED
        BY <3>1, <3>2
    <2> QED
      BY <1>2, <2>1, <2>2
  <1>4. AllReplied(ws, X \cup {f})
    BY <1>1, <1>3 DEF AllReplied
  <1>5. PICK m : m = Answer(f)
    OBVIOUS
  <1>6. Shaped(m) /\ m \in Messages /\ m.calls = {} /\ m.role = "tool"
    BY <1>5, MessageShapes DEF Shaped, Answer
  <1>7. PICK js : js = Append(ws, m)
    OBVIOUS
  <1>8. /\ Len(js) = k + 1 /\ DOMAIN js = 1..(k + 1) /\ js[k + 1] = m
        /\ \A i \in 1..k : js[i] = ws[i]
    BY <1>1, <1>6, <1>7, AppendFacts DEF Context
  <1>9. AllReplied(js, X)
    <2>1. SUFFICES ASSUME NEW i \in 1..(k + 1), NEW g \in js[i].calls, g \notin X
                   PROVE  Replied(js, i, g)
      BY <1>8 DEF AllReplied
    <2>2. i \in 1..k /\ g \in ws[i].calls
      <3>1. i # k + 1
        BY <1>6, <1>8, <2>1
      <3> QED
        BY <1>8, <2>1, <3>1
    <2>3. CASE i = k /\ g = f
      <3>1. k + 1 \in (i + 1)..Len(js) /\ js[k + 1] = Answer(g)
        BY <1>5, <1>8, <2>3
      <3>2. \A l \in i..(k + 1) : ~FromUser(js[l])
        <4>1. \A l \in i..(k + 1) : l = k \/ l = k + 1
          BY <2>3
        <4>2. k \in 1..k /\ ~FromUser(ws[k]) /\ ~FromUser(m)
          BY <1>2, <1>6 DEF FromUser
        <4> QED
          BY <1>8, <4>1, <4>2
      <3> QED
        BY <3>1, <3>2 DEF Replied
    <2>4. CASE i < k /\ Replied(ws, i, g)
      <3>1. PICK j \in (i + 1)..k : ws[j] = Answer(g) /\ \A l \in i..j : ~FromUser(ws[l])
        BY <1>1, <2>4 DEF Replied
      <3>2. j \in (i + 1)..Len(js) /\ j \in 1..k /\ \A l \in i..j : l \in 1..k
        BY <1>8, <2>2
      <3> QED
        BY <1>8, <3>1, <3>2 DEF Replied
    <2> QED
      BY <1>3, <2>1, <2>2, <2>3, <2>4
  <1> QED
    BY <1>4, <1>5, <1>7, <1>9

(* What a replay makes of a timeline.                                      *)
Completed(ends) == {t \in Turns : ends[t] = "completed"}

Rebuilt(R, ms, T, ends) ==
    /\ Context(ms) /\ InOrder(ms) /\ Below(ms, T + 1)
    /\ AllReplied(ms, NoOut(R)) /\ Mentions(ms, UpTo(T))
    /\ MarkedBelow(ms, T, Completed(ends))

FoldOK(R, st, ends) ==
    /\ st.open \in 0..MaxTurns
    /\ \A i \in DOMAIN R : R[i].turn <= st.open
    /\ st.open # 0 => \E i \in DOMAIN R : R[i].turn = st.open
    /\ Rebuilt(R, st.context, st.open, ends)

(* The note marks the turn that is open.                                   *)
LEMMA ClosedKeeps ==
    ASSUME NEW st, NEW ends, Context(st.context)
    PROVE  /\ Context(Closed(st, ends)) /\ Known(Closed(st, ends)) = Known(st.context)
           /\ \A R : st.open \in 0..MaxTurns /\ Rebuilt(R, st.context, st.open, ends) =>
                /\ Rebuilt(R, Closed(st, ends), st.open, ends)
                /\ MarkedBelow(Closed(st, ends), st.open + 1, Completed(ends))
  <1> DEFINE c == st.context
             o == st.open
  <1>1. CASE o # 0 /\ ends[o] # "completed"
    <2>0. PICK cs : cs = Append(c, Note)
      OBVIOUS
    <2>1. Closed(st, ends) = cs
      BY <1>1, <2>0 DEF Closed
    <2>2. Shaped(Note) /\ Note.role = "note" /\ Note.calls = {} /\ Note.knows = {}
      BY MessageShapes DEF Note
    <2>3. Context(cs) /\ Known(cs) = Known(c)
      BY <2>0, <2>2, AppendContext
    <2>4. ASSUME NEW R, o \in 0..MaxTurns, Rebuilt(R, c, o, ends)
          PROVE  Rebuilt(R, cs, o, ends) /\ MarkedBelow(cs, o + 1, Completed(ends))
      <3>1. o \in Turns
        BY <1>1, <2>4 DEF Turns
      <3>2. AllReplied(cs, NoOut(R))
        BY <2>0, <2>2, <2>4, AppendContext DEF Rebuilt
      <3>3. Mentions(cs, UpTo(o))
        BY <2>0, <2>2, <2>4, AppendContext DEF Rebuilt
      <3>4. InOrder(cs) /\ Below(cs, o + 1) /\ MarkedBelow(cs, o, Completed(ends))
        BY <2>0, <2>2, <2>4, AppendOther DEF Rebuilt
      <3>5. MarkedBelow(cs, o + 1, Completed(ends))
        BY <2>0, <2>4, <3>1, NoteMarks DEF Rebuilt
      <3> QED
        BY <2>3, <3>2, <3>3, <3>4, <3>5 DEF Rebuilt
    <2> QED
      BY <2>1, <2>3, <2>4
  <1>2. CASE ~(o # 0 /\ ends[o] # "completed")
    <2>1. Closed(st, ends) = c
      BY <1>2 DEF Closed
    <2>2. ASSUME NEW R, o \in 0..MaxTurns, Rebuilt(R, c, o, ends)
          PROVE  MarkedBelow(c, o + 1, Completed(ends))
      <3>1. SUFFICES ASSUME NEW i \in DOMAIN c, NEW t \in Turns, t < o + 1, UserOf(c[i], t)
                     PROVE  t \in Completed(ends) \/ Marked(c, i, t)
        BY DEF MarkedBelow
      <3>2. t \in Nat /\ t # 0 /\ o \in Nat
        BY <2>2 DEF Turns
      <3>3. CASE t = o
        BY <1>2, <3>2, <3>3 DEF Completed
      <3>4. CASE t < o
        BY <2>2, <3>1, <3>4 DEF Rebuilt, MarkedBelow
      <3> QED
        BY <3>1, <3>2, <3>3, <3>4
    <2> QED
      BY <2>1, <2>2
  <1> QED
    BY <1>1, <1>2

(* A row that is added to a timeline.                                      *)
LEMMA TimelineGrows ==
    ASSUME NEW R \in Seq(Rows), NEW row \in Rows, NEW T, Timeline(Append(R, row), T)
    PROVE  /\ Timeline(R, T) /\ RowOK(row) /\ row.turn <= T
           /\ \A i \in DOMAIN R : row.turn # 0 => R[i].turn <= row.turn
           /\ NoOut(Append(R, row)) = NoOut(R) \cup (IF row.kind = "tool" /\ ~row.out
                                                     THEN {row.fact} ELSE {})
  <1>1. PICK Q : Q = Append(R, row)
    OBVIOUS
  <1>2. PICK n \in Nat :
           /\ n = Len(R) /\ DOMAIN R = 1..n /\ DOMAIN Q = 1..(n + 1)
           /\ \A i \in 1..n : Q[i] = R[i]
           /\ Q[n + 1] = row
    BY <1>1, AppendFacts
  <1>3. Timeline(Q, T)
    BY <1>1
  <1>4. \A i \in 1..n : i \in 1..(n + 1) /\ i < n + 1
    OBVIOUS
  <1>5. Timeline(R, T)
    <2>1. \A i \in DOMAIN R : RowOK(R[i]) /\ R[i].turn <= T
      BY <1>2, <1>3, <1>4 DEF Timeline
    <2>2. Ordered(R)
      <3>1. Ordered(Q)
        BY <1>3 DEF Timeline
      <3> QED
        BY <1>2, <1>4, <3>1 DEF Ordered
    <2> QED
      BY <2>1, <2>2 DEF Timeline
  <1>6. RowOK(row) /\ row.turn <= T
    BY <1>2, <1>3 DEF Timeline
  <1>7. \A i \in DOMAIN R : row.turn # 0 => R[i].turn <= row.turn
    <2>1. Ordered(Q) /\ n + 1 \in 1..(n + 1)
      BY <1>2, <1>3 DEF Timeline
    <2>2. \A i \in 1..n : row.turn # 0 /\ R[i].turn # 0 => R[i].turn <= row.turn
      BY <1>2, <1>4, <2>1 DEF Ordered
    <2>3. row.turn \in Nat
      BY DEF Rows
    <2>4. \A i \in 1..n : R[i].turn = 0 => R[i].turn <= row.turn
      BY <2>3
    <2> QED
      BY <1>2, <2>2, <2>4
  <1>8. NoOut(Q) = NoOut(R) \cup (IF row.kind = "tool" /\ ~row.out THEN {row.fact} ELSE {})
    <2>1. \A i \in 1..(n + 1) : i \in 1..n \/ i = n + 1
      OBVIOUS
    <2>2. NoOut(Q) \subseteq
            NoOut(R) \cup (IF row.kind = "tool" /\ ~row.out THEN {row.fact} ELSE {})
      BY <1>2, <2>1 DEF NoOut
    <2>3. NoOut(R) \subseteq NoOut(Q)
      BY <1>2, <1>4 DEF NoOut
    <2>4. row.kind = "tool" /\ ~row.out => row.fact \in NoOut(Q)
      BY <1>2 DEF NoOut
    <2> QED
      BY <2>2, <2>3, <2>4
  <1> QED
    BY <1>1, <1>5, <1>6, <1>7, <1>8

Opened(ends, st, row) ==
    IF row.turn \notin {0, st.open} THEN Closed(st, ends) ELSE st.context

(* The replay of a row of each kind.                                       *)
LEMMA ReplayKinds ==
    ASSUME NEW ends, NEW st, NEW row \in Rows
    PROVE  /\ Replay(ends, st, row).open =
                IF row.turn \notin {0, st.open} THEN row.turn ELSE st.open
           /\ row.kind = "user" =>
                Replay(ends, st, row).context = Append(Opened(ends, st, row), User(row.fact))
           /\ row.kind = "text" =>
                Replay(ends, st, row).context = WithText(Opened(ends, st, row))
           /\ row.kind = "tool" =>
                Replay(ends, st, row).context = ReplayTool(Opened(ends, st, row), row)
           /\ row.kind = "compacted" =>
                Replay(ends, st, row).context = ReplayCompaction(st, row.covers)
  <1>1. Replay(ends, st, row).open = IF row.turn \notin {0, st.open} THEN row.turn ELSE st.open
    BY DEF Replay
  <1>2. Replay(ends, st, row).context =
          CASE row.kind = "user" -> Append(Opened(ends, st, row), User(row.fact))
            [] row.kind = "text" -> WithText(Opened(ends, st, row))
            [] row.kind = "tool" -> ReplayTool(Opened(ends, st, row), row)
            [] row.kind = "compacted" -> ReplayCompaction(st, row.covers)
    BY DEF Replay, Opened
  <1> HIDE DEF Opened
  <1> QED
    BY <1>1, <1>2

LEMMA WithTextIs ==
    ASSUME NEW ms
    PROVE  \/ WithText(ms) = Append(ms, Assistant({}))
           \/ WithText(ms) = ms /\ ms # <<>> /\ ms[Len(ms)].role = "assistant"
  BY DEF WithText, EndsWith, Last

(* What the messages end with, if the user says it.                        *)
Pending(ms) == IF ms # <<>> /\ FromUser(ms[Len(ms)]) THEN <<ms[Len(ms)]>> ELSE <<>>

LEMMA PendingFacts ==
    ASSUME NEW ms, Context(ms)
    PROVE  /\ Pending(ms) = <<>> \/ \E m : /\ Pending(ms) = <<m>> /\ Shaped(m) /\ FromUser(m)
                                           /\ ms # <<>> /\ m = ms[Len(ms)]
           /\ Context(Pending(ms)) /\ Known(Pending(ms)) \subseteq Known(ms)
  <1>0. Context(<<>>) /\ Known(<<>>) = {}
    BY DEF Context, Known
  <1>1. CASE ms # <<>> /\ FromUser(ms[Len(ms)])
    <2>1. PICK m : m = ms[Len(ms)]
      OBVIOUS
    <2>2. Len(ms) \in DOMAIN ms
      BY <1>1 DEF Context
    <2>3. Shaped(m) /\ m.knows \subseteq Known(ms)
      BY <2>1, <2>2 DEF Context, Known
    <2>4. Pending(ms) = <<m>>
      BY <1>1, <2>1 DEF Pending
    <2>5. Context(<<m>>) /\ Known(<<m>>) = m.knows
      BY <2>3, OneMessage
    <2> QED
      BY <1>1, <2>1, <2>3, <2>4, <2>5
  <1>2. CASE ~(ms # <<>> /\ FromUser(ms[Len(ms)]))
    BY <1>0, <1>2 DEF Pending
  <1> QED
    BY <1>1, <1>2

LEMMA ReplayCompactionIs ==
    ASSUME NEW st, NEW fs
    PROVE  ReplayCompaction(st, fs) =
             <<Summary(fs)>> \o (IF st.open # 0 THEN Pending(st.context) ELSE <<>>)
  BY DEF ReplayCompaction, Pending, EndsWith, Last

-----------------------------------------------------------------------------
(* The messages a replay makes are in order, answered and marked.          *)

(* A row of a later turn ends the turn that is open.                       *)
LEMMA OpenedOK ==
    ASSUME NEW ends, NEW st, NEW R \in Seq(Rows), NEW row \in Rows, NEW T,
           Timeline(Append(R, row), T), FoldOK(R, st, ends), row.turn # 0
    PROVE  Rebuilt(R, Opened(ends, st, row), row.turn, ends)
  <1> DEFINE o == st.open
  <1>1. o \in Nat /\ row.turn \in Nat
    BY ConversationAssumption DEF FoldOK, Rows
  <1>2. o <= row.turn
    <2>1. CASE o = 0
      BY <1>1, <2>1
    <2>2. CASE o # 0
      <3>1. PICK i \in DOMAIN R : R[i].turn = o
        BY <2>2 DEF FoldOK
      <3> QED
        BY <3>1, TimelineGrows
    <2> QED
      BY <2>1, <2>2
  <1>3. CASE row.turn = o
    <2>1. Opened(ends, st, row) = st.context
      BY <1>3 DEF Opened
    <2> QED
      BY <1>3, <2>1 DEF FoldOK
  <1>4. CASE row.turn # o
    <2>1. PICK c : c = Closed(st, ends)
      OBVIOUS
    <2>2. Opened(ends, st, row) = c
      BY <1>4, <2>1 DEF Opened
    <2>3. Rebuilt(R, c, o, ends) /\ MarkedBelow(c, o + 1, Completed(ends))
      BY <2>1, ClosedKeeps DEF FoldOK, Rebuilt
    <2>4. o < row.turn
      BY <1>1, <1>2, <1>4
    <2>5. Below(c, row.turn + 1)
      BY <1>1, <2>3, <2>4 DEF Rebuilt, Below, Turns
    <2>6. Mentions(c, UpTo(row.turn))
      <3>1. UpTo(o) \subseteq UpTo(row.turn)
        BY <1>1, <2>4 DEF UpTo, Facts, Turns
      <3> QED
        BY <2>3, <3>1 DEF Rebuilt, Mentions
    <2>7. MarkedBelow(c, row.turn, Completed(ends))
      <3>1. \A i \in DOMAIN c : \A t \in Turns : UserOf(c[i], t) => t < o + 1
        BY <2>3 DEF Rebuilt, Below
      <3> QED
        BY <2>3, <3>1 DEF MarkedBelow
    <2> QED
      BY <2>2, <2>3, <2>5, <2>6, <2>7 DEF Rebuilt
  <1> QED
    BY <1>3, <1>4

(* Any message but the user's that has no calls.                           *)
LEMMA RebuiltAppend ==
    ASSUME NEW R, NEW ms, NEW T, NEW ends, Rebuilt(R, ms, T, ends), NEW m, Shaped(m),
           m.role # "user", m.calls = {}, m.role = "tool" => m.knows \subseteq UpTo(T)
    PROVE  Rebuilt(R, Append(ms, m), T, ends)
  <1>0. PICK js : js = Append(ms, m)
    OBVIOUS
  <1>1. Context(ms)
    BY DEF Rebuilt
  <1>2. Context(js) /\ AllReplied(js, NoOut(R)) /\ Mentions(js, UpTo(T))
    BY <1>0, <1>1, AppendContext DEF Rebuilt
  <1>3. InOrder(js) /\ Below(js, T + 1) /\ MarkedBelow(js, T, Completed(ends))
    BY <1>0, <1>1, AppendOther DEF Rebuilt
  <1> QED
    BY <1>0, <1>2, <1>3 DEF Rebuilt

(* Input of the client is of the turn that is open.                        *)
LEMMA RebuiltUser ==
    ASSUME NEW R, NEW ms, NEW t \in Turns, NEW ends, Rebuilt(R, ms, t, ends),
           NEW f \in {Prompt(t), Steered(t)}
    PROVE  Rebuilt(R, Append(ms, User(f)), t, ends)
  <1>0. PICK m : m = User(f)
    OBVIOUS
  <1>1. Shaped(m) /\ UserOf(m, t) /\ m.calls = {} /\ m.role # "tool"
    BY <1>0, MessageShapes DEF User
  <1>2. PICK js : js = Append(ms, m)
    OBVIOUS
  <1>3. Context(ms)
    BY DEF Rebuilt
  <1>4. Context(js) /\ AllReplied(js, NoOut(R)) /\ Mentions(js, UpTo(t))
    BY <1>1, <1>2, <1>3, AppendContext DEF Rebuilt
  <1>5. InOrder(js) /\ Below(js, t + 1) /\ MarkedBelow(js, t, Completed(ends))
    BY <1>1, <1>2, <1>3, AppendInput DEF Rebuilt
  <1> QED
    BY <1>0, <1>2, <1>4, <1>5 DEF Rebuilt

LEMMA RebuiltText ==
    ASSUME NEW R, NEW ms, NEW T, NEW ends, Rebuilt(R, ms, T, ends)
    PROVE  Rebuilt(R, WithText(ms), T, ends)
  <1>0. PICK m : m = Assistant({})
    OBVIOUS
  <1>1. Shaped(m) /\ m.role = "assistant" /\ m.calls = {}
    BY <1>0, MessageShapes DEF Assistant
  <1>2. Rebuilt(R, Append(ms, m), T, ends)
    BY <1>1, RebuiltAppend
  <1> QED
    BY <1>0, <1>2, WithTextIs

(* A call, with its answer if it has an output.                            *)
LEMMA RebuiltTool ==
    ASSUME NEW R, NEW ms, NEW T, NEW ends, Rebuilt(R, ms, T, ends), NEW Q, NEW row \in Rows,
           row.kind = "tool", row.fact \in UpTo(T),
           NoOut(Q) = NoOut(R) \cup (IF row.kind = "tool" /\ ~row.out THEN {row.fact} ELSE {})
    PROVE  Rebuilt(Q, ReplayTool(ms, row), T, ends)
  <1>0. PICK f, ws : f = row.fact /\ ws = WithCall(ms, f)
    OBVIOUS
  <1>1. f \in Facts /\ row.out \in BOOLEAN /\ row.image \in BOOLEAN
    BY <1>0 DEF Rows
  <1>2. Context(ms) /\ Context(ws) /\ CallAdded(ms, ws, f)
    BY <1>0, <1>1, WithCallAdds DEF Rebuilt
  <1>3. /\ InOrder(ws) /\ Below(ws, T + 1) /\ MarkedBelow(ws, T, Completed(ends))
        /\ Mentions(ws, UpTo(T))
    BY <1>0, <1>1, <1>2, CallAddedKeeps DEF Rebuilt
  <1>4. /\ AllReplied(ws, NoOut(R) \cup {f})
        /\ AllReplied(Append(ws, Answer(f)), NoOut(R))
    BY <1>1, <1>2, CallAddedReplied DEF Rebuilt
  <1>5. PICK m : m = Answer(f)
    OBVIOUS
  <1>6. Shaped(m) /\ m.role = "tool" /\ m.knows = {f} /\ m.calls = {}
    BY <1>1, <1>5, MessageShapes DEF Answer
  <1>7. PICK xs : xs = IF row.out THEN Append(ws, m) ELSE ws
    OBVIOUS
  <1>8. Rebuilt(Q, xs, T, ends)
    <2>1. CASE row.out
      <3>1. xs = Append(ws, m) /\ NoOut(Q) = NoOut(R)
        BY <1>7, <2>1
      <3>2. Context(xs) /\ Mentions(xs, UpTo(T))
        BY <1>0, <1>2, <1>3, <1>6, <3>1, AppendContext
      <3>3. InOrder(xs) /\ Below(xs, T + 1) /\ MarkedBelow(xs, T, Completed(ends))
        BY <1>2, <1>3, <1>6, <3>1, AppendOther
      <3>4. AllReplied(xs, NoOut(Q))
        BY <1>4, <1>5, <3>1
      <3> QED
        BY <3>2, <3>3, <3>4 DEF Rebuilt
    <2>2. CASE ~row.out
      <3>1. xs = ws /\ NoOut(Q) = NoOut(R) \cup {f}
        BY <1>0, <1>7, <2>2
      <3> QED
        BY <1>2, <1>3, <1>4, <3>1 DEF Rebuilt
    <2> QED
      BY <2>1, <2>2
  <1>9. ReplayTool(ms, row) = IF row.image THEN Append(xs, Observation) ELSE xs
    <2>1. ws \in Seq(Messages)
      BY <1>2 DEF Context
    <2>2. ws \o <<>> = ws /\ ws \o <<m>> = Append(ws, m)
      BY <2>1
    <2>3. ReplayTool(ms, row) = xs \o (IF row.image THEN <<Observation>> ELSE <<>>)
      BY <1>0, <1>5, <1>7, <2>2 DEF ReplayTool
    <2>4. xs \in Seq(Messages)
      BY <1>8 DEF Rebuilt, Context
    <2>5. xs \o <<>> = xs /\ xs \o <<Observation>> = Append(xs, Observation)
      BY <2>4
    <2> QED
      BY <2>3, <2>5
  <1>10. Shaped(Observation) /\ Observation.role = "observation" /\ Observation.calls = {}
    BY MessageShapes DEF Observation
  <1>11. Rebuilt(Q, Append(xs, Observation), T, ends)
    BY <1>8, <1>10, RebuiltAppend
  <1> QED
    BY <1>8, <1>9, <1>11

(* A summary, with the input that waits.                                   *)
LEMMA RebuiltCompaction ==
    ASSUME NEW R, NEW st, NEW ends, Rebuilt(R, st.context, st.open, ends),
           NEW fs \in SUBSET Facts, NEW ms, ms = ReplayCompaction(st, fs)
    PROVE  Rebuilt(R, ms, st.open, ends)
  <1> DEFINE T == st.open
             c == st.context
  <1>0. PICK s : s = Summary(fs)
    OBVIOUS
  <1>1. /\ Shaped(s) /\ s.role = "summary" /\ s.calls = {}
    BY <1>0, MessageShapes DEF Summary
  <1>2. PICK ss : ss = <<s>>
    OBVIOUS
  <1>3. Context(ss) /\ Quiet(ss) /\ Mentions(ss, UpTo(T)) /\ InOrder(ss)
    BY <1>1, <1>2, OneMessage
  <1>4. /\ AllReplied(ss, NoOut(R)) /\ Below(ss, T + 1) /\ Below(ss, 1)
        /\ MarkedBelow(ss, T, Completed(ends))
    BY <1>3, QuietFacts
  <1>5. Context(c)
    BY DEF Rebuilt
  <1>6. PICK ps : ps = IF T # 0 THEN Pending(c) ELSE <<>>
    OBVIOUS
  <1>7. ms = ss \o ps
    BY <1>0, <1>2, <1>6, ReplayCompactionIs
  <1>8. CASE ps = <<>>
    <2>1. ms = ss
      BY <1>3, <1>7, <1>8 DEF Context
    <2> QED
      BY <1>3, <1>4, <2>1 DEF Rebuilt
  <1>9. CASE ps # <<>>
    <2>1. PICK m : ps = <<m>> /\ Shaped(m) /\ FromUser(m) /\ c # <<>> /\ m = c[Len(c)]
      BY <1>5, <1>6, <1>9, PendingFacts
    <2>2. m.role # "assistant" /\ m.role # "tool" /\ m.calls = {}
      BY <2>1 DEF FromUser, Shaped
    <2>3. /\ Context(ps) /\ InOrder(ps) /\ AllReplied(ps, NoOut(R))
          /\ Mentions(ps, UpTo(T))
      BY <2>1, <2>2, OneMessage
    <2>4. Len(c) \in DOMAIN c /\ DOMAIN c = 1..Len(c)
      BY <1>5, <2>1 DEF Context
    <2>5. DOMAIN ps = 1..1 /\ \A i \in 1..1 : ps[i] = m
      BY <2>1
    <2>6. Below(ps, T + 1)
      BY <2>1, <2>4, <2>5 DEF Rebuilt, Below
    <2>7. MarkedBelow(ps, T, Completed(ends))
      <3>1. SUFFICES ASSUME NEW t \in Turns, t < T, UserOf(m, t)
                     PROVE  t \in Completed(ends)
        BY <2>5 DEF MarkedBelow
      <3>2. t \in Completed(ends) \/ Marked(c, Len(c), t)
        BY <2>1, <2>4, <3>1 DEF Rebuilt, MarkedBelow
      <3>3. ~Marked(c, Len(c), t)
        BY <2>4 DEF Marked
      <3> QED
        BY <3>2, <3>3
    <2>8. Context(ms) /\ AllReplied(ms, NoOut(R)) /\ Mentions(ms, UpTo(T))
      BY <1>3, <1>4, <1>7, <2>3, JoinContext, JoinReplied, JoinMentions
    <2>9. Below(ms, T + 1) /\ MarkedBelow(ms, T, Completed(ends))
      BY <1>3, <1>4, <1>7, <2>3, <2>6, <2>7, JoinBelow, JoinMarked
    <2>10. InOrder(ms)
      <3>1. Below(ss, 0 + 1) /\ From(ps, 0) /\ 0 \in Nat
        BY <1>4 DEF From, Turns
      <3> QED
        BY <1>3, <1>7, <2>3, <3>1, JoinInOrder
    <2> QED
      BY <2>8, <2>9, <2>10 DEF Rebuilt
  <1> QED
    BY <1>8, <1>9

(* One more row keeps the replayed messages in order, answered and marked. *)
LEMMA FoldStep ==
    ASSUME NEW ends, NEW st, NEW R \in Seq(Rows), NEW row \in Rows, NEW T,
           Timeline(Append(R, row), T), FoldOK(R, st, ends)
    PROVE  FoldOK(Append(R, row), Replay(ends, st, row), ends)
  <1>0. PICK Q, nx, ms : /\ Q = Append(R, row) /\ nx = Replay(ends, st, row)
                         /\ ms = Opened(ends, st, row)
    OBVIOUS
  <1>1. /\ RowOK(row) /\ \A i \in DOMAIN R : row.turn # 0 => R[i].turn <= row.turn
        /\ NoOut(Q) = NoOut(R) \cup (IF row.kind = "tool" /\ ~row.out THEN {row.fact} ELSE {})
    BY <1>0, TimelineGrows
  <1>2. /\ DOMAIN Q = 1..(Len(R) + 1) /\ Len(R) \in Nat /\ DOMAIN R = 1..Len(R)
        /\ \A i \in 1..Len(R) : Q[i] = R[i]
        /\ Q[Len(R) + 1] = row
    BY <1>0, AppendFacts
  <1>3. row.turn \in 0..MaxTurns /\ row.fact \in Facts /\ row.covers \in SUBSET Facts
    BY DEF Rows
  <1>4. /\ st.open \in 0..MaxTurns /\ MaxTurns \in Nat
        /\ nx.open = IF row.turn \notin {0, st.open} THEN row.turn ELSE st.open
    BY <1>0, ReplayKinds, ConversationAssumption DEF FoldOK
  <1>5. CASE row.turn = 0
    <2>1. row.kind = "compacted" /\ nx.open = st.open
      BY <1>1, <1>4, <1>5 DEF RowOK
    <2>2. NoOut(Q) = NoOut(R)
      BY <1>1, <2>1
    <2>3. Rebuilt(R, nx.context, st.open, ends)
      <3>1. nx.context = ReplayCompaction(st, row.covers)
        BY <1>0, <2>1, ReplayKinds
      <3> QED
        BY <1>3, <3>1, RebuiltCompaction DEF FoldOK
    <2>4. Rebuilt(Q, nx.context, nx.open, ends)
      BY <2>1, <2>2, <2>3 DEF Rebuilt
    <2>5. \A i \in DOMAIN Q : Q[i].turn <= nx.open
      <3>1. \A i \in DOMAIN Q : i \in 1..Len(R) \/ i = Len(R) + 1
        BY <1>2
      <3>2. \A i \in 1..Len(R) : R[i].turn <= st.open
        BY <1>2 DEF FoldOK
      <3>3. 0 <= st.open
        BY <1>4
      <3> QED
        BY <1>2, <1>5, <2>1, <3>1, <3>2, <3>3
    <2>6. nx.open # 0 => \E i \in DOMAIN Q : Q[i].turn = nx.open
      <3>1. SUFFICES ASSUME nx.open # 0 PROVE \E i \in DOMAIN Q : Q[i].turn = nx.open
        OBVIOUS
      <3>2. PICK i \in DOMAIN R : R[i].turn = st.open
        BY <2>1, <3>1 DEF FoldOK
      <3>3. i \in DOMAIN Q /\ Q[i] = R[i]
        BY <1>2
      <3> QED
        BY <2>1, <3>2, <3>3
    <2> QED
      BY <1>0, <1>4, <2>1, <2>4, <2>5, <2>6 DEF FoldOK
  <1>6. CASE row.turn # 0
    <2>1. nx.open = row.turn
      BY <1>4, <1>6
    <2>2. Rebuilt(R, ms, row.turn, ends)
      BY <1>0, <1>6, OpenedOK
    <2>3. Rebuilt(Q, nx.context, row.turn, ends)
      <3>1. row.kind \in {"user", "text", "tool"}
        BY <1>1, <1>6 DEF RowOK, Rows, Kinds
      <3>2. CASE row.kind = "user"
        <4>1. nx.context = Append(ms, User(row.fact)) /\ NoOut(Q) = NoOut(R)
          BY <1>0, <1>1, <3>2, ReplayKinds
        <4>2. row.turn \in Turns /\ row.fact \in {Prompt(row.turn), Steered(row.turn)}
          BY <1>1, <1>3, <1>6, <3>2 DEF RowOK, Turns
        <4>3. Rebuilt(R, nx.context, row.turn, ends)
          BY <2>2, <4>1, <4>2, RebuiltUser
        <4> QED
          BY <4>1, <4>3 DEF Rebuilt
      <3>3. CASE row.kind = "text"
        <4>1. nx.context = WithText(ms) /\ NoOut(Q) = NoOut(R)
          BY <1>0, <1>1, <3>3, ReplayKinds
        <4>2. Rebuilt(R, nx.context, row.turn, ends)
          BY <2>2, <4>1, RebuiltText
        <4> QED
          BY <4>1, <4>2 DEF Rebuilt
      <3>4. CASE row.kind = "tool"
        <4>1. nx.context = ReplayTool(ms, row)
          BY <1>0, <3>4, ReplayKinds
        <4>2. row.fact \in UpTo(row.turn)
          BY <1>1, <1>3, <3>4 DEF RowOK, UpTo
        <4> QED
          BY <1>1, <2>2, <3>4, <4>1, <4>2, RebuiltTool
      <3> QED
        BY <3>1, <3>2, <3>3, <3>4
    <2>4. \A i \in DOMAIN Q : Q[i].turn <= nx.open
      <3>1. \A i \in DOMAIN Q : i \in 1..Len(R) \/ i = Len(R) + 1
        BY <1>2
      <3>2. \A i \in 1..Len(R) : R[i].turn <= row.turn
        BY <1>1, <1>2, <1>6
      <3>3. row.turn <= row.turn
        BY <1>3
      <3> QED
        BY <1>2, <2>1, <3>1, <3>2, <3>3
    <2>5. \E i \in DOMAIN Q : Q[i].turn = nx.open
      BY <1>2, <2>1
    <2> QED
      BY <1>0, <1>3, <2>1, <2>3, <2>4, <2>5 DEF FoldOK
  <1> QED
    BY <1>5, <1>6

(* So they are for every timeline.                                         *)
LEMMA FoldHolds ==
    ASSUME NEW ends, NEW T, NEW R, Timeline(R, T)
    PROVE  FoldOK(R, Replayed(R, ends), ends)
  <1> DEFINE S == {Q \in Seq(Rows) : Timeline(Q, T) => FoldOK(Q, Replayed(Q, ends), ends)}
  <1>1. <<>> \in S
    <2>1. PICK st : st = [open |-> 0, context |-> <<>>]
      OBVIOUS
    <2>2. Replayed(<<>>, ends) = st
      <3>1. <<>> \in Seq(Rows)
        OBVIOUS
      <3> QED
        BY <2>1, <3>1, ReplayedSteps
    <2>3. st.open = 0 /\ st.context = <<>>
      BY <2>1
    <2>4. Context(<<>>) /\ Quiet(<<>>) /\ Mentions(<<>>, UpTo(0))
      BY DEF Context, Quiet, Mentions
    <2>5. Rebuilt(<<>>, <<>>, 0, ends)
      BY <2>4, QuietFacts DEF Rebuilt
    <2>6. 0 \in 0..MaxTurns
      BY ConversationAssumption
    <2>7. FoldOK(<<>>, st, ends)
      BY <2>3, <2>5, <2>6 DEF FoldOK
    <2> QED
      BY <2>2, <2>7
  <1>2. ASSUME NEW Q \in Seq(Rows), NEW row \in Rows, Q \in S PROVE Append(Q, row) \in S
    <2>1. Append(Q, row) \in Seq(Rows)
      BY AppendFacts
    <2>2. SUFFICES ASSUME Timeline(Append(Q, row), T)
                   PROVE  FoldOK(Append(Q, row), Replayed(Append(Q, row), ends), ends)
      BY <2>1
    <2>3. FoldOK(Q, Replayed(Q, ends), ends)
      BY <1>2, <2>2, TimelineGrows
    <2>4. Replayed(Append(Q, row), ends) = Replay(ends, Replayed(Q, ends), row)
      BY ReplayedSteps
    <2>5. FoldOK(Append(Q, row), Replay(ends, Replayed(Q, ends), row), ends)
      BY <2>2, <2>3, FoldStep
    <2> QED
      BY <2>4, <2>5
  <1> HIDE DEF S
  <1>3. Seq(Rows) \subseteq S
    BY <1>1, <1>2, SeqInduction
  <1> QED
    BY <1>3 DEF S, Timeline

-----------------------------------------------------------------------------
(* What the replay of a timeline knows, row by row.                        *)

(* A replay depends on the ends of the turns only in its notes.            *)
SameGist(a, b) ==
    /\ a.open = b.open /\ Known(a.context) = Known(b.context)
    /\ Pending(a.context) = Pending(b.context)

KnownAfter(known, pending, row) ==
    CASE row.kind = "user" -> known \cup {row.fact}
      [] row.kind = "text" -> known
      [] row.kind = "tool" -> known \cup (IF row.out THEN {row.fact} ELSE {})
      [] row.kind = "compacted" -> row.covers \cup Known(pending)
PendingAfter(pending, row) ==
    CASE row.kind = "user" -> <<User(row.fact)>>
      [] row.kind = "text" -> <<>>
      [] row.kind = "tool" -> IF row.image THEN <<Observation>> ELSE <<>>
      [] row.kind = "compacted" -> IF pending # <<>> THEN pending ELSE <<Summary(row.covers)>>

LEMMA PendingAppend ==
    ASSUME NEW ms, Context(ms), NEW m, Shaped(m)
    PROVE  Pending(Append(ms, m)) = IF FromUser(m) THEN <<m>> ELSE <<>>
  <1>1. m \in Messages
    BY DEF Shaped
  <1>2. PICK js : js = Append(ms, m)
    OBVIOUS
  <1>3. js # <<>> /\ js[Len(js)] = m
    BY <1>1, <1>2, AppendFacts DEF Context
  <1> QED
    BY <1>2, <1>3 DEF Pending

(* What one row adds to what is known depends on the row alone.            *)
LEMMA ReplayGist ==
    ASSUME NEW ends, NEW st, NEW row \in Rows, RowOK(row), Context(st.context)
    PROVE  LET nx == Replay(ends, st, row)
               p == IF st.open # 0 THEN Pending(st.context) ELSE <<>>
           IN /\ Context(nx.context)
              /\ nx.open = IF row.turn \notin {0, st.open} THEN row.turn ELSE st.open
              /\ Known(nx.context) = KnownAfter(Known(st.context), p, row)
              /\ Pending(nx.context) = PendingAfter(p, row)
  <1>0. PICK nx, p, ms : /\ nx = Replay(ends, st, row)
                         /\ p = IF st.open # 0 THEN Pending(st.context) ELSE <<>>
                         /\ ms = Opened(ends, st, row)
    OBVIOUS
  <1>1. nx.open = IF row.turn \notin {0, st.open} THEN row.turn ELSE st.open
    BY <1>0, ReplayKinds
  <1>2. Context(ms) /\ Known(ms) = Known(st.context)
    BY <1>0, ClosedKeeps DEF Opened
  <1>3. row.kind \in Kinds /\ row.fact \in Facts /\ row.covers \in SUBSET Facts
    BY DEF Rows
  <1> DEFINE Goal == /\ Context(nx.context)
                     /\ Known(nx.context) = KnownAfter(Known(st.context), p, row)
                     /\ Pending(nx.context) = PendingAfter(p, row)
  <1>4. ASSUME row.kind = "user" PROVE Goal
    <2>1. PICK m : m = User(row.fact)
      OBVIOUS
    <2>2. row.turn \in Turns
      BY <1>4 DEF RowOK, Rows, Turns
    <2>3. Shaped(m) /\ FromUser(m) /\ m.knows = {row.fact}
      BY <1>4, <2>1, <2>2, MessageShapes DEF RowOK, User, FromUser
    <2>4. nx.context = Append(ms, m)
      BY <1>0, <1>4, <2>1, ReplayKinds
    <2>5. Context(nx.context) /\ Known(nx.context) = Known(st.context) \cup {row.fact}
      BY <1>2, <2>3, <2>4, AppendContext
    <2>6. Pending(nx.context) = <<m>>
      BY <1>2, <2>3, <2>4, PendingAppend
    <2> QED
      BY <1>4, <2>1, <2>5, <2>6 DEF KnownAfter, PendingAfter
  <1>5. ASSUME row.kind = "text" PROVE Goal
    <2>1. PICK m : m = Assistant({})
      OBVIOUS
    <2>2. Shaped(m) /\ ~FromUser(m) /\ m.knows = {}
      BY <2>1, MessageShapes DEF Assistant, FromUser
    <2>3. nx.context = WithText(ms)
      BY <1>0, <1>5, ReplayKinds
    <2>4. Context(nx.context) /\ Known(nx.context) = Known(st.context) /\ Pending(nx.context) = <<>>
      <3>1. CASE nx.context = Append(ms, m)
        <4>1. Context(nx.context) /\ Known(nx.context) = Known(st.context)
          <5>1. Context(nx.context) /\ Known(nx.context) = Known(ms) \cup m.knows
            BY <1>2, <2>2, <3>1, AppendContext
          <5> QED
            BY <1>2, <2>2, <5>1
        <4>2. Pending(nx.context) = <<>>
          BY <1>2, <2>2, <3>1, PendingAppend
        <4> QED
          BY <4>1, <4>2
      <3>2. CASE nx.context = ms /\ ms[Len(ms)].role = "assistant"
        BY <1>2, <3>2 DEF Pending, FromUser
      <3> QED
        BY <2>1, <2>3, <3>1, <3>2, WithTextIs
    <2> QED
      BY <1>5, <2>4 DEF KnownAfter, PendingAfter
  <1>6. ASSUME row.kind = "tool" PROVE Goal
    <2>1. PICK f, ws : f = row.fact /\ ws = WithCall(ms, f)
      OBVIOUS
    <2>2. f \in Facts /\ row.out \in BOOLEAN /\ row.image \in BOOLEAN
      BY <2>1 DEF Rows
    <2>3. Context(ws) /\ CallAdded(ms, ws, f)
      BY <1>2, <2>1, <2>2, WithCallAdds
    <2>4. Known(ws) = Known(st.context) /\ Pending(ws) = <<>>
      <3>1. Known(ws) = Known(ms)
        BY <1>2, <2>2, <2>3, CallAddedKeeps
      <3>2. Pending(ws) = <<>>
        BY <2>3 DEF CallAdded, Pending, FromUser
      <3> QED
        BY <1>2, <3>1, <3>2
    <2>5. PICK m : m = Answer(f)
      OBVIOUS
    <2>6. Shaped(m) /\ ~FromUser(m) /\ m.knows = {f}
      BY <2>2, <2>5, MessageShapes DEF Answer, FromUser
    <2>7. PICK xs : xs = IF row.out THEN Append(ws, m) ELSE ws
      OBVIOUS
    <2>8. /\ Context(xs) /\ Pending(xs) = <<>>
          /\ Known(xs) = Known(st.context) \cup (IF row.out THEN {f} ELSE {})
      <3>1. CASE row.out
        <4>1. xs = Append(ws, m)
          BY <2>7, <3>1
        <4>2. Context(xs) /\ Known(xs) = Known(ws) \cup {f}
          BY <2>3, <2>6, <4>1, AppendContext
        <4>3. Pending(xs) = <<>>
          BY <2>3, <2>6, <4>1, PendingAppend
        <4> QED
          BY <2>4, <3>1, <4>2, <4>3
      <3>2. CASE ~row.out
        BY <2>3, <2>4, <2>7, <3>2
      <3> QED
        BY <3>1, <3>2
    <2>9. ReplayTool(ms, row) = IF row.image THEN Append(xs, Observation) ELSE xs
      <3>1. ws \in Seq(Messages)
        BY <2>3 DEF Context
      <3>2. ws \o <<>> = ws /\ ws \o <<m>> = Append(ws, m)
        BY <3>1
      <3>3. ReplayTool(ms, row) = xs \o (IF row.image THEN <<Observation>> ELSE <<>>)
        BY <2>1, <2>5, <2>7, <3>2 DEF ReplayTool
      <3>4. xs \in Seq(Messages)
        BY <2>8 DEF Context
      <3>5. xs \o <<>> = xs /\ xs \o <<Observation>> = Append(xs, Observation)
        BY <3>4
      <3> QED
        BY <3>3, <3>5
    <2>10. nx.context = IF row.image THEN Append(xs, Observation) ELSE xs
      BY <1>0, <1>6, <2>9, ReplayKinds
    <2>11. Shaped(Observation) /\ FromUser(Observation) /\ Observation.knows = {}
      BY MessageShapes DEF Observation, FromUser
    <2>12. PICK o : o = Observation
      OBVIOUS
    <2>13. Context(nx.context) /\ Known(nx.context) = Known(xs)
      <3>1. Context(Append(xs, o)) /\ Known(Append(xs, o)) = Known(xs)
        BY <2>8, <2>11, <2>12, AppendContext
      <3> QED
        BY <2>8, <2>10, <2>12, <3>1
    <2>14. Pending(nx.context) = IF row.image THEN <<Observation>> ELSE <<>>
      <3>1. Pending(Append(xs, o)) = <<o>>
        BY <2>8, <2>11, <2>12, PendingAppend
      <3> QED
        BY <2>8, <2>10, <2>12, <3>1
    <2> QED
      BY <1>6, <2>1, <2>8, <2>13, <2>14 DEF KnownAfter, PendingAfter
  <1>7. ASSUME row.kind = "compacted" PROVE Goal
    <2>1. PICK s : s = Summary(row.covers)
      OBVIOUS
    <2>2. Shaped(s) /\ FromUser(s) /\ s.knows = row.covers
      BY <1>3, <2>1, MessageShapes DEF Summary, FromUser
    <2>3. nx.context = <<s>> \o p
      BY <1>0, <1>7, <2>1, ReplayKinds, ReplayCompactionIs
    <2>4. Context(<<s>>) /\ Known(<<s>>) = row.covers
      BY <2>2, OneMessage
    <2>5. Context(p) /\ (p = <<>> \/ \E m : p = <<m>> /\ Shaped(m) /\ FromUser(m))
      <3>1. Context(<<>>)
        BY DEF Context
      <3> QED
        BY <1>0, <3>1, PendingFacts
    <2>6. Context(nx.context) /\ Known(nx.context) = row.covers \cup Known(p)
      BY <2>3, <2>4, <2>5, JoinContext
    <2>7. Pending(nx.context) = IF p # <<>> THEN p ELSE <<s>>
      <3>1. PICK ss : ss = <<s>>
        OBVIOUS
      <3>2. CASE p = <<>>
        <4>1. ss \o <<>> = ss
          BY <2>4, <3>1 DEF Context
        <4>2. ss # <<>> /\ ss[Len(ss)] = s
          BY <3>1
        <4> QED
          BY <2>2, <2>3, <3>1, <3>2, <4>1, <4>2 DEF Pending
      <3>3. CASE p # <<>>
        <4>1. PICK m : p = <<m>> /\ Shaped(m) /\ FromUser(m)
          BY <2>5, <3>3
        <4>2. nx.context = Append(ss, m)
          BY <2>3, <2>4, <3>1, <4>1, AppendIsJoin
        <4> QED
          BY <2>4, <3>1, <3>3, <4>1, <4>2, PendingAppend
      <3> QED
        BY <3>2, <3>3
    <2> QED
      BY <1>7, <2>1, <2>6, <2>7 DEF KnownAfter, PendingAfter
  <1>8. Goal
    BY <1>3, <1>4, <1>5, <1>6, <1>7 DEF Kinds
  <1> QED
    BY <1>0, <1>1, <1>8

(* So what is known does not depend on how the turns ended.                *)
LEMMA GistHolds ==
    ASSUME NEW ends, NEW T, NEW R, Timeline(R, T)
    PROVE  SameGist(Replayed(R, ends), Replayed(R, AllDone))
  <1> DEFINE S == {Q \in Seq(Rows) :
                     Timeline(Q, T) => SameGist(Replayed(Q, ends), Replayed(Q, AllDone))}
  <1>1. <<>> \in S
    <2>1. Replayed(<<>>, ends) = Replayed(<<>>, AllDone)
      <3>1. <<>> \in Seq(Rows)
        OBVIOUS
      <3> QED
        BY <3>1, ReplayedSteps
    <2> QED
      BY <2>1 DEF SameGist
  <1>2. ASSUME NEW Q \in Seq(Rows), NEW row \in Rows, Q \in S PROVE Append(Q, row) \in S
    <2>1. Append(Q, row) \in Seq(Rows)
      BY AppendFacts
    <2>2. SUFFICES ASSUME Timeline(Append(Q, row), T)
                   PROVE  SameGist(Replayed(Append(Q, row), ends),
                                   Replayed(Append(Q, row), AllDone))
      BY <2>1
    <2>3. Timeline(Q, T) /\ RowOK(row)
      BY <2>2, TimelineGrows
    <2>4. PICK a, b : a = Replayed(Q, ends) /\ b = Replayed(Q, AllDone)
      OBVIOUS
    <2>5. SameGist(a, b)
      BY <1>2, <2>3, <2>4
    <2>6. Context(a.context) /\ Context(b.context)
      BY <2>3, <2>4, FoldHolds DEF FoldOK, Rebuilt
    <2>7. PICK c, d : c = Replay(ends, a, row) /\ d = Replay(AllDone, b, row)
      OBVIOUS
    <2>8. Replayed(Append(Q, row), ends) = c /\ Replayed(Append(Q, row), AllDone) = d
      BY <2>4, <2>7, ReplayedSteps
    <2> DEFINE p == IF a.open # 0 THEN Pending(a.context) ELSE <<>>
    <2>9. /\ c.open = IF row.turn \notin {0, a.open} THEN row.turn ELSE a.open
          /\ Known(c.context) = KnownAfter(Known(a.context), p, row)
          /\ Pending(c.context) = PendingAfter(p, row)
      BY <2>3, <2>6, <2>7, ReplayGist
    <2>10. p = IF b.open # 0 THEN Pending(b.context) ELSE <<>>
      BY <2>5 DEF SameGist
    <2>11. /\ d.open = IF row.turn \notin {0, b.open} THEN row.turn ELSE b.open
           /\ Known(d.context) = KnownAfter(Known(b.context), p, row)
           /\ Pending(d.context) = PendingAfter(p, row)
      BY <2>3, <2>6, <2>7, <2>10, ReplayGist
    <2> HIDE DEF p
    <2>12. SameGist(c, d)
      BY <2>5, <2>9, <2>11 DEF SameGist
    <2> QED
      BY <2>8, <2>12
  <1> HIDE DEF S
  <1>3. Seq(Rows) \subseteq S
    BY <1>1, <1>2, SeqInduction
  <1> QED
    BY <1>3 DEF S, Timeline

(* What a restart recalls of one more row.                                 *)
LEMMA RecallsSteps ==
    ASSUME NEW R \in Seq(Rows), NEW row \in Rows, NEW T, Timeline(Append(R, row), T)
    PROVE  /\ row.kind = "user" => Recalls(Append(R, row)) = Recalls(R) \cup {row.fact}
           /\ row.kind = "text" => Recalls(Append(R, row)) = Recalls(R)
           /\ row.kind = "tool" =>
                Recalls(Append(R, row)) = Recalls(R) \cup (IF row.out THEN {row.fact} ELSE {})
           /\ row.kind = "compacted" =>
                /\ row.covers \subseteq Recalls(Append(R, row))
                /\ Recalls(Append(R, row)) \subseteq row.covers \cup Recalls(R)
  <1>1. Timeline(R, T) /\ RowOK(row)
    BY TimelineGrows
  <1>2. PICK st, nx : st = Replayed(R, AllDone) /\ nx = Replay(AllDone, st, row)
    OBVIOUS
  <1>3. Recalls(R) = Known(st.context) /\ Recalls(Append(R, row)) = Known(nx.context)
    BY <1>2, ReplayedSteps DEF Recalls
  <1>4. Context(st.context)
    BY <1>1, <1>2, FoldHolds DEF FoldOK, Rebuilt
  <1>5. PICK p : p = IF st.open # 0 THEN Pending(st.context) ELSE <<>>
    OBVIOUS
  <1>6. Known(nx.context) = KnownAfter(Known(st.context), p, row)
    BY <1>1, <1>2, <1>4, <1>5, ReplayGist
  <1>7. Known(p) \subseteq Known(st.context)
    <2>1. Known(<<>>) = {}
      BY DEF Known
    <2> QED
      BY <1>4, <1>5, <2>1, PendingFacts
  <1>8. CASE row.kind = "compacted"
    <2>1. Known(nx.context) = row.covers \cup Known(p)
      BY <1>6, <1>8 DEF KnownAfter
    <2> QED
      BY <1>3, <1>7, <1>8, <2>1
  <1>9. CASE row.kind # "compacted"
    <2>1. row.kind = "user" => Known(nx.context) = Known(st.context) \cup {row.fact}
      BY <1>6 DEF KnownAfter
    <2>2. row.kind = "text" => Known(nx.context) = Known(st.context)
      BY <1>6 DEF KnownAfter
    <2>3. row.kind = "tool" =>
            Known(nx.context) = Known(st.context) \cup (IF row.out THEN {row.fact} ELSE {})
      BY <1>6 DEF KnownAfter
    <2> QED
      BY <1>3, <1>9, <2>1, <2>2, <2>3
  <1> QED
    BY <1>8, <1>9

(* A compaction right after the client's input keeps the input.            *)
LEMMA RecallsPending ==
    ASSUME NEW R \in Seq(Rows), NEW u \in Rows, NEW row \in Rows, NEW T,
           Timeline(Append(Append(R, u), row), T), u.kind = "user", row.kind = "compacted"
    PROVE  Recalls(Append(Append(R, u), row)) = row.covers \cup {u.fact}
  <1>0. PICK Q : Q = Append(R, u) /\ Q \in Seq(Rows)
    BY AppendFacts
  <1>1. Timeline(Q, T) /\ RowOK(row) /\ RowOK(u) /\ Timeline(R, T)
    BY <1>0, TimelineGrows
  <1>2. PICK st, m, nx : /\ st = Replayed(R, AllDone) /\ m = Replay(AllDone, st, u)
                         /\ nx = Replay(AllDone, m, row)
    OBVIOUS
  <1>3. Recalls(Append(Q, row)) = Known(nx.context)
    BY <1>0, <1>2, ReplayedSteps DEF Recalls
  <1>4. Context(st.context)
    BY <1>1, <1>2, FoldHolds DEF FoldOK, Rebuilt
  <1>5. PICK p : p = IF st.open # 0 THEN Pending(st.context) ELSE <<>>
    OBVIOUS
  <1>6. /\ Context(m.context) /\ Pending(m.context) = PendingAfter(p, u)
        /\ m.open = IF u.turn \notin {0, st.open} THEN u.turn ELSE st.open
    BY <1>1, <1>2, <1>4, <1>5, ReplayGist
  <1>7. m.open # 0
    <2>1. u.turn # 0
      BY <1>1 DEF RowOK
    <2> QED
      BY <1>6, <2>1
  <1>8. Pending(m.context) = <<User(u.fact)>>
    BY <1>6 DEF PendingAfter
  <1>9. Known(nx.context) = KnownAfter(Known(m.context), <<User(u.fact)>>, row)
    BY <1>1, <1>2, <1>6, <1>7, <1>8, ReplayGist
  <1>10. Known(<<User(u.fact)>>) = {u.fact}
    BY DEF Known, User
  <1> QED
    BY <1>0, <1>3, <1>9, <1>10 DEF KnownAfter

(* What restore_session (agent.rs) makes of any timeline, cut off anywhere *)
(* and whichever way its turns ended: the client's input is in the order   *)
(* of the turns, every call whose row has an output is answered before the *)
(* next message of the user, every turn that did not complete is followed  *)
(* by the note, and what is known is what the rows recall, which does not  *)
(* depend on how the turns ended.                                          *)
THEOREM RestoredOK ==
    ASSUME NEW ends, NEW T \in Nat, NEW R, Timeline(R, T)
    PROVE  LET c == Restored(R, ends) IN
           /\ Context(c) /\ InOrder(c) /\ Below(c, T + 1)
           /\ AllReplied(c, NoOut(R)) /\ Mentions(c, UpTo(T))
           /\ MarkedBelow(c, T + 1, Completed(ends))
           /\ Known(c) = Recalls(R)
  <1>1. PICK st : st = Replayed(R, ends)
    OBVIOUS
  <1>2. PICK c : c = Closed(st, ends)
    OBVIOUS
  <1>3. Restored(R, ends) = c
    BY <1>1, <1>2 DEF Restored
  <1>4. FoldOK(R, st, ends)
    BY <1>1, FoldHolds
  <1> DEFINE o == st.open
  <1>5. o \in Nat /\ o <= T
    <2>1. o \in Nat
      BY <1>4, ConversationAssumption DEF FoldOK
    <2>2. CASE o # 0
      <3>1. PICK i \in DOMAIN R : R[i].turn = o
        BY <1>4, <2>2 DEF FoldOK
      <3> QED
        BY <2>1, <3>1 DEF Timeline
    <2> QED
      BY <2>1, <2>2
  <1>6. /\ Rebuilt(R, c, o, ends) /\ MarkedBelow(c, o + 1, Completed(ends))
        /\ Known(c) = Known(st.context)
    BY <1>2, <1>4, ClosedKeeps DEF FoldOK, Rebuilt
  <1>7. Known(st.context) = Recalls(R)
    BY <1>1, GistHolds DEF SameGist, Recalls
  <1>8. Below(c, T + 1)
    BY <1>5, <1>6 DEF Rebuilt, Below, Turns
  <1>9. Mentions(c, UpTo(T))
    <2>1. UpTo(o) \subseteq UpTo(T)
      BY <1>5 DEF UpTo, Facts, Turns
    <2> QED
      BY <1>6, <2>1 DEF Rebuilt, Mentions
  <1>10. MarkedBelow(c, T + 1, Completed(ends))
    <2>1. \A i \in DOMAIN c : \A t \in Turns : UserOf(c[i], t) => t < o + 1
      BY <1>6 DEF Rebuilt, Below
    <2> QED
      BY <1>6, <2>1 DEF MarkedBelow
  <1> QED
    BY <1>3, <1>6, <1>7, <1>8, <1>9, <1>10 DEF Rebuilt

-----------------------------------------------------------------------------
(* What a turn stores.                                                     *)

(* Every event of turn t makes a proper row.                               *)
LEMMA NewRows ==
    ASSUME NEW t \in Turns
    PROVE  /\ Row("text", t, Prompt(t)) \in Rows /\ RowOK(Row("text", t, Prompt(t)))
           /\ Row("user", t, Prompt(t)) \in Rows /\ RowOK(Row("user", t, Prompt(t)))
           /\ Row("user", t, Steered(t)) \in Rows /\ RowOK(Row("user", t, Steered(t)))
           /\ \A f \in TurnFacts(t) :
                Row("tool", t, f) \in Rows /\ RowOK(Row("tool", t, f))
           /\ \A fs \in SUBSET Facts :
                /\ CompactedRow(t, fs) \in Rows /\ RowOK(CompactedRow(t, fs))
                /\ CompactedRow(t, fs).kind = "compacted" /\ CompactedRow(t, fs).turn = 0
                /\ CompactedRow(t, fs).covers = fs
  <1>1. Prompt(t) \in Facts /\ Steered(t) \in Facts /\ t \in 0..MaxTurns /\ t # 0 /\ 0 \in 0..MaxTurns
    BY MessageShapes, ConversationAssumption DEF Turns
  <1>2. \A k \in Kinds : \A f \in Facts : Row(k, t, f) \in Rows /\ Row(k, 0, f) \in Rows
    BY <1>1 DEF Row, Rows
  <1>3. Row("text", t, Prompt(t)) \in Rows /\ RowOK(Row("text", t, Prompt(t)))
    BY <1>1, <1>2 DEF Row, RowOK, Kinds
  <1>4. Row("user", t, Prompt(t)) \in Rows /\ RowOK(Row("user", t, Prompt(t)))
    BY <1>1, <1>2 DEF Row, RowOK, Kinds
  <1>5. Row("user", t, Steered(t)) \in Rows /\ RowOK(Row("user", t, Steered(t)))
    BY <1>1, <1>2 DEF Row, RowOK, Kinds
  <1>6. \A f \in TurnFacts(t) : Row("tool", t, f) \in Rows /\ RowOK(Row("tool", t, f))
    BY <1>1, <1>2 DEF Row, RowOK, Kinds, TurnFacts
  <1>7. ASSUME NEW fs \in SUBSET Facts
        PROVE  /\ CompactedRow(t, fs) \in Rows /\ RowOK(CompactedRow(t, fs))
               /\ CompactedRow(t, fs).kind = "compacted" /\ CompactedRow(t, fs).turn = 0
               /\ CompactedRow(t, fs).covers = fs
    <2>1. PICK r : r = Row("compacted", 0, Prompt(t))
      OBVIOUS
    <2>2. r \in Rows /\ r.kind = "compacted" /\ r.turn = 0
      BY <1>1, <1>2, <2>1 DEF Row, Kinds
    <2>3. CompactedRow(t, fs) = [r EXCEPT !.covers = fs]
      BY <2>1 DEF CompactedRow
    <2>4. PICK q : q = [r EXCEPT !.covers = fs]
      OBVIOUS
    <2>5. q \in Rows /\ q.kind = "compacted" /\ q.turn = 0 /\ q.covers = fs
      BY <2>2, <2>4 DEF Rows
    <2> QED
      BY <2>3, <2>4, <2>5 DEF RowOK
  <1> QED
    BY <1>3, <1>4, <1>5, <1>6, <1>7

LEMMA TimelineAppend ==
    ASSUME NEW t \in Turns, NEW R, Timeline(R, t), NEW row \in Rows, RowOK(row),
           row.turn \in {0, t}
    PROVE  Timeline(Append(R, row), t)
  <1>1. PICK Q : Q = Append(R, row)
    OBVIOUS
  <1>2. R \in Seq(Rows)
    BY DEF Timeline
  <1>3. PICK n \in Nat :
           /\ n = Len(R) /\ DOMAIN R = 1..n /\ DOMAIN Q = 1..(n + 1)
           /\ \A i \in 1..n : Q[i] = R[i]
           /\ Q[n + 1] = row /\ Q \in Seq(Rows)
    BY <1>1, <1>2, AppendFacts
  <1>4. t \in Nat /\ 0 <= t
    BY DEF Turns
  <1>5. \A i \in 1..(n + 1) : i \in 1..n \/ i = n + 1
    OBVIOUS
  <1>6. \A i \in DOMAIN Q : RowOK(Q[i]) /\ Q[i].turn <= t
    BY <1>3, <1>4, <1>5 DEF Timeline
  <1>7. Ordered(Q)
    <2>1. SUFFICES ASSUME NEW i \in 1..(n + 1), NEW j \in 1..(n + 1), i < j,
                          Q[i].turn # 0, Q[j].turn # 0
                   PROVE  Q[i].turn <= Q[j].turn
      BY <1>3 DEF Ordered
    <2>2. i \in 1..n
      BY <2>1
    <2>3. CASE j \in 1..n
      BY <1>3, <2>1, <2>2, <2>3 DEF Timeline, Ordered
    <2>4. CASE j = n + 1
      BY <1>3, <1>6, <2>1, <2>2, <2>4
    <2> QED
      BY <1>5, <2>3, <2>4
  <1> QED
    BY <1>1, <1>3, <1>6, <1>7 DEF Timeline

(* One more row of turn t.                                                 *)
ToolRow(r) == IF r.kind = "tool" THEN {r.fact} ELSE {}

(* What appending a row does to the timeline and its tools.                *)
LEMMA StoreRow ==
    ASSUME NEW t \in Turns, NEW R, Timeline(R, t), NEW row \in Rows, RowOK(row),
           row.turn \in {0, t}
    PROVE  /\ R \in Seq(Rows) /\ Timeline(Append(R, row), t)
           /\ NoOut(Append(R, row)) = NoOut(R) \cup (IF row.kind = "tool" /\ ~row.out
                                                     THEN {row.fact} ELSE {})
           /\ ToolFacts(Append(R, row)) = ToolFacts(R) \cup ToolRow(row)
           /\ Append(R, row) # <<>>
           /\ Last(Append(R, row)) = row /\ Front(Append(R, row)) = R
  <1>1. R \in Seq(Rows)
    BY DEF Timeline
  <1>2. Timeline(Append(R, row), t)
    BY TimelineAppend
  <1>3. NoOut(Append(R, row)) = NoOut(R) \cup (IF row.kind = "tool" /\ ~row.out
                                               THEN {row.fact} ELSE {})
    BY <1>1, <1>2, TimelineGrows
  <1>4. PICK Q : Q = Append(R, row)
    OBVIOUS
  <1>5. PICK n \in Nat :
           /\ n = Len(R) /\ DOMAIN R = 1..n /\ DOMAIN Q = 1..(n + 1)
           /\ \A i \in 1..n : Q[i] = R[i]
           /\ Q[n + 1] = row /\ Q \in Seq(Rows) /\ Q # <<>> /\ Len(Q) = n + 1
    BY <1>1, <1>4, AppendFacts
  <1>6. ToolFacts(Q) = ToolFacts(R) \cup ToolRow(row)
    <2>1. \A i \in 1..n : i \in 1..(n + 1)
      OBVIOUS
    <2>2. n + 1 \in 1..(n + 1) /\ \A i \in 1..(n + 1) : i \in 1..n \/ i = n + 1
      OBVIOUS
    <2> QED
      BY <1>5, <2>1, <2>2 DEF ToolFacts, ToolRow
  <1>7. Last(Q) = row
    BY <1>5 DEF Last
  <1>8. Front(Q) = R
    BY <1>1, <1>4, <1>5 DEF Front
  <1> QED
    BY <1>1, <1>2, <1>3, <1>4, <1>5, <1>6, <1>7, <1>8

(* The same timeline stands with what the row adds of turn t ...           *)
LEMMA StandsRow ==
    ASSUME NEW t \in Turns, NEW R, NEW known, NEW X, NEW no, Stands(R, t, known, X, no),
           TurnFacts(t) \subseteq X, NEW row \in Rows, RowOK(row), row.turn = t
    PROVE  Stands(Append(R, row), t, known, X, no)
  <1>1. Timeline(R, t) /\ R \in Seq(Rows)
    BY DEF Stands, Timeline
  <1>2. PICK Q : Q = Append(R, row)
    OBVIOUS
  <1>3. Timeline(Q, t)
    BY <1>1, <1>2, TimelineAppend
  <1>4. NoOut(Q) = NoOut(R) \cup (IF row.kind = "tool" /\ ~row.out THEN {row.fact} ELSE {})
    BY <1>1, <1>2, StoreRow
  <1>5. t # 0 /\ t \in Nat
    BY DEF Turns
  <1>6. row.kind \in {"user", "text", "tool"} /\ row.fact \in Facts
    BY <1>5 DEF RowOK, Rows, Kinds
  <1>7. row.kind # "text" => row.fact \in TurnFacts(t)
    BY <1>6 DEF RowOK, TurnFacts, Prompt, Steered
  <1>8. Recalls(Q) \in {Recalls(R), Recalls(R) \cup {row.fact}}
        /\ (row.kind = "text" => Recalls(Q) = Recalls(R))
    <2>1. /\ row.kind = "user" => Recalls(Q) = Recalls(R) \cup {row.fact}
          /\ row.kind = "text" => Recalls(Q) = Recalls(R)
          /\ row.kind = "tool" =>
               Recalls(Q) = Recalls(R) \cup (IF row.out THEN {row.fact} ELSE {})
      BY <1>1, <1>2, <1>3, RecallsSteps
    <2> QED
      BY <1>6, <2>1
  <1>9. NoOut(Q) \ TurnFacts(t) = no \ TurnFacts(t)
    BY <1>4, <1>7 DEF Stands
  <1>10. Recalls(Q) \ X = known \ X
    BY <1>6, <1>7, <1>8 DEF Stands
  <1> QED
    BY <1>2, <1>3, <1>9, <1>10 DEF Stands

(* ... and with a compaction that covers what is known outside X.          *)
LEMMA StandsCompaction ==
    ASSUME NEW t \in Turns, NEW R, NEW known, NEW X, NEW no, Stands(R, t, known, X, no),
           NEW fs \in SUBSET Facts, fs \ X = known \ X
    PROVE  Stands(Append(R, CompactedRow(t, fs)), t, known, X, no)
  <1>1. Timeline(R, t) /\ R \in Seq(Rows)
    BY DEF Stands, Timeline
  <1>2. PICK row : row = CompactedRow(t, fs)
    OBVIOUS
  <1>3. row \in Rows /\ RowOK(row) /\ row.kind = "compacted" /\ row.turn = 0 /\ row.covers = fs
    BY <1>2, NewRows
  <1>4. PICK Q : Q = Append(R, row)
    OBVIOUS
  <1>5. Timeline(Q, t)
    BY <1>1, <1>3, <1>4, TimelineAppend
  <1>6. NoOut(Q) = NoOut(R) \cup (IF row.kind = "tool" /\ ~row.out THEN {row.fact} ELSE {})
    BY <1>1, <1>3, <1>4, StoreRow
  <1>7. fs \subseteq Recalls(Q) /\ Recalls(Q) \subseteq fs \cup Recalls(R)
    BY <1>1, <1>3, <1>4, <1>5, RecallsSteps
  <1>8. NoOut(Q) \ TurnFacts(t) = no \ TurnFacts(t)
    BY <1>3, <1>6 DEF Stands
  <1>9. Recalls(Q) \ X = known \ X
    BY <1>7 DEF Stands
  <1> QED
    BY <1>2, <1>4, <1>5, <1>8, <1>9 DEF Stands

(* The output of a call joins its row, the last.                           *)
OutputRow(t, f, o) ==
    [Row("tool", t, f) EXCEPT !.out = (o # "empty"), !.image = (o = "image")]

LEMMA OutputRowIs ==
    ASSUME NEW t \in Turns, NEW f \in TurnFacts(t), NEW o \in Outs
    PROVE  /\ OutputRow(t, f, o) \in Rows /\ RowOK(OutputRow(t, f, o))
           /\ OutputRow(t, f, o).kind = "tool" /\ OutputRow(t, f, o).turn = t
           /\ OutputRow(t, f, o).fact = f /\ OutputRow(t, f, o).out = (o # "empty")
  <1>1. PICK r : r = Row("tool", t, f)
    OBVIOUS
  <1>2. r \in Rows /\ r.kind = "tool" /\ r.turn = t /\ r.fact = f /\ RowOK(r)
    BY <1>1, NewRows DEF Row
  <1>3. PICK a, b \in BOOLEAN : a = (o # "empty") /\ b = (o = "image")
    OBVIOUS
  <1>4. PICK q : q = [r EXCEPT !.out = a, !.image = b]
    OBVIOUS
  <1>5. OutputRow(t, f, o) = q
    BY <1>1, <1>3, <1>4 DEF OutputRow
  <1>6. q \in Rows /\ q.kind = "tool" /\ q.turn = t /\ q.fact = f /\ q.out = a
    BY ONLY <1>2, <1>3, <1>4 DEF Rows
  <1>7. RowOK(q)
    BY <1>2, <1>6 DEF RowOK
  <1> QED
    BY <1>3, <1>5, <1>6, <1>7

(* The output joins the row of its call, which is the last.                *)
LEMMA OutputJoins ==
    ASSUME NEW t \in Turns, NEW R, Timeline(R, t), NEW f \in TurnFacts(t), NEW o \in Outs,
           R # <<>>, Last(R) = Row("tool", t, f), f \notin ToolFacts(Front(R))
    PROVE  /\ Timeline(Front(R), t)
           /\ R = Append(Front(R), Row("tool", t, f))
           /\ Store(R, t, Output(f, o)) = Append(Front(R), OutputRow(t, f, o))
  <1>1. R \in Seq(Rows)
    BY DEF Timeline
  <1>2. PICK S : S = SubSeq(R, 1, Len(R) - 1)
    OBVIOUS
  <1>3. Front(R) = S
    BY <1>2 DEF Front
  <1>4. S \in Seq(Rows) /\ R = Append(S, Row("tool", t, f))
    BY <1>1, <1>2, LastOf DEF Last
  <1>5. PICK row : row = Row("tool", t, f)
    OBVIOUS
  <1>6. row \in Rows /\ row.kind = "tool" /\ row.fact = f
    BY <1>5, NewRows DEF Row
  <1>7. Timeline(S, t)
    BY <1>4, <1>5, <1>6, TimelineGrows
  <1>8. PICK n \in Nat :
           /\ n = Len(S) /\ DOMAIN S = 1..n /\ DOMAIN R = 1..(n + 1)
           /\ \A i \in 1..n : R[i] = S[i]
           /\ R[n + 1] = row
    BY <1>4, <1>5, <1>6, AppendFacts
  <1>9. PICK q : q = OutputRow(t, f, o)
    OBVIOUS
  <1>10. q \in Rows
    BY <1>9, OutputRowIs
  <1>11. PICK Q : Q = Append(S, q)
    OBVIOUS
  <1>12. /\ DOMAIN Q = 1..(n + 1) /\ \A i \in 1..n : Q[i] = S[i]
         /\ Q[n + 1] = q /\ Q \in Seq(Rows) /\ Len(Q) = n + 1
    BY <1>4, <1>8, <1>10, <1>11, AppendFacts
  <1>13. PICK W : W = Store(R, t, Output(f, o))
    OBVIOUS
  <1>14. W = [i \in DOMAIN R |-> IF R[i].kind = "tool" /\ R[i].fact = f
                THEN [R[i] EXCEPT !.out = (o # "empty"), !.image = (o = "image")] ELSE R[i]]
    BY <1>13 DEF Store, Output
  <1>15. \A i \in 1..n : ~(R[i].kind = "tool" /\ R[i].fact = f)
    BY <1>3, <1>8 DEF ToolFacts
  <1>16. \A i \in 1..(n + 1) : i \in 1..n \/ i = n + 1
    OBVIOUS
  <1>17. \A i \in 1..(n + 1) : W[i] = Q[i]
    <2>1. ASSUME NEW i \in 1..n PROVE W[i] = Q[i]
      <3>1. i \in 1..(n + 1)
        OBVIOUS
      <3> QED
        BY <1>8, <1>12, <1>14, <1>15, <3>1
    <2>2. W[n + 1] = Q[n + 1]
      <3>1. n + 1 \in 1..(n + 1)
        OBVIOUS
      <3>2. W[n + 1] = [row EXCEPT !.out = (o # "empty"), !.image = (o = "image")]
        BY <1>6, <1>8, <1>14, <3>1
      <3> QED
        BY <1>5, <1>9, <1>12, <3>2 DEF OutputRow
    <2> QED
      BY <1>16, <2>1, <2>2
  <1>18. W = Q
    <2>1. W = [i \in 1..(n + 1) |-> W[i]]
      BY <1>8, <1>14
    <2>2. Q = [i \in 1..(n + 1) |-> Q[i]]
      BY <1>12
    <2> QED
      BY <1>17, <2>1, <2>2
  <1> QED
    BY <1>3, <1>4, <1>5, <1>7, <1>9, <1>11, <1>13, <1>18

(* What the events of turn t do to a timeline that stands ...              *)
LEMMA StoreIs ==
    ASSUME NEW t, NEW R
    PROVE  /\ Store(R, t, TextSent) = Append(R, Row("text", t, Prompt(t)))
           /\ Store(R, t, SteeringApplied) = Append(R, Row("user", t, Steered(t)))
           /\ \A f : Store(R, t, Proposed(f)) = Append(R, Row("tool", t, f))
           /\ \A fs : Store(R, t, Compacted(fs)) = Append(R, CompactedRow(t, fs))
  BY DEF Store, TextSent, SteeringApplied, Proposed, Compacted

(* An event of the running turn adds nothing about earlier ones.           *)
LEMMA StandsStore ==
    ASSUME NEW t \in Turns, NEW R, NEW known, NEW X, NEW no, Stands(R, t, known, X, no),
           TurnFacts(t) \subseteq X
    PROVE  /\ Stands(Store(R, t, TextSent), t, known, X, no)
           /\ Stands(Store(R, t, SteeringApplied), t, known, X, no)
           /\ \A f \in TurnFacts(t) : Stands(Store(R, t, Proposed(f)), t, known, X, no)
           /\ \A fs \in SUBSET Facts : fs \ X = known \ X =>
                Stands(Store(R, t, Compacted(fs)), t, known, X, no)
  <1>1. \A row : row \in Rows /\ RowOK(row) /\ row.turn = t =>
                   Stands(Append(R, row), t, known, X, no)
    BY StandsRow
  <1>2. Row("text", t, Prompt(t)).turn = t /\ Row("user", t, Steered(t)).turn = t
        /\ \A f : Row("tool", t, f).turn = t
    BY DEF Row
  <1>3. Stands(Append(R, Row("text", t, Prompt(t))), t, known, X, no)
    BY <1>1, <1>2, NewRows
  <1>4. Stands(Append(R, Row("user", t, Steered(t))), t, known, X, no)
    BY <1>1, <1>2, NewRows
  <1>5. \A f \in TurnFacts(t) : Stands(Append(R, Row("tool", t, f)), t, known, X, no)
    BY <1>1, <1>2, NewRows
  <1>6. \A fs \in SUBSET Facts : fs \ X = known \ X =>
          Stands(Append(R, CompactedRow(t, fs)), t, known, X, no)
    BY StandsCompaction
  <1> QED
    BY <1>3, <1>4, <1>5, <1>6, StoreIs

LEMMA StandsOutput ==
    ASSUME NEW t \in Turns, NEW R, NEW known, NEW X, NEW no, Stands(R, t, known, X, no),
           TurnFacts(t) \subseteq X, NEW f \in TurnFacts(t), NEW o \in Outs,
           R # <<>>, Last(R) = Row("tool", t, f), f \notin ToolFacts(Front(R))
    PROVE  Stands(Store(R, t, Output(f, o)), t, known, X, no)
  <1>1. Timeline(R, t)
    BY DEF Stands
  <1>2. PICK S : S = Front(R)
    OBVIOUS
  <1>3. /\ Timeline(S, t) /\ R = Append(S, Row("tool", t, f))
        /\ Store(R, t, Output(f, o)) = Append(S, OutputRow(t, f, o))
    BY <1>1, <1>2, OutputJoins
  <1>4. PICK row : row = Row("tool", t, f)
    OBVIOUS
  <1>5. /\ row \in Rows /\ RowOK(row) /\ row.kind = "tool" /\ row.turn = t
        /\ row.fact = f /\ ~row.out
    BY <1>4, NewRows DEF Row
  <1>6. S \in Seq(Rows)
    BY <1>3 DEF Timeline
  <1>7. NoOut(R) = NoOut(S) \cup {f}
    BY <1>3, <1>4, <1>5, StoreRow
  <1>8. Recalls(R) = Recalls(S)
    <2>1. Timeline(Append(S, row), t)
      BY <1>1, <1>3, <1>4
    <2>2. Recalls(Append(S, row)) = Recalls(S) \cup (IF row.out THEN {row.fact} ELSE {})
      BY <1>5, <1>6, <2>1, RecallsSteps
    <2> QED
      BY <1>3, <1>4, <1>5, <2>2
  <1>9. Stands(S, t, known, X, no)
    BY <1>3, <1>7, <1>8 DEF Stands
  <1>10. PICK q : q = OutputRow(t, f, o)
    OBVIOUS
  <1>11. q \in Rows /\ RowOK(q) /\ q.turn = t
    BY <1>10, OutputRowIs
  <1>12. Stands(Append(S, q), t, known, X, no)
    BY <1>9, <1>11, StandsRow
  <1> QED
    BY <1>3, <1>10, <1>12

(* ... and to one that agrees with what is known.                          *)
LEMMA StoreOther ==
    ASSUME NEW t \in Turns, NEW R, Timeline(R, t), NEW row \in Rows, RowOK(row),
           row.turn \in {0, t}, row.kind # "tool"
    PROVE  /\ Timeline(Append(R, row), t)
           /\ NoOut(Append(R, row)) = NoOut(R) /\ ToolFacts(Append(R, row)) = ToolFacts(R)
  <1>1. /\ Timeline(Append(R, row), t)
        /\ NoOut(Append(R, row)) = NoOut(R) \cup (IF row.kind = "tool" /\ ~row.out
                                                  THEN {row.fact} ELSE {})
        /\ ToolFacts(Append(R, row)) = ToolFacts(R) \cup ToolRow(row)
    BY StoreRow
  <1>2. ToolRow(row) = {}
    BY DEF ToolRow
  <1> QED
    BY <1>1, <1>2

(* Storing an event adds to the timeline what the copy learned from it.    *)
LEMMA AgreesStore ==
    ASSUME NEW t \in Turns, NEW R, Timeline(R, t), NEW known, NEW lost, Agrees(known, R, lost)
    PROVE  /\ Timeline(Store(R, t, TextSent), t)
           /\ Agrees(known, Store(R, t, TextSent), lost)
           /\ ToolFacts(Store(R, t, TextSent)) = ToolFacts(R)
           /\ Timeline(Store(R, t, SteeringApplied), t)
           /\ Agrees(known \cup {Steered(t)}, Store(R, t, SteeringApplied), lost)
           /\ ToolFacts(Store(R, t, SteeringApplied)) = ToolFacts(R)
  <1>1. R \in Seq(Rows)
    BY DEF Timeline
  <1>2. PICK a, b : a = Row("text", t, Prompt(t)) /\ b = Row("user", t, Steered(t))
    OBVIOUS
  <1>3. /\ a \in Rows /\ RowOK(a) /\ a.kind = "text" /\ a.turn = t
        /\ b \in Rows /\ RowOK(b) /\ b.kind = "user" /\ b.turn = t /\ b.fact = Steered(t)
    BY <1>2, NewRows DEF Row
  <1>4. PICK A, B : A = Append(R, a) /\ B = Append(R, b)
    OBVIOUS
  <1>5. /\ Timeline(A, t) /\ NoOut(A) = NoOut(R) /\ ToolFacts(A) = ToolFacts(R)
        /\ Timeline(B, t) /\ NoOut(B) = NoOut(R) /\ ToolFacts(B) = ToolFacts(R)
    <2>1. Timeline(A, t) /\ NoOut(A) = NoOut(R) /\ ToolFacts(A) = ToolFacts(R)
      BY <1>3, <1>4, StoreOther
    <2>2. Timeline(B, t) /\ NoOut(B) = NoOut(R) /\ ToolFacts(B) = ToolFacts(R)
      BY <1>3, <1>4, StoreOther
    <2> QED
      BY <2>1, <2>2
  <1>6. Recalls(A) = Recalls(R)
    BY <1>1, <1>3, <1>4, <1>5, RecallsSteps
  <1>7. Recalls(B) = Recalls(R) \cup {Steered(t)}
    BY <1>1, <1>3, <1>4, <1>5, RecallsSteps
  <1>8. Agrees(known, A, lost) /\ Agrees(known \cup {Steered(t)}, B, lost)
    BY <1>5, <1>6, <1>7 DEF Agrees
  <1>9. Store(R, t, TextSent) = A /\ Store(R, t, SteeringApplied) = B
    BY <1>2, <1>4, StoreIs
  <1> QED
    BY <1>5, <1>8, <1>9

LEMMA AgreesProposed ==
    ASSUME NEW t \in Turns, NEW R, Timeline(R, t), NEW known, NEW lost, Agrees(known, R, lost),
           NEW f \in TurnFacts(t)
    PROVE  LET Q == Store(R, t, Proposed(f)) IN
           /\ Timeline(Q, t) /\ Agrees(known, Q, lost)
           /\ ToolFacts(Q) = ToolFacts(R) \cup {f}
           /\ Q # <<>> /\ Last(Q) = Row("tool", t, f) /\ Front(Q) = R
  <1>1. R \in Seq(Rows)
    BY DEF Timeline
  <1>2. PICK a : a = Row("tool", t, f)
    OBVIOUS
  <1>3. a \in Rows /\ RowOK(a) /\ a.kind = "tool" /\ a.turn = t /\ a.fact = f /\ ~a.out
    BY <1>2, NewRows DEF Row
  <1>4. PICK Q : Q = Append(R, a)
    OBVIOUS
  <1>5. /\ Timeline(Q, t) /\ NoOut(Q) = NoOut(R) \cup {f} /\ ToolFacts(Q) = ToolFacts(R) \cup {f}
        /\ Q # <<>> /\ Last(Q) = a /\ Front(Q) = R
    BY <1>3, <1>4, StoreRow DEF ToolRow
  <1>6. Recalls(Q) = Recalls(R)
    <2>1. Recalls(Q) = Recalls(R) \cup (IF a.out THEN {a.fact} ELSE {})
      BY <1>1, <1>3, <1>4, <1>5, RecallsSteps
    <2> QED
      BY <1>3, <2>1
  <1>7. Agrees(known, Q, lost)
    BY <1>5, <1>6 DEF Agrees
  <1>8. Store(R, t, Proposed(f)) = Q
    BY <1>2, <1>4, StoreIs
  <1> QED
    BY <1>2, <1>5, <1>7, <1>8

LEMMA OutputTools ==
    ASSUME NEW t \in Turns, NEW R, Timeline(R, t), NEW f \in TurnFacts(t), NEW o \in Outs,
           R # <<>>, Last(R) = Row("tool", t, f), f \notin ToolFacts(Front(R))
    PROVE  LET Q == Store(R, t, Output(f, o)) IN
           ToolFacts(Q) = ToolFacts(Front(R)) \cup {f} /\ ToolFacts(Q) = ToolFacts(R)
  <1>1. PICK S : S = Front(R)
    OBVIOUS
  <1>2. /\ Timeline(S, t) /\ R = Append(S, Row("tool", t, f))
        /\ Store(R, t, Output(f, o)) = Append(S, OutputRow(t, f, o))
    BY <1>1, OutputJoins
  <1>3. PICK a, q : a = Row("tool", t, f) /\ q = OutputRow(t, f, o)
    OBVIOUS
  <1>4. a \in Rows /\ RowOK(a) /\ a.kind = "tool" /\ a.turn = t /\ a.fact = f
    BY <1>3, NewRows DEF Row
  <1>5. q \in Rows /\ RowOK(q) /\ q.kind = "tool" /\ q.turn = t /\ q.fact = f
    BY <1>3, OutputRowIs
  <1>6. ToolFacts(Append(S, a)) = ToolFacts(S) \cup {f}
    BY <1>2, <1>4, StoreRow DEF ToolRow
  <1>7. ToolFacts(Append(S, q)) = ToolFacts(S) \cup {f}
    BY <1>2, <1>5, StoreRow DEF ToolRow
  <1> QED
    BY <1>1, <1>2, <1>3, <1>6, <1>7

LEMMA AgreesOutput ==
    ASSUME NEW t \in Turns, NEW R, Timeline(R, t), NEW known, NEW lost, Agrees(known, R, lost),
           NEW f \in TurnFacts(t), NEW o \in Outs,
           R # <<>>, Last(R) = Row("tool", t, f), f \notin ToolFacts(Front(R))
    PROVE  LET Q == Store(R, t, Output(f, o)) IN
           Timeline(Q, t) /\ Agrees(known \cup {f}, Q, lost)
  <1>1. PICK S : S = Front(R)
    OBVIOUS
  <1>2. /\ Timeline(S, t) /\ R = Append(S, Row("tool", t, f))
        /\ Store(R, t, Output(f, o)) = Append(S, OutputRow(t, f, o))
    BY <1>1, OutputJoins
  <1>3. S \in Seq(Rows)
    BY <1>2 DEF Timeline
  <1>4. PICK a, q : a = Row("tool", t, f) /\ q = OutputRow(t, f, o)
    OBVIOUS
  <1>5. a \in Rows /\ RowOK(a) /\ a.kind = "tool" /\ a.turn = t /\ a.fact = f /\ ~a.out
    BY <1>4, NewRows DEF Row
  <1>6. /\ q \in Rows /\ RowOK(q) /\ q.kind = "tool" /\ q.turn = t /\ q.fact = f
        /\ q.out = (o # "empty")
    BY <1>4, OutputRowIs
  <1>7. PICK Q : Q = Append(S, q)
    OBVIOUS
  <1>8. Timeline(Q, t) /\ NoOut(Q) = NoOut(S) \cup (IF ~q.out THEN {f} ELSE {})
    BY <1>2, <1>6, <1>7, StoreRow
  <1>9. NoOut(R) = NoOut(S) \cup {f}
    BY <1>2, <1>4, <1>5, StoreRow
  <1>10. Recalls(R) = Recalls(S)
    <2>1. Recalls(R) = Recalls(S) \cup (IF a.out THEN {a.fact} ELSE {})
      BY <1>2, <1>3, <1>4, <1>5, RecallsSteps
    <2> QED
      BY <1>5, <2>1
  <1>11. Recalls(Q) = Recalls(S) \cup (IF q.out THEN {f} ELSE {})
    BY <1>3, <1>6, <1>7, <1>8, RecallsSteps
  <1>12. Agrees(known \cup {f}, Q, lost)
    <2>1. CASE q.out
      BY <1>8, <1>9, <1>10, <1>11, <2>1 DEF Agrees
    <2>2. CASE ~q.out
      BY <1>8, <1>9, <1>10, <1>11, <2>2 DEF Agrees
    <2> QED
      BY <2>1, <2>2
  <1> QED
    BY <1>2, <1>4, <1>7, <1>8, <1>12

(* A summary leaves what is known as it is.                                *)
LEMMA AgreesCompacted ==
    ASSUME NEW t \in Turns, NEW R, Timeline(R, t), NEW fs \in SUBSET Facts, NEW lost,
           Agrees(fs, R, lost)
    PROVE  LET Q == Store(R, t, Compacted(fs)) IN
           Timeline(Q, t) /\ Agrees(fs, Q, lost) /\ ToolFacts(Q) = ToolFacts(R)
  <1>1. R \in Seq(Rows)
    BY DEF Timeline
  <1>2. PICK a : a = CompactedRow(t, fs)
    OBVIOUS
  <1>3. a \in Rows /\ RowOK(a) /\ a.kind = "compacted" /\ a.turn = 0 /\ a.covers = fs
    BY <1>2, NewRows
  <1>4. PICK Q : Q = Append(R, a)
    OBVIOUS
  <1>5. Timeline(Q, t) /\ NoOut(Q) = NoOut(R) /\ ToolFacts(Q) = ToolFacts(R)
    BY <1>3, <1>4, StoreOther
  <1>6. fs \subseteq Recalls(Q) /\ Recalls(Q) \subseteq fs \cup Recalls(R)
    BY <1>1, <1>3, <1>4, <1>5, RecallsSteps
  <1>7. Agrees(fs, Q, lost)
    BY <1>5, <1>6 DEF Agrees
  <1>8. Store(R, t, Compacted(fs)) = Q
    BY <1>2, <1>4, StoreIs
  <1> QED
    BY <1>5, <1>7, <1>8

(* A compaction right after the prompt of the turn, whose summary does not *)
(* cover it.                                                               *)
LEMMA AgreesSetup ==
    ASSUME NEW t \in Turns, NEW R, Timeline(R, t), NEW fs \in SUBSET Facts, NEW lost,
           R # <<>>, Last(R) = Row("user", t, Prompt(t))
    PROVE  LET Q == Store(R, t, Compacted(fs)) IN
           /\ Timeline(Q, t) /\ Agrees(fs \cup {Prompt(t)}, Q, lost)
           /\ ToolFacts(Q) = ToolFacts(R)
  <1>1. R \in Seq(Rows)
    BY DEF Timeline
  <1>2. PICK S, u, a : /\ S = SubSeq(R, 1, Len(R) - 1) /\ u = Row("user", t, Prompt(t))
                       /\ a = CompactedRow(t, fs)
    OBVIOUS
  <1>3. u \in Rows /\ u.kind = "user" /\ u.fact = Prompt(t)
    BY <1>2, NewRows DEF Row
  <1>4. S \in Seq(Rows) /\ R = Append(S, u)
    BY <1>1, <1>2, LastOf DEF Last
  <1>5. a \in Rows /\ RowOK(a) /\ a.kind = "compacted" /\ a.turn = 0 /\ a.covers = fs
    BY <1>2, NewRows
  <1>6. PICK Q : Q = Append(R, a)
    OBVIOUS
  <1>7. Timeline(Q, t) /\ ToolFacts(Q) = ToolFacts(R)
    BY <1>5, <1>6, StoreOther
  <1>8. Recalls(Q) = fs \cup {Prompt(t)}
    BY <1>3, <1>4, <1>5, <1>6, <1>7, RecallsPending
  <1>9. Agrees(fs \cup {Prompt(t)}, Q, lost)
    BY <1>8 DEF Agrees
  <1>10. Store(R, t, Compacted(fs)) = Q
    BY <1>2, <1>6, StoreIs
  <1> QED
    BY <1>7, <1>9, <1>10

-----------------------------------------------------------------------------
(* The events that wait to be stored.                                      *)

(* One more event adds one timeline that a death may leave.                *)
LEMMA TimelinesGrow ==
    ASSUME NEW rs, NEW t, NEW E, NEW c \in Seq(E)
    PROVE  /\ StoredAfter(rs, t, c) \in TimelinesOf(rs, t, c)
           /\ rs \in TimelinesOf(rs, t, c)
           /\ c = <<>> => TimelinesOf(rs, t, c) = {rs} /\ StoredAfter(rs, t, c) = rs
           /\ \A e \in E :
                /\ StoredAfter(rs, t, Append(c, e)) = Store(StoredAfter(rs, t, c), t, e)
                /\ TimelinesOf(rs, t, Append(c, e)) \subseteq
                     TimelinesOf(rs, t, c) \cup {Store(StoredAfter(rs, t, c), t, e)}
  <1>1. Len(c) \in Nat /\ Len(c) \in 0..Len(c) /\ 0 \in 0..Len(c)
    OBVIOUS
  <1>2. SubSeq(c, 1, Len(c)) = c /\ SubSeq(c, 1, 0) = <<>>
    OBVIOUS
  <1>3. StoredAfter(rs, t, <<>>) = rs
        /\ \A e \in E : StoredAfter(rs, t, Append(c, e)) = Store(StoredAfter(rs, t, c), t, e)
    BY StoredSteps
  <1>4. StoredAfter(rs, t, c) \in TimelinesOf(rs, t, c) /\ rs \in TimelinesOf(rs, t, c)
    BY <1>1, <1>2, <1>3 DEF TimelinesOf
  <1>5. ASSUME c = <<>> PROVE TimelinesOf(rs, t, c) = {rs} /\ StoredAfter(rs, t, c) = rs
    <2>1. 0..Len(c) = {0}
      BY <1>5
    <2>2. \A n \in 0..Len(c) : SubSeq(c, 1, n) = <<>>
      BY <1>2, <2>1
    <2> QED
      BY <1>3, <1>4, <1>5, <2>2 DEF TimelinesOf
  <1>6. ASSUME NEW e \in E, NEW R \in TimelinesOf(rs, t, Append(c, e))
        PROVE  R \in TimelinesOf(rs, t, c) \cup {Store(StoredAfter(rs, t, c), t, e)}
    <2>1. PICK m : m = Append(c, e)
      OBVIOUS
    <2>2. Len(m) = Len(c) + 1 /\ m \in Seq(E)
      BY <2>1
    <2>3. PICK n \in 0..Len(m) : R = StoredAfter(rs, t, SubSeq(m, 1, n))
      BY <2>1 DEF TimelinesOf
    <2>4. CASE n = Len(m)
      <3>1. SubSeq(m, 1, n) = m
        BY <2>2, <2>4
      <3> QED
        BY <1>3, <2>1, <2>3, <3>1
    <2>5. CASE n # Len(m)
      <3>1. n \in 0..Len(c)
        BY <1>1, <2>2, <2>5
      <3>2. SubSeq(m, 1, n) = SubSeq(c, 1, n)
        BY <2>1, <3>1
      <3> QED
        BY <2>3, <3>1, <3>2 DEF TimelinesOf
    <2> QED
      BY <2>4, <2>5
  <1> QED
    BY <1>3, <1>4, <1>5, <1>6

LEMMA JoinOne ==
    ASSUME NEW E, NEW c \in Seq(E), NEW a \in E, NEW b \in E
    PROVE  /\ c \o <<a>> = Append(c, a) /\ c \o <<>> = c
           /\ c \o (<<>> \o <<a>>) = Append(c, a)
           /\ c \o (<<a>> \o <<b>>) = Append(Append(c, a), b)
           /\ Append(c, a) \in Seq(E) /\ Append(Append(c, a), b) \in Seq(E)
  OBVIOUS

LEMMA EventTypes ==
    /\ TextSent \in Events /\ SteeringApplied \in Events
    /\ \A f \in Facts : Proposed(f) \in Events /\ \A o \in Outs : Output(f, o) \in Events
    /\ \A fs \in SUBSET Facts : Compacted(fs) \in Events
  BY DEF Events

(* How the timelines grow when no event, one or two are sent.              *)
LEMMA SendsNone ==
    ASSUME UNCHANGED <<channel, rows, turn>>
    PROVE  Timelines' = Timelines /\ Final' = Final
  BY DEF Timelines, Final, TimelinesOf, Stored

LEMMA SendsOne ==
    ASSUME channel \in Seq(Events), UNCHANGED <<rows, turn>>, NEW e \in Events,
           channel' = Append(channel, e)
    PROVE  /\ channel' \in Seq(Events)
           /\ Final' = Store(Final, turn, e)
           /\ Timelines' \subseteq Timelines \cup {Final'}
  <1>1. Final' = StoredAfter(rows, turn, Append(channel, e))
        /\ Timelines' = TimelinesOf(rows, turn, Append(channel, e))
    BY DEF Final, Timelines, TimelinesOf, Stored
  <1>2. PICK r, t, c : r = rows /\ t = turn /\ c = channel
    OBVIOUS
  <1>3. c \in Seq(Events)
    BY <1>2
  <1>4. /\ StoredAfter(r, t, Append(c, e)) = Store(StoredAfter(r, t, c), t, e)
        /\ TimelinesOf(r, t, Append(c, e)) \subseteq
             TimelinesOf(r, t, c) \cup {Store(StoredAfter(r, t, c), t, e)}
    BY <1>3, TimelinesGrow
  <1>5. channel' \in Seq(Events)
    BY <1>2, <1>3, JoinOne
  <1> QED
    BY <1>1, <1>2, <1>4, <1>5 DEF Final, Stored, Timelines

LEMMA SendsTwo ==
    ASSUME channel \in Seq(Events), UNCHANGED <<rows, turn>>, NEW e \in Events, NEW d \in Events,
           channel' = Append(Append(channel, e), d)
    PROVE  /\ channel' \in Seq(Events)
           /\ Final' = Store(Store(Final, turn, e), turn, d)
           /\ Timelines' \subseteq Timelines \cup {Store(Final, turn, e), Final'}
  <1>1. Final' = StoredAfter(rows, turn, Append(Append(channel, e), d))
        /\ Timelines' = TimelinesOf(rows, turn, Append(Append(channel, e), d))
    BY DEF Final, Timelines, TimelinesOf, Stored
  <1>2. PICK r, t, c, m : r = rows /\ t = turn /\ c = channel /\ m = Append(c, e)
    OBVIOUS
  <1>3. c \in Seq(Events) /\ m \in Seq(Events)
    BY <1>2
  <1>4. /\ StoredAfter(r, t, m) = Store(StoredAfter(r, t, c), t, e)
        /\ TimelinesOf(r, t, m) \subseteq
             TimelinesOf(r, t, c) \cup {Store(StoredAfter(r, t, c), t, e)}
    BY <1>2, <1>3, TimelinesGrow
  <1>5. /\ StoredAfter(r, t, Append(m, d)) = Store(StoredAfter(r, t, m), t, d)
        /\ TimelinesOf(r, t, Append(m, d)) \subseteq
             TimelinesOf(r, t, m) \cup {Store(StoredAfter(r, t, m), t, d)}
    BY <1>3, TimelinesGrow
  <1>6. channel' \in Seq(Events)
    BY <1>2, <1>3, JoinOne
  <1>7. StoredAfter(r, t, c) = Final /\ TimelinesOf(r, t, c) = Timelines
    BY <1>2 DEF Final, Stored, Timelines
  <1>8. /\ Final' = StoredAfter(r, t, Append(m, d))
        /\ Timelines' = TimelinesOf(r, t, Append(m, d))
    BY <1>1, <1>2
  <1> QED
    BY <1>2, <1>4, <1>5, <1>6, <1>7, <1>8

-----------------------------------------------------------------------------
(* A turn at work.                                                         *)

(* What the invariant says while a turn runs.                              *)
LEMMA AtWork ==
    ASSUME Inv, pc # "idle"
    PROVE  /\ turn \in Turns /\ turn \in Nat /\ turn \in 0..MaxTurns /\ turn - 1 \in Nat
           /\ TurnFacts(turn) \subseteq Excused /\ Lost \subseteq Excused
           /\ Final \in Timelines /\ rows \in Timelines
           /\ Timeline(Final, turn) /\ Agrees(Held, Final, Lost)
           /\ Stands(Final, turn, Known(history), Excused, NoOut(rows))
           /\ Known(history) \in SUBSET Facts /\ Known(messages) \in SUBSET Facts
           /\ NoOut(rows) \cap TurnFacts(turn) = {}
           /\ channel \in Seq(Events)
  <1>1. turn \in Turns /\ turn \in Nat /\ turn \in 0..MaxTurns /\ turn - 1 \in Nat
    BY ConversationAssumption DEF Inv, Types, TypeOK, Turns
  <1>2. TurnFacts(turn) \subseteq Excused /\ Lost \subseteq Excused
    BY DEF Excused
  <1>3. channel \in Seq(Events)
    BY DEF Inv, Types
  <1>4. Final \in Timelines /\ rows \in Timelines
    BY <1>3, TimelinesGrow DEF Final, Timelines, Stored
  <1>5. /\ Stands(Final, turn, Known(history), Excused, NoOut(rows))
        /\ Agrees(Held, Final, Lost) /\ NoOut(rows) \cap TurnFacts(turn) = {}
    BY <1>4 DEF Inv, RecallOK
  <1>6. Timeline(Final, turn)
    BY <1>5 DEF Stands
  <1>7. Known(history) \in SUBSET Facts /\ Known(messages) \in SUBSET Facts
    BY ContextFacts DEF Inv, ContextsOK
  <1> QED
    BY <1>1, <1>2, <1>3, <1>4, <1>5, <1>6, <1>7

(* How far the driver may have got when the turn is cut off.               *)
LEMMA CutOff ==
    ASSUME Inv, pc # "idle", NEW es \in StoredEvents
    PROVE  Stands(Stored(es), turn, Known(history), Excused, NoOut(rows))
  <1>1. PICK n : (n \in 0..Len(channel) /\ es = SubSeq(channel, 1, n))
                 \/ \E partial \in Partial : es = channel \o partial
    BY DEF StoredEvents
  <1>2. CASE n \in 0..Len(channel) /\ es = SubSeq(channel, 1, n)
    BY <1>2 DEF Inv, RecallOK, Timelines, TimelinesOf, Stored
  <1>3. CASE \E partial \in Partial : es = channel \o partial
    <2>1. PICK partial \in Partial : es = channel \o partial
      BY <1>3
    <2>2. partial = <<>> \/ partial = <<TextSent>>
      BY DEF Partial
    <2>3. PICK c : c = channel
      OBVIOUS
    <2>4. c \in Seq(Events)
      BY <2>3, AtWork
    <2>5. es = c \/ es = Append(c, TextSent)
      BY <2>1, <2>2, <2>3, <2>4, JoinOne, EventTypes
    <2>6. CASE es = c
      BY <2>3, <2>6, AtWork DEF Final
    <2>7. CASE es = Append(c, TextSent)
      <3>1. PICK r, t : r = rows /\ t = turn
        OBVIOUS
      <3>2. StoredAfter(r, t, Append(c, TextSent)) = Store(StoredAfter(r, t, c), t, TextSent)
        BY <2>4, EventTypes, TimelinesGrow
      <3>3. Stored(es) = Store(Final, turn, TextSent)
        BY <2>3, <2>7, <3>1, <3>2 DEF Stored, Final
      <3> QED
        BY <3>3, AtWork, StandsStore
    <2> QED
      BY <2>5, <2>6, <2>7
  <1> QED
    BY <1>1, <1>2, <1>3

-----------------------------------------------------------------------------
(* What the end of a turn keeps.                                           *)

(* What weakens as its bound grows.                                        *)
LEMMA Monotone ==
    ASSUME NEW ms, NEW T \in Nat
    PROVE  /\ \A X, Y : X \subseteq Y /\ AllReplied(ms, X) => AllReplied(ms, Y)
           /\ \A F, G : F \subseteq G /\ Mentions(ms, F) => Mentions(ms, G)
           /\ Below(ms, T) => Below(ms, T + 1)
           /\ \A D, E : D \subseteq E /\ MarkedBelow(ms, T, D) => MarkedBelow(ms, T, E)
           /\ \A D, E : D \cup {T} \subseteq E /\ MarkedBelow(ms, T, D)
                        => MarkedBelow(ms, T + 1, E)
           /\ \A D, E : D \ {T} \subseteq E /\ Below(ms, T) /\ MarkedBelow(ms, T, D)
                        => MarkedBelow(ms, T + 1, E)
  <1>1. \A X, Y : X \subseteq Y /\ AllReplied(ms, X) => AllReplied(ms, Y)
    BY DEF AllReplied
  <1>2. \A F, G : F \subseteq G /\ Mentions(ms, F) => Mentions(ms, G)
    BY DEF Mentions
  <1>3. \A t \in Turns : t \in Nat
    BY DEF Turns
  <1>4. Below(ms, T) => Below(ms, T + 1)
    BY <1>3 DEF Below
  <1>5. \A D, E : D \subseteq E /\ MarkedBelow(ms, T, D) => MarkedBelow(ms, T, E)
    BY DEF MarkedBelow
  <1>6. \A t \in Turns : t < T + 1 => t < T \/ t = T
    BY <1>3
  <1>7. \A D, E : D \cup {T} \subseteq E /\ MarkedBelow(ms, T, D) => MarkedBelow(ms, T + 1, E)
    BY <1>6 DEF MarkedBelow
  <1>8. ASSUME NEW D, NEW E, D \ {T} \subseteq E, Below(ms, T), MarkedBelow(ms, T, D)
        PROVE  MarkedBelow(ms, T + 1, E)
    <2>1. SUFFICES ASSUME NEW i \in DOMAIN ms, NEW t \in Turns, t < T + 1, UserOf(ms[i], t)
                   PROVE  t \in E \/ Marked(ms, i, t)
      BY DEF MarkedBelow
    <2>2. t < T
      BY <1>8, <2>1 DEF Below
    <2>3. t # T
      BY <1>3, <2>2
    <2>4. t \in D \/ Marked(ms, i, t)
      BY <1>8, <2>1, <2>2 DEF MarkedBelow
    <2> QED
      BY <1>8, <2>3, <2>4
  <1> QED
    BY <1>1, <1>2, <1>4, <1>5, <1>7, <1>8

(* h may be the history of an idle thread that has had T turns, with the   *)
(* timeline R, the turns in D done and the facts in L lost.                *)
Kept(h, R, T, D, L) ==
    /\ Timeline(R, T)
    /\ Context(h) /\ InOrder(h) /\ Below(h, T + 1)
    /\ AllReplied(h, NoOut(R)) /\ Mentions(h, UpTo(T)) /\ MarkedBelow(h, T + 1, D)
    /\ Agrees(Known(h), R, L)

(* A rebuilt history can be kept.                                          *)
LEMMA RestoredKept ==
    ASSUME NEW ends, NEW T \in Nat, NEW R, Timeline(R, T), NEW D, NEW L,
           Completed(ends) \subseteq D
    PROVE  /\ Kept(Restored(R, ends), R, T, D, L)
           /\ R = <<>> => Restored(R, ends) = <<>>
  <1>1. PICK c : c = Restored(R, ends)
    OBVIOUS
  <1>2. /\ Context(c) /\ InOrder(c) /\ Below(c, T + 1)
        /\ AllReplied(c, NoOut(R)) /\ Mentions(c, UpTo(T))
        /\ MarkedBelow(c, T + 1, Completed(ends))
        /\ Known(c) = Recalls(R)
    BY <1>1, RestoredOK
  <1>3. MarkedBelow(c, T + 1, D)
    BY <1>2, Monotone
  <1>4. Agrees(Known(c), R, L)
    BY <1>2 DEF Agrees
  <1>5. ASSUME R = <<>> PROVE c = <<>>
    <2>1. R \in Seq(Rows)
      BY DEF Timeline
    <2>2. Replayed(<<>>, ends) = [open |-> 0, context |-> <<>>]
      BY <1>5, <2>1, ReplayedSteps
    <2> QED
      BY <1>1, <1>5, <2>2 DEF Restored, Closed
  <1> QED
    BY <1>1, <1>2, <1>3, <1>4, <1>5 DEF Kept

(* The turn's facts may be lost: any agreement outside Excused is enough.  *)
LEMMA StandsAgrees ==
    ASSUME Inv, pc # "idle", NEW R, Stands(R, turn, Known(history), Excused, NoOut(rows)),
           NEW known, known \ Excused = Known(history) \ Excused
    PROVE  /\ NoOut(rows) \subseteq NoOut(R)
           /\ \A L : Lost \cup TurnFacts(turn) \subseteq L => Agrees(known, R, L)
  <1>1. NoOut(rows) \subseteq NoOut(R)
    <2>1. NoOut(rows) \cap TurnFacts(turn) = {}
      BY AtWork
    <2> QED
      BY <2>1 DEF Stands
  <1>2. ASSUME NEW L, Lost \cup TurnFacts(turn) \subseteq L PROVE Agrees(known, R, L)
    <2>1. Excused \subseteq L \cup NoOut(R)
      BY <1>1, <1>2 DEF Excused
    <2>2. Recalls(R) \ Excused = known \ Excused
      BY DEF Stands
    <2> QED
      BY <2>1, <2>2 DEF Agrees
  <1> QED
    BY <1>1, <1>2

(* So can the history from before the turn, when the turn is lost.         *)
LEMMA HistoryKept ==
    ASSUME Inv, pc # "idle", NEW R, Stands(R, turn, Known(history), Excused, NoOut(rows)),
           NEW D, Done \ {turn} \subseteq D, NEW L, Lost \cup TurnFacts(turn) \subseteq L
    PROVE  Kept(history, R, turn, D, L)
  <1>1. turn \in Nat /\ turn - 1 \in Nat
    BY AtWork
  <1>2. NoOut(rows) \subseteq NoOut(R) /\ Agrees(Known(history), R, L)
    BY StandsAgrees
  <1>3. Timeline(R, turn)
    BY DEF Stands
  <1>4. Context(history) /\ InOrder(history) /\ Below(history, turn)
    BY DEF Inv, ContextsOK
  <1>5. AllReplied(history, NoOut(rows)) /\ Mentions(history, UpTo(turn - 1))
    BY DEF Inv, RepliesOK
  <1>6. MarkedBelow(history, turn, Done)
    BY DEF Inv, MarksOK
  <1>7. Below(history, turn + 1) /\ AllReplied(history, NoOut(R))
    BY <1>1, <1>2, <1>4, <1>5, Monotone
  <1>8. MarkedBelow(history, turn + 1, D)
    BY <1>1, <1>4, <1>6, Monotone
  <1>9. Mentions(history, UpTo(turn))
    <2>1. \A f \in Facts : f.turn \in Nat
      BY DEF Facts, Turns
    <2>2. UpTo(turn - 1) \subseteq UpTo(turn)
      BY <1>1, <2>1 DEF UpTo
    <2> QED
      BY <1>1, <1>5, <2>2, Monotone
  <1> QED
    BY <1>2, <1>3, <1>4, <1>7, <1>8, <1>9 DEF Kept

(* h may be saved by the running turn.                                     *)
Copy(h) ==
    /\ Context(h) /\ InOrder(h) /\ Below(h, turn + 1)
    /\ AllReplied(h, NoOut(rows)) /\ Mentions(h, UpTo(turn)) /\ MarkedBelow(h, turn, Done)
    /\ Known(h) \ Excused = Known(messages) \ Excused

(* ... when the turn is lost or done, whatever was stored of it ...        *)
LEMMA CopyLost ==
    ASSUME Inv, pc # "idle", NEW R, Stands(R, turn, Known(history), Excused, NoOut(rows)),
           NEW h, Copy(h), NEW D, Done \cup {turn} \subseteq D,
           NEW L, Lost \cup TurnFacts(turn) \subseteq L
    PROVE  Kept(h, R, turn, D, L)
  <1>1. turn \in Nat
    BY AtWork
  <1>2. Known(h) \ Excused = Known(history) \ Excused
    BY DEF Copy, Inv, RecallOK
  <1>3. NoOut(rows) \subseteq NoOut(R) /\ Agrees(Known(h), R, L)
    BY <1>2, StandsAgrees
  <1>4. Timeline(R, turn)
    BY DEF Stands
  <1>5. AllReplied(h, NoOut(R)) /\ MarkedBelow(h, turn + 1, D)
    BY <1>1, <1>3, Monotone DEF Copy
  <1> QED
    BY <1>3, <1>4, <1>5 DEF Kept, Copy

(* ... and when it agrees with all that is stored.                         *)
LEMMA CopyKept ==
    ASSUME Inv, pc # "idle", NEW R, Stands(R, turn, Known(history), Excused, NoOut(rows)),
           NEW h, Copy(h), NEW D, MarkedBelow(h, turn + 1, D),
           NEW L, Agrees(Known(h), R, L)
    PROVE  Kept(h, R, turn, D, L)
  <1>1. turn \in Nat
    BY AtWork
  <1>2. Known(h) \ Excused = Known(history) \ Excused
    BY DEF Copy, Inv, RecallOK
  <1>3. NoOut(rows) \subseteq NoOut(R)
    BY <1>2, StandsAgrees
  <1>4. Timeline(R, turn)
    BY DEF Stands
  <1>5. AllReplied(h, NoOut(R))
    BY <1>1, <1>3, Monotone DEF Copy
  <1> QED
    BY <1>4, <1>5 DEF Kept, Copy

LEMMA NoMessages ==
    /\ Context(<<>>) /\ InOrder(<<>>) /\ Known(<<>>) = {}
    /\ \A T : Below(<<>>, T)
    /\ \A T, D : MarkedBelow(<<>>, T, D)
    /\ \A X : AllReplied(<<>>, X)
  <1>1. <<>> \in Seq(Messages) /\ DOMAIN <<>> = {}
    OBVIOUS
  <1> QED
    BY <1>1 DEF Context, InOrder, Known, Below, MarkedBelow, AllReplied

StateTypes ==
    /\ grants \subseteq Grantable
    /\ status \in [Turns -> {"absent", "running", "completed", "failed", "cancelled",
                             "interrupted"}]
    /\ dropped \subseteq Turns /\ unstored \subseteq Turns
    /\ faults \in 0..MaxFaults /\ work \in 0..MaxWork

LoopTypes ==
    /\ step \in 0..MaxSteps /\ observations \in Seq({Observation})
    /\ lastCall \in Tools \cup {"none"} /\ steering \in {"none", "pending", "applied"}

(* A thread that waits for the next turn.                                  *)
LEMMA IdleAgain ==
    ASSUME Inv, turn' = turn, pc' = "idle", channel' = <<>>, messages' = <<>>, queue' = <<>>,
           LoopTypes', StateTypes', turn = 0 => history' = <<>> /\ rows' = <<>>,
           Kept(history', rows', turn, Done', Lost')
    PROVE  Inv'
  <1>1. pc' = "idle" /\ channel' = <<>> /\ messages' = <<>> /\ queue' = <<>>
    OBVIOUS
  <1>2. /\ Timeline(rows', turn) /\ Context(history') /\ InOrder(history')
        /\ Below(history', turn + 1) /\ AllReplied(history', NoOut(rows'))
        /\ Mentions(history', UpTo(turn)) /\ MarkedBelow(history', turn + 1, Done')
        /\ Agrees(Known(history'), rows', Lost')
    BY DEF Kept
  <1>3. turn \in 0..MaxTurns
    BY DEF Inv, Types, TypeOK
  <1>4. TypeOK'
    <2>1. history' \in Seq(Messages) /\ <<>> \in Seq(Messages) /\ <<>> \in Seq(Calls)
      BY <1>2 DEF Context
    <2> QED
      BY <1>1, <1>3, <2>1 DEF TypeOK, StateTypes, LoopTypes
  <1>5. Types'
    <2>1. <<>> \in Seq(Events) /\ DOMAIN <<>> = {}
      OBVIOUS
    <2>2. Queued' = {}
      BY <1>1, <2>1 DEF Queued
    <2> QED
      BY <1>1, <1>4, <2>1, <2>2 DEF Types
  <1>6. RecallOK'
    BY <1>1, <1>2 DEF RecallOK
  <1>7. CallsOK'
    <2>1. DOMAIN <<>> = {}
      OBVIOUS
    <2>2. Queued' = {}
      BY <1>1, <2>1 DEF Queued
    <2> QED
      BY <1>1, <2>2 DEF CallsOK
  <1>8. ContextsOK'
    BY <1>1, <1>2, NoMessages DEF ContextsOK
  <1>9. RepliesOK'
    BY <1>1, <1>2 DEF RepliesOK
  <1>10. MarksOK'
    BY <1>1, <1>2, NoMessages DEF MarksOK
  <1> QED
    BY <1>5, <1>6, <1>7, <1>8, <1>9, <1>10 DEF Inv

(* A turn that is over leaves one.                                         *)
LEMMA TurnOver ==
    ASSUME Inv, TurnGone, turn' = turn, StateTypes', turn = 0 => history' = <<>> /\ rows' = <<>>,
           Kept(history', rows', turn, Done', Lost')
    PROVE  Inv'
  <1>1. /\ pc' = "idle" /\ channel' = <<>> /\ messages' = <<>> /\ step' = 0 /\ queue' = <<>>
        /\ observations' = <<>> /\ lastCall' = "none" /\ steering' \in {"none", "applied"}
    BY DEF TurnGone, Spent
  <1>2. LoopTypes'
    <2>1. 0 \in 0..MaxSteps /\ <<>> \in Seq({Observation})
      BY ConversationAssumption
    <2> QED
      BY <1>1, <2>1 DEF LoopTypes
  <1> QED
    BY <1>1, <1>2, IdleAgain

(* What the turn may save.                                                 *)

(* The queue is empty outside a batch.                                     *)
LEMMA NoQueue ==
    ASSUME Inv, pc \notin {"calling", "approving", "running"}
    PROVE  queue = <<>> /\ Queued = {}
  <1>1. queue = <<>>
    BY DEF Inv, Types
  <1>2. DOMAIN <<>> = {}
    OBVIOUS
  <1> QED
    BY <1>1, <1>2 DEF Queued

(* Calls that were made are of this turn or an earlier one.                *)
LEMMA MadeUpTo ==
    ASSUME Inv, pc # "idle"
    PROVE  Made \subseteq UpTo(turn) /\ MadeBefore(turn, 0) \subseteq UpTo(turn - 1)
           /\ UpTo(turn - 1) \subseteq Made /\ \A f \in Facts : f.turn \in Nat /\ f.step \in Nat
  <1>1. turn \in Nat /\ turn \in Turns
    BY AtWork
  <1>2. \A f \in Facts : f.turn \in Nat /\ f.step \in Nat
    BY DEF Facts, Turns
  <1>3. MadeBefore(turn, 0) \subseteq UpTo(turn - 1)
    BY <1>1, <1>2 DEF MadeBefore, UpTo
  <1>4. \A s : /\ MadeBefore(turn, s) \subseteq UpTo(turn)
               /\ UpTo(turn - 1) \subseteq MadeBefore(turn, s)
    BY <1>1, <1>2 DEF MadeBefore, UpTo
  <1> QED
    BY <1>2, <1>3, <1>4 DEF Made

(* The copy as it is, in a turn that has made its request ready.           *)
LEMMA MessagesCopy ==
    ASSUME Inv, pc \in {"asking", "closing", "finishing"}
    PROVE  Copy(messages) /\ Held = Known(messages)
  <1>1. /\ Context(messages) /\ InOrder(messages) /\ Below(messages, turn + 1)
    BY DEF Inv, ContextsOK
  <1>2. AllReplied(messages, NoOut(rows) \cup Queued) /\ Mentions(messages, Made)
    BY DEF Inv, RepliesOK
  <1>3. Queued = {}
    BY NoQueue
  <1>4. AllReplied(messages, NoOut(rows))
    BY <1>2, <1>3
  <1>5. Mentions(messages, UpTo(turn))
    <2>1. turn \in Nat
      BY AtWork
    <2> QED
      BY <1>2, <2>1, MadeUpTo, Monotone
  <1>6. MarkedBelow(messages, turn, Done)
    BY DEF Inv, MarksOK
  <1> QED
    BY <1>1, <1>4, <1>5, <1>6 DEF Copy, Held

(* The note marks the turn that runs.                                      *)
LEMMA NoteEnds ==
    ASSUME Inv, pc # "idle", NEW h, Copy(h)
    PROVE  /\ Copy(Append(h, Note)) /\ Known(Append(h, Note)) = Known(h)
           /\ MarkedBelow(Append(h, Note), turn + 1, Done \ {turn})
  <1>1. turn \in Turns
    BY AtWork
  <1>2. /\ Context(h) /\ InOrder(h) /\ Below(h, turn + 1) /\ AllReplied(h, NoOut(rows))
        /\ Mentions(h, UpTo(turn)) /\ MarkedBelow(h, turn, Done)
    BY DEF Copy
  <1>3. PICK m, w : m = Note /\ w = Append(h, m)
    OBVIOUS
  <1>4. Shaped(m) /\ m.role = "note" /\ m.knows = {} /\ m.calls = {}
    BY <1>3, MessageShapes DEF Note
  <1>5. /\ Context(w) /\ Known(w) = Known(h) /\ AllReplied(w, NoOut(rows))
        /\ Mentions(w, UpTo(turn))
    BY <1>2, <1>3, <1>4, AppendContext
  <1>6. InOrder(w) /\ Below(w, turn + 1) /\ MarkedBelow(w, turn, Done)
    BY <1>2, <1>3, <1>4, AppendOther
  <1>7. MarkedBelow(w, turn + 1, Done \ {turn})
    <2>1. turn \in Nat /\ \A t \in Turns : t < turn => t # turn
      BY <1>1 DEF Turns
    <2>2. MarkedBelow(h, turn, Done \ {turn})
      BY <1>2, <2>1 DEF MarkedBelow
    <2> QED
      BY <1>1, <1>2, <1>3, <2>2, NoteMarks
  <1> QED
    BY <1>3, <1>5, <1>6, <1>7 DEF Copy

(* The request is interrupted, after some text or before.                  *)
LEMMA InterruptedCopy ==
    ASSUME Inv, pc = "asking", NEW partial \in Partial
    PROVE  /\ Copy(Interrupted(partial)) /\ Known(Interrupted(partial)) = Known(messages)
           /\ MarkedBelow(Interrupted(partial), turn + 1, Done \ {turn})
  <1>1. Copy(messages)
    BY MessagesCopy
  <1>2. PICK ms, m : ms = messages /\ m = Assistant({})
    OBVIOUS
  <1>3. ms \in Seq(Messages) /\ m \in Messages /\ Shaped(m) /\ Note \in Messages
    BY <1>1, <1>2, MessageShapes DEF Copy, Context, Shaped
  <1>4. partial = <<>> \/ partial = <<TextSent>>
    BY DEF Partial
  <1>5. CASE partial = <<>>
    <2>1. Interrupted(partial) = Append(ms, Note)
      <3>1. [i \in DOMAIN partial |-> Assistant({})] = <<>>
        BY <1>5
      <3>2. Interrupted(partial) = ms \o <<>> \o <<Note>>
        BY <1>2, <3>1 DEF Interrupted
      <3> QED
        BY <1>3, <3>2
    <2> QED
      BY <1>1, <1>2, <2>1, NoteEnds
  <1>6. CASE partial = <<TextSent>>
    <2>1. Interrupted(partial) = Append(Append(ms, m), Note)
      <3>1. [i \in DOMAIN partial |-> m] = <<m>>
        BY <1>6
      <3>2. Interrupted(partial) = ms \o <<m>> \o <<Note>>
        BY <1>2, <3>1 DEF Interrupted
      <3> QED
        BY <1>3, <3>2
    <2>2. PICK w : w = Append(ms, m)
      OBVIOUS
    <2>3. /\ Context(ms) /\ InOrder(ms) /\ Below(ms, turn + 1) /\ AllReplied(ms, NoOut(rows))
          /\ Mentions(ms, UpTo(turn)) /\ MarkedBelow(ms, turn, Done)
      BY <1>1, <1>2 DEF Copy
    <2>4. m.role = "assistant" /\ m.knows = {} /\ m.calls = {}
      BY <1>2 DEF Assistant
    <2>5. /\ Context(w) /\ Known(w) = Known(ms) /\ AllReplied(w, NoOut(rows))
          /\ Mentions(w, UpTo(turn))
      BY <1>3, <2>2, <2>3, <2>4, AppendContext
    <2>6. InOrder(w) /\ Below(w, turn + 1) /\ MarkedBelow(w, turn, Done)
      BY <1>3, <2>2, <2>3, <2>4, AppendOther
    <2>7. Copy(w)
      BY <1>1, <1>2, <2>5, <2>6 DEF Copy
    <2> QED
      BY <1>2, <2>1, <2>2, <2>5, <2>7, NoteEnds
  <1> QED
    BY <1>4, <1>5, <1>6

(* The prompt joins the turn's copy, at last with the note.                *)
LEMMA PromptJoins ==
    ASSUME Inv, pc = "setup", NEW w, w = Append(messages, User(Prompt(turn)))
    PROVE  /\ Copy(w) /\ Known(w) = Held
           /\ messages \o <<User(Prompt(turn)), Note>> = Append(w, Note)
  <1>1. turn \in Turns /\ turn \in Nat
    BY AtWork
  <1>2. PICK ms, m : ms = messages /\ m = User(Prompt(turn))
    OBVIOUS
  <1>3. /\ Prompt(turn) \in Facts /\ Shaped(m) /\ UserOf(m, turn)
        /\ m.knows = {Prompt(turn)} /\ m.calls = {} /\ m.role = "user"
    BY <1>1, <1>2, MessageShapes DEF User
  <1>4. Queued = {}
    BY NoQueue
  <1>5. Context(ms) /\ InOrder(ms) /\ Below(ms, turn)
    BY <1>2 DEF Inv, ContextsOK
  <1>6. Below(ms, turn + 1)
    BY <1>1, <1>5, Monotone
  <1>7. AllReplied(ms, NoOut(rows)) /\ Mentions(ms, UpTo(turn))
    <2>1. AllReplied(ms, NoOut(rows)) /\ Mentions(ms, Made)
      BY <1>2, <1>4 DEF Inv, RepliesOK
    <2> QED
      BY <1>1, <2>1, MadeUpTo, Monotone
  <1>8. MarkedBelow(ms, turn, Done)
    BY <1>2 DEF Inv, MarksOK
  <1>9. w = Append(ms, m)
    BY <1>2
  <1>10. /\ Context(w) /\ Known(w) = Known(ms) \cup {Prompt(turn)} /\ AllReplied(w, NoOut(rows))
         /\ Mentions(w, UpTo(turn))
    BY <1>3, <1>5, <1>7, <1>9, AppendContext
  <1>11. InOrder(w) /\ Below(w, turn + 1) /\ MarkedBelow(w, turn, Done)
    BY <1>1, <1>3, <1>5, <1>6, <1>8, <1>9, AppendInput
  <1>12. Known(w) = Held
    BY <1>2, <1>10 DEF Held
  <1>13. Known(w) \ Excused = Known(messages) \ Excused
    <2>1. Prompt(turn) \in TurnFacts(turn)
      BY <1>3 DEF Prompt, TurnFacts
    <2> QED
      BY <1>2, <1>10, <2>1 DEF Excused
  <1>14. messages \o <<User(Prompt(turn)), Note>> = Append(w, Note)
    <2>1. ms \in Seq(Messages) /\ m \in Messages /\ Note \in Messages
      BY <1>3, <1>5, MessageShapes DEF Context, Shaped
    <2> QED
      BY <1>2, <1>9, <2>1
  <1> QED
    BY <1>10, <1>11, <1>12, <1>13, <1>14 DEF Copy

LEMMA FactsFinite == IsFiniteSet(Facts)
  <1> DEFINE S == (Turns \X (0..MaxSteps)) \X (0..MaxBatch)
             F == [x \in S |-> [turn |-> x[1][1], step |-> x[1][2], n |-> x[2]]]
  <1>1. MaxTurns \in Int /\ MaxSteps \in Int /\ MaxBatch \in Int /\ 0 \in Int /\ 1 \in Int
    BY ConversationAssumption
  <1>2. IsFiniteSet(Turns) /\ IsFiniteSet(0..MaxSteps) /\ IsFiniteSet(0..MaxBatch)
    BY <1>1, FS_Interval DEF Turns
  <1>3. IsFiniteSet(S)
    BY <1>2, FS_Product
  <1>4. F \in Surjection(S, Facts)
    <2>1. ASSUME NEW f \in Facts PROVE \E x \in S : F[x] = f
      <3> DEFINE x == <<<<f.turn, f.step>>, f.n>>
      <3>1. x \in S
        BY DEF Facts
      <3>2. F[x] = f
        BY <3>1 DEF Facts
      <3> QED
        BY <3>1, <3>2
    <2>2. F \in [S -> Facts]
      BY DEF Facts
    <2> QED
      BY <2>1, <2>2 DEF Surjection
  <1> HIDE DEF S, F
  <1> QED
    BY <1>3, <1>4, FS_Surjection

(* The answers to a set of calls, in some order.                           *)
AnswersTo(F) == {Answer(f) : f \in F}

(* Every open call gets one answer.                                        *)
LEMMA AnswersInOrder ==
    ASSUME NEW F \in SUBSET Facts, NEW os, os = SetToSeq(AnswersTo(F))
    PROVE  /\ Len(os) \in Nat /\ DOMAIN os = 1..Len(os)
           /\ os \in Seq(Messages)
           /\ \A k \in 1..Len(os) : \E f \in F : os[k] = Answer(f)
           /\ \A f \in F : \E k \in 1..Len(os) : os[k] = Answer(f)
  <1> DEFINE S == {Answer(f) : f \in F}
             A == [f \in F |-> Answer(f)]
  <1>1. IsFiniteSet(F)
    BY FactsFinite, FS_Subset
  <1>2. A \in Surjection(F, S)
    BY DEF Surjection
  <1>3. IsFiniteSet(S)
    <2> HIDE DEF A, S
    <2> QED
      BY <1>1, <1>2, FS_Surjection
  <1>4. \A f \in F : Answer(f) \in Messages
    BY MessageShapes DEF Shaped
  <1>5. S \subseteq Messages
    BY <1>4
  <1>6. os = CHOOSE q \in [1..Cardinality(S) -> S] : IsInjective(q)
    BY DEF SetToSeq, AnswersTo
  <1>7. (\A f \in F : Answer(f) \in S) /\ (\A m \in S : \E f \in F : m = Answer(f))
    OBVIOUS
  <1> HIDE DEF S, A
  <1>8. PICK n \in Nat : n = Cardinality(S)
    BY <1>3, FS_CardinalityType
  <1>9. PICK b : b \in Bijection(1..n, S)
    BY <1>3, <1>8, FS_CardinalityType DEF ExistsBijection
  <1>10. b \in [1..n -> S] /\ IsInjective(b)
    BY <1>9 DEF Bijection, Injection
  <1>11. os \in [1..n -> S] /\ IsInjective(os)
    BY <1>6, <1>8, <1>10
  <1>12. os \in Surjection(1..n, S)
    <2>1. os \in Injection(1..n, S)
      BY <1>11 DEF Injection
    <2>2. Cardinality(1..n) = n
      <3>1. 1 \in Int /\ n \in Int
        OBVIOUS
      <3>2. Cardinality(1..n) = IF 1 > n THEN 0 ELSE n - 1 + 1
        BY <3>1, FS_Interval
      <3> QED
        BY <3>2
    <2> QED
      BY <1>3, <1>8, <2>1, <2>2, FS_Injection
  <1>13. DOMAIN os = 1..n /\ Len(os) = n /\ os \in Seq(Messages)
    <2>1. os \in [1..n -> Messages]
      BY <1>5, <1>11
    <2> QED
      BY <2>1
  <1>14. \A m \in S : \E k \in 1..n : os[k] = m
    BY <1>12 DEF Surjection
  <1>15. \A k \in 1..n : os[k] \in S
    BY <1>11
  <1> QED
    BY <1>7, <1>8, <1>13, <1>14, <1>15

(* A declined turn answers every open call in the copy it saves.           *)
OnlyAnswers(os, F) == \A k \in 1..Len(os) : \E f \in F : os[k] = Answer(f)
OpenAnswered(ms, os, Q) ==
    \A f \in Q : (\E i \in DOMAIN ms : f \in ms[i].calls)
                 => \E k \in 1..Len(os) : os[k] = Answer(f)

(* After them no call is open.                                             *)
LEMMA AnswersJoin ==
    ASSUME NEW ms, Context(ms), NEW os, Context(os), NEW F, OnlyAnswers(os, F),
           NEW X, NEW Q, AllReplied(ms, X \cup Q), Waiting(ms, Q), OpenAnswered(ms, os, Q)
    PROVE  AllReplied(ms \o os, X)
  <1>1. PICK w : w = ms \o os
    OBVIOUS
  <1>2. ms \in Seq(Messages) /\ os \in Seq(Messages)
    BY DEF Context
  <1>3. PICK n \in Nat, m \in Nat : n = Len(ms) /\ m = Len(os)
    BY <1>2
  <1>4. /\ Len(w) = n + m /\ DOMAIN w = 1..(n + m) /\ DOMAIN ms = 1..n
        /\ \A i \in 1..n : i \in 1..(n + m) /\ w[i] = ms[i]
        /\ \A i \in 1..m : n + i \in 1..(n + m) /\ w[n + i] = os[i]
        /\ \A i \in 1..(n + m) : i \in 1..n \/ (i > n /\ i - n \in 1..m /\ w[i] = os[i - n])
    BY <1>1, <1>2, <1>3, JoinFacts
  <1>5. ASSUME NEW k \in 1..m PROVE os[k].calls = {} /\ ~FromUser(os[k])
    <2>1. PICK f \in F : os[k] = Answer(f)
      BY <1>3 DEF OnlyAnswers
    <2>2. Answer(f).calls = {} /\ Answer(f).role = "tool"
      BY DEF Answer
    <2> QED
      BY <2>1, <2>2 DEF FromUser
  <1>6. SUFFICES ASSUME NEW i \in 1..(n + m), NEW f \in w[i].calls, f \notin X
                 PROVE  Replied(w, i, f)
    BY <1>1, <1>4 DEF AllReplied
  <1>7. i \in 1..n /\ f \in ms[i].calls
    BY <1>4, <1>5, <1>6
  <1>8. CASE Replied(ms, i, f)
    <2>1. PICK j \in (i + 1)..n : ms[j] = Answer(f) /\ \A k \in i..j : ~FromUser(ms[k])
      BY <1>3, <1>8 DEF Replied
    <2>2. j \in 1..n /\ j \in (i + 1)..(n + m) /\ \A k \in i..j : k \in 1..n
      BY <1>7, <2>1
    <2>3. w[j] = Answer(f) /\ \A k \in i..j : ~FromUser(w[k])
      BY <1>4, <2>1, <2>2
    <2> QED
      BY <1>4, <2>2, <2>3 DEF Replied
  <1>9. CASE ~Replied(ms, i, f)
    <2>1. f \in Q
      BY <1>4, <1>6, <1>7, <1>9 DEF AllReplied
    <2>2. PICK l \in 1..m : os[l] = Answer(f)
      BY <1>3, <1>4, <1>7, <2>1 DEF OpenAnswered
    <2>3. \A k \in i..n : ~FromUser(ms[k])
      BY <1>3, <1>4, <1>7, <2>1 DEF Waiting
    <2>4. PICK j : j = n + l
      OBVIOUS
    <2>5. j \in (i + 1)..(n + m) /\ w[j] = Answer(f)
      BY <1>4, <1>7, <2>2, <2>4
    <2>6. ASSUME NEW k \in i..j PROVE ~FromUser(w[k])
      <3>1. k \in 1..(n + m) /\ (k \in 1..n => k \in i..n)
        BY <1>7, <2>5
      <3> QED
        BY <1>4, <1>5, <2>3, <3>1
    <2> QED
      BY <1>4, <2>5, <2>6 DEF Replied
  <1> QED
    BY <1>8, <1>9

(* What is saved when the user denies a call.                              *)
LEMMA DeclinedCopy ==
    ASSUME Inv, pc = "approving"
    PROVE  Copy(Declined)
  <1>1. PICK ms : ms = messages
    OBVIOUS
  <1>2. /\ Context(ms) /\ InOrder(ms) /\ Below(ms, turn + 1)
    BY <1>1 DEF Inv, ContextsOK
  <1>3. /\ AllReplied(ms, NoOut(rows) \cup Queued) /\ Mentions(ms, Made) /\ Waiting(ms, Queued)
    BY <1>1 DEF Inv, RepliesOK
  <1>4. MarkedBelow(ms, turn, Done)
    BY <1>1 DEF Inv, MarksOK
  <1>5. PICK F : F = {f \in UNION {ms[i].calls : i \in DOMAIN ms} :
                        \A j \in DOMAIN ms : ms[j] # Answer(f)}
    OBVIOUS
  <1>6. PICK os : os = SetToSeq(AnswersTo(F))
    OBVIOUS
  <1>7. Declined = ms \o os \o <<Note>>
    BY <1>1, <1>5, <1>6 DEF Declined, AnswersTo
  <1>8. ms \in Seq(Messages) /\ DOMAIN ms = 1..Len(ms) /\ Len(ms) \in Nat
    BY <1>2, ContextFacts
  <1>9. F \in SUBSET Facts
    BY <1>2, <1>5, <1>8, ContextFacts DEF Messages
  <1>10. /\ Len(os) \in Nat /\ DOMAIN os = 1..Len(os) /\ os \in Seq(Messages)
         /\ \A k \in 1..Len(os) : \E f \in F : os[k] = Answer(f)
         /\ \A f \in F : \E k \in 1..Len(os) : os[k] = Answer(f)
    BY <1>6, <1>9, AnswersInOrder
  <1>11. \A f \in F : Shaped(Answer(f))
    BY <1>9, MessageShapes
  <1>12. Context(os) /\ Quiet(os)
    BY <1>10, <1>11 DEF Context, Quiet, Answer
  <1>13. F \subseteq NoOut(rows) \cup Queued
    <2>1. SUFFICES ASSUME NEW f \in F, f \notin NoOut(rows) \cup Queued PROVE FALSE
      OBVIOUS
    <2>2. PICK i \in DOMAIN ms : f \in ms[i].calls
      BY <1>5
    <2>3. Replied(ms, i, f)
      BY <1>3, <2>1, <2>2 DEF AllReplied
    <2>4. PICK j \in (i + 1)..Len(ms) : ms[j] = Answer(f)
      BY <2>3 DEF Replied
    <2>5. j \in DOMAIN ms
      BY <1>8, <2>2, <2>4
    <2> QED
      BY <1>5, <2>4, <2>5
  <1>14. \A f \in Queued : (\E i \in DOMAIN ms : f \in ms[i].calls) => f \in F
    BY <1>3, <1>5 DEF Waiting
  <1>15. PICK w : w = ms \o os
    OBVIOUS
  <1>16. AllReplied(w, NoOut(rows))
    <2>1. PICK X, Q : X = NoOut(rows) /\ Q = Queued
      OBVIOUS
    <2>2. /\ AllReplied(ms, X \cup Q) /\ Waiting(ms, Q)
          /\ OpenAnswered(ms, os, Q) /\ OnlyAnswers(os, F)
      BY <1>3, <1>10, <1>14, <2>1 DEF OpenAnswered, OnlyAnswers
    <2>3. AllReplied(ms \o os, X)
      BY <1>2, <1>10, <1>12, <2>2, AnswersJoin
    <2> QED
      BY <1>15, <2>1, <2>3
  <1>17. Context(w) /\ Known(w) = Known(ms) \cup Known(os)
    BY <1>2, <1>12, <1>15, JoinContext
  <1>18. InOrder(w) /\ Below(w, turn + 1) /\ MarkedBelow(w, turn, Done)
    BY <1>2, <1>4, <1>12, <1>15, JoinQuiet
  <1>19. F \subseteq Made
    BY <1>3, <1>5 DEF Mentions
  <1>20. Mentions(w, UpTo(turn))
    <2>1. Made \subseteq UpTo(turn) /\ turn \in Nat
      BY MadeUpTo, AtWork
    <2>2. Mentions(ms, UpTo(turn))
      BY <1>3, <2>1, Monotone
    <2>3. Mentions(os, UpTo(turn))
      <3>1. \A k \in 1..Len(os) : os[k].calls = {} /\ os[k].knows \subseteq F
        BY <1>10 DEF Answer
      <3> QED
        BY <1>10, <1>19, <2>1, <3>1 DEF Mentions
    <2> QED
      BY <1>2, <1>12, <1>15, <2>2, <2>3, JoinMentions
  <1>21. Known(os) \subseteq Excused
    <2>1. Known(os) \subseteq F
      BY <1>10 DEF Known, Answer
    <2>2. Queued \subseteq TurnFacts(turn)
      BY DEF Inv, Types, TurnFacts
    <2> QED
      BY <1>13, <2>1, <2>2 DEF Excused
  <1>22. Copy(w)
    BY <1>1, <1>16, <1>17, <1>18, <1>20, <1>21 DEF Copy
  <1>23. Declined = Append(w, Note)
    <2>1. Note \in Messages
      BY MessageShapes DEF Shaped
    <2> QED
      BY <1>7, <1>8, <1>10, <1>15, <2>1
  <1> QED
    BY <1>22, <1>23, NoteEnds

(* Whatever the agent may have saved may be kept.                          *)
LEMMA MaySaveCopy ==
    ASSUME Inv, pc # "idle", NEW h \in MaySave
    PROVE  Copy(h)
  <1>1. CASE pc = "setup"
    <2>1. h = messages \o <<User(Prompt(turn)), Note>>
      BY <1>1 DEF MaySave
    <2>2. PICK w : w = Append(messages, User(Prompt(turn)))
      OBVIOUS
    <2> QED
      BY <1>1, <2>1, <2>2, PromptJoins, NoteEnds
  <1>2. CASE pc = "asking"
    BY <1>2, InterruptedCopy DEF MaySave
  <1>3. CASE pc \in {"closing", "finishing"}
    <2>1. h = messages
      BY <1>3 DEF MaySave
    <2> QED
      BY <1>3, <2>1, MessagesCopy
  <1>4. CASE pc = "approving"
    BY <1>4, DeclinedCopy DEF MaySave
  <1> QED
    BY <1>1, <1>2, <1>3, <1>4 DEF MaySave

-----------------------------------------------------------------------------
(* The ends of a turn.                                                     *)

LEMMA StatusSet ==
    ASSUME Inv, pc # "idle", NEW result,
           result \in {"absent", "running", "completed", "failed", "cancelled", "interrupted"},
           status' = [status EXCEPT ![turn] = result]
    PROVE  /\ status' \in [Turns -> {"absent", "running", "completed", "failed", "cancelled",
                                     "interrupted"}]
           /\ status'[turn] = result /\ \A t \in Turns \ {turn} : status'[t] = status[t]
  BY AtWork DEF Inv, Types, TypeOK

(* An early return: the turn is lost and marked as failed.                 *)
LEMMA DropsKeep ==
    ASSUME Inv, pc # "idle", NEW es, Drops(es),
           Stands(Stored(channel \o es), turn, Known(history), Excused, NoOut(rows))
    PROVE  Inv'
  <1>1. /\ rows' = Stored(channel \o es) /\ status' = [status EXCEPT ![turn] = "failed"]
        /\ TurnGone /\ turn' = turn /\ grants' = grants /\ dropped' = dropped \cup {turn}
        /\ history' = history /\ unstored' = unstored /\ faults' = faults /\ work' = work
    BY DEF Drops, EndTurn, boundVars
  <1>2. turn \in Turns /\ turn # 0
    BY AtWork DEF Turns
  <1>3. StateTypes'
    BY <1>1, <1>2, StatusSet DEF Inv, Types, TypeOK, StateTypes
  <1>4. Done \ {turn} \subseteq Done'
    BY <1>1, StatusSet DEF Done
  <1>5. Lost \cup TurnFacts(turn) \subseteq Lost'
    BY <1>1 DEF Lost, TurnFacts
  <1>6. PICK R, D, L : R = rows' /\ D = Done' /\ L = Lost'
    OBVIOUS
  <1>7. Kept(history, R, turn, D, L)
    BY <1>1, <1>4, <1>5, <1>6, HistoryKept
  <1> QED
    BY <1>1, <1>2, <1>3, <1>6, <1>7, TurnOver

(* A cancelled turn leaves a rebuilt history.                              *)
LEMMA CancelsKeep ==
    ASSUME Inv, pc # "idle", NEW es, Cancels(es),
           Stands(Stored(channel \o es), turn, Known(history), Excused, NoOut(rows))
    PROVE  Inv'
  <1>1. /\ rows' = Stored(channel \o es) /\ status' = [status EXCEPT ![turn] = "cancelled"]
        /\ TurnGone /\ turn' = turn /\ grants' = grants /\ dropped' = dropped
        /\ history' = Restored(rows', status')
        /\ unstored' = unstored /\ faults' = faults /\ work' = work
    BY DEF Cancels, EndTurn, boundVars
  <1>2. turn \in Turns /\ turn # 0 /\ turn \in Nat
    BY AtWork DEF Turns
  <1>3. StateTypes'
    BY <1>1, <1>2, StatusSet DEF Inv, Types, TypeOK, StateTypes
  <1>4. PICK R, D, L, ends : R = rows' /\ D = Done' /\ L = Lost' /\ ends = status'
    OBVIOUS
  <1>5. Timeline(R, turn)
    BY <1>1, <1>4 DEF Stands
  <1>6. Completed(ends) \subseteq D
    BY <1>4 DEF Completed, Done
  <1>7. Kept(Restored(R, ends), R, turn, D, L)
    BY <1>2, <1>5, <1>6, RestoredKept
  <1> QED
    BY <1>1, <1>2, <1>3, <1>4, <1>7, TurnOver

(* A saved copy must agree with what was stored, and mark its turn.        *)
LEMMA SavesKeep ==
    ASSUME Inv, pc # "idle", NEW es, NEW result \in {"completed", "failed"}, NEW ms,
           Saves(result, ms, es),
           Stands(Stored(channel \o es), turn, Known(history), Excused, NoOut(rows)),
           Copy(ms), Agrees(Known(ms), Stored(channel \o es), Lost),
           result = "completed" \/ MarkedBelow(ms, turn + 1, Done \ {turn})
    PROVE  Inv'
  <1>1. /\ rows' = Stored(channel \o es) /\ status' = [status EXCEPT ![turn] = result]
        /\ TurnGone /\ turn' = turn /\ grants' = grants /\ dropped' = dropped
        /\ history' = ms /\ unstored' = unstored /\ faults' = faults /\ work' = work
    BY DEF Saves, EndTurn, boundVars
  <1>2. turn \in Turns /\ turn # 0 /\ turn \in Nat
    BY AtWork DEF Turns
  <1>3. StateTypes'
    BY <1>1, <1>2, StatusSet DEF Inv, Types, TypeOK, StateTypes
  <1>4. Done \ {turn} \subseteq Done' /\ (result = "completed" => turn \in Done')
    BY <1>1, <1>2, StatusSet DEF Done
  <1>5. Lost' = Lost
    BY <1>1 DEF Lost
  <1>6. PICK R, D, L : R = rows' /\ D = Done' /\ L = Lost'
    OBVIOUS
  <1>7. MarkedBelow(ms, turn + 1, D)
    <2>1. CASE result = "completed"
      <3>1. Done \cup {turn} \subseteq D
        BY <1>4, <1>6, <2>1
      <3>2. MarkedBelow(ms, turn, Done)
        BY DEF Copy
      <3> QED
        BY <1>2, <3>1, <3>2, Monotone
    <2>2. CASE MarkedBelow(ms, turn + 1, Done \ {turn})
      <3>1. Done \ {turn} \subseteq D /\ turn + 1 \in Nat
        BY <1>2, <1>4, <1>6
      <3> QED
        BY <2>2, <3>1, Monotone
    <2> QED
      BY <2>1, <2>2
  <1>8. Agrees(Known(ms), R, L)
    BY <1>1, <1>5, <1>6
  <1>9. Kept(ms, R, turn, D, L)
    BY <1>1, <1>6, <1>7, <1>8, CopyKept
  <1> QED
    BY <1>1, <1>2, <1>3, <1>6, <1>9, TurnOver

(* All that was sent is stored, then maybe what the end sends.             *)
LEMMA EndStored ==
    ASSUME Inv, pc # "idle"
    PROVE  /\ Stored(channel \o <<>>) = Final
           /\ \A e \in Events : Stored(channel \o <<e>>) = Store(Final, turn, e)
           /\ Stands(Stored(channel \o <<>>), turn, Known(history), Excused, NoOut(rows))
  <1>1. PICK r, t, c : r = rows /\ t = turn /\ c = channel
    OBVIOUS
  <1>2. c \in Seq(Events)
    BY <1>1, AtWork
  <1>3. c \o <<>> = c
    BY <1>2
  <1>4. ASSUME NEW e \in Events PROVE Stored(channel \o <<e>>) = Store(Final, turn, e)
    <2>1. c \o <<e>> = Append(c, e)
      BY <1>2, JoinOne
    <2>2. StoredAfter(r, t, Append(c, e)) = Store(StoredAfter(r, t, c), t, e)
      BY <1>2, TimelinesGrow
    <2> QED
      BY <1>1, <2>1, <2>2 DEF Stored, Final
  <1> QED
    BY <1>1, <1>3, <1>4, AtWork DEF Final

(* The end of the turn cannot be stored, or the process dies.              *)
LEMMA StoreFailsKeeps ==
    ASSUME Inv, StoreFails
    PROVE  Inv'
  <1>1. /\ pc # "idle" /\ faults < MaxFaults /\ faults' = faults + 1
        /\ status' \in {status, [status EXCEPT ![turn] = "failed"]}
        /\ history' \in {history} \cup MaySave /\ unstored' = unstored \cup {turn}
        /\ TurnGone /\ turn' = turn /\ grants' = grants /\ dropped' = dropped /\ work' = work
    BY DEF StoreFails
  <1>2. PICK es \in StoredEvents : rows' = Stored(es)
    BY DEF StoreFails
  <1>3. turn \in Turns /\ turn # 0 /\ turn \in Nat
    BY <1>1, AtWork DEF Turns
  <1>4. PICK R, D, L : R = rows' /\ D = Done' /\ L = Lost'
    OBVIOUS
  <1>5. Stands(R, turn, Known(history), Excused, NoOut(rows))
    BY <1>1, <1>2, <1>4, CutOff
  <1>6. /\ status' \in [Turns -> {"absent", "running", "completed", "failed", "cancelled",
                                  "interrupted"}]
        /\ \A t \in Turns \ {turn} : status'[t] = status[t]
    BY <1>1, StatusSet DEF Inv, Types, TypeOK
  <1>7. StateTypes'
    <2>1. faults' \in 0..MaxFaults
      BY <1>1, ConversationAssumption DEF Inv, Types, TypeOK
    <2> QED
      BY <1>1, <1>3, <1>6, <2>1 DEF Inv, Types, TypeOK, StateTypes
  <1>8. Done \cup {turn} \subseteq D
    BY <1>1, <1>3, <1>4, <1>6 DEF Done
  <1>9. Lost \cup TurnFacts(turn) \subseteq L
    BY <1>1, <1>4 DEF Lost, TurnFacts
  <1>10. Kept(history', R, turn, D, L)
    <2>1. CASE history' = history
      <3>1. Done \ {turn} \subseteq D
        BY <1>8
      <3> QED
        BY <1>1, <1>5, <1>9, <2>1, <3>1, HistoryKept
    <2>2. CASE history' \in MaySave
      <3>1. PICK h \in MaySave : h = history'
        BY <2>2
      <3>2. Copy(h)
        BY <1>1, <3>1, MaySaveCopy
      <3> QED
        BY <1>1, <1>5, <1>8, <1>9, <3>1, <3>2, CopyLost
    <2> QED
      BY <1>1, <2>1, <2>2
  <1> QED
    BY <1>1, <1>3, <1>4, <1>7, <1>10, TurnOver

(* The next process rebuilds the history and interrupts the turn.          *)
LEMMA RestartKeeps ==
    ASSUME Inv, Restart
    PROVE  Inv'
  <1>1. /\ faults < MaxFaults /\ faults' = faults + 1
        /\ status' = [t \in Turns |-> IF status[t] = "running" THEN "interrupted" ELSE status[t]]
        /\ history' = Restored(rows', status') /\ grants' = {} /\ unstored' = unstored
        /\ TurnGone /\ turn' = turn /\ dropped' = dropped /\ work' = work
    BY DEF Restart
  <1>2. PICK es \in StoredEvents : rows' = Stored(es)
    BY DEF Restart
  <1>3. turn \in Nat
    BY ConversationAssumption DEF Inv, Types, TypeOK
  <1>4. PICK R, D, L, ends : R = rows' /\ D = Done' /\ L = Lost' /\ ends = status'
    OBVIOUS
  <1>5. Timeline(R, turn) /\ (turn = 0 => R = <<>>)
    <2>1. CASE pc = "idle"
      <3>1. channel = <<>> /\ Partial = {<<>>}
        BY <2>1 DEF Inv, Types, TypeOK, Partial
      <3>2. es = <<>>
        <4>1. \A n \in 0..Len(<<>>) : SubSeq(<<>>, 1, n) = <<>>
          OBVIOUS
        <4>2. <<>> \o <<>> = <<>>
          OBVIOUS
        <4> QED
          BY <3>1, <4>1, <4>2 DEF StoredEvents
      <3>3. Stored(es) = rows
        <4>1. <<>> \in Seq(Events)
          OBVIOUS
        <4>2. PICK r, t : r = rows /\ t = turn
          OBVIOUS
        <4>3. StoredAfter(r, t, <<>>) = r
          BY <4>1, StoredSteps
        <4> QED
          BY <3>2, <4>2, <4>3 DEF Stored
      <3> QED
        BY <1>2, <1>4, <2>1, <3>3 DEF Inv, RecallOK, Types
    <2>2. CASE pc # "idle"
      <3>1. Stands(R, turn, Known(history), Excused, NoOut(rows))
        BY <1>2, <1>4, <2>2, CutOff
      <3>2. turn # 0
        BY <2>2, AtWork DEF Turns
      <3> QED
        BY <3>1, <3>2 DEF Stands
    <2> QED
      BY <2>1, <2>2
  <1>6. StateTypes'
    <2>1. faults' \in 0..MaxFaults
      BY <1>1, ConversationAssumption DEF Inv, Types, TypeOK
    <2> QED
      BY <1>1, <2>1 DEF Inv, Types, TypeOK, StateTypes
  <1>7. Completed(ends) \subseteq D
    BY <1>4 DEF Completed, Done
  <1>8. Kept(Restored(R, ends), R, turn, D, L) /\ (R = <<>> => Restored(R, ends) = <<>>)
    BY <1>3, <1>5, <1>7, RestoredKept
  <1> QED
    BY <1>1, <1>4, <1>5, <1>6, <1>8, TurnOver

(* The call at the head of the queue.                                      *)
QueuedOf(q) == {q[i].fact : i \in DOMAIN q}

LEMMA HeadFacts ==
    ASSUME NEW E, NEW q \in Seq(E), q # <<>>
    PROVE  /\ Head(q) \in E /\ Tail(q) \in Seq(E) /\ Len(q) \in Nat /\ 1 \in DOMAIN q
           /\ Head(q) = q[1] /\ DOMAIN q = 1..Len(q) /\ DOMAIN Tail(q) = 1..(Len(q) - 1)
           /\ \A i \in DOMAIN Tail(q) : i + 1 \in DOMAIN q /\ Tail(q)[i] = q[i + 1]
           /\ \A i \in DOMAIN q : i = 1 \/ (i - 1 \in DOMAIN Tail(q) /\ Tail(q)[i - 1] = q[i])
  OBVIOUS

(* The call at the head of the queue.                                      *)
LEMMA CallFacts ==
    ASSUME Inv, queue # <<>>
    PROVE  /\ Call \in Calls /\ Call.fact \in Facts /\ Call.fact \in Queued
           /\ Call.fact \in TurnFacts(turn) /\ Call.fact \in Made
           /\ Tail(queue) \in Seq(Calls)
           /\ QueuedOf(Tail(queue)) = Queued \ {Call.fact}
           /\ \A i, j \in DOMAIN Tail(queue) :
                i # j => Tail(queue)[i].fact # Tail(queue)[j].fact
           /\ pc \in {"calling", "approving", "running"}
  <1>1. PICK q : q = queue
    OBVIOUS
  <1>2. /\ q \in Seq(Calls) /\ q # <<>> /\ pc \in {"calling", "approving", "running"}
        /\ \A i, j \in DOMAIN q : i # j => q[i].fact # q[j].fact
        /\ Queued \subseteq {f \in Facts : f.turn = turn /\ f.step = step}
    BY <1>1 DEF Inv, Types, TypeOK
  <1>3. PICK r, n : r = Tail(q) /\ n = Len(q)
    OBVIOUS
  <1>4. /\ Head(q) \in Calls /\ r \in Seq(Calls) /\ n \in Nat /\ 1 \in DOMAIN q
        /\ Head(q) = q[1] /\ DOMAIN q = 1..n /\ DOMAIN r = 1..(n - 1)
        /\ \A i \in DOMAIN r : i + 1 \in DOMAIN q /\ r[i] = q[i + 1]
        /\ \A i \in DOMAIN q : i = 1 \/ (i - 1 \in DOMAIN r /\ r[i - 1] = q[i])
    BY <1>2, <1>3, HeadFacts
  <1>5. Queued = QueuedOf(q)
    BY <1>1 DEF Queued, QueuedOf
  <1>6. Call = q[1] /\ Call \in Calls /\ Call.fact \in Queued
    BY <1>1, <1>4, <1>5 DEF Call, QueuedOf
  <1>7. Call.fact \in Facts /\ Call.fact.turn = turn /\ Call.fact.step = step
    BY <1>2, <1>6
  <1>8. Call.fact \in TurnFacts(turn) /\ Call.fact \in Made
    <2>1. step \in Nat /\ pc # "asking"
      BY <1>2, ConversationAssumption DEF Inv, Types, TypeOK
    <2> QED
      BY <1>7, <2>1 DEF TurnFacts, Made, MadeBefore
  <1>9. \A i \in DOMAIN r : i + 1 # 1 /\ i \in Nat
    BY <1>4
  <1>10. QueuedOf(r) = QueuedOf(q) \ {q[1].fact}
    <2>1. ASSUME NEW i \in DOMAIN r
          PROVE  r[i].fact \in QueuedOf(q) /\ r[i].fact # q[1].fact
      <3>1. i + 1 \in DOMAIN q /\ i + 1 # 1 /\ r[i] = q[i + 1]
        BY <1>4, <1>9
      <3>2. q[i + 1].fact # q[1].fact
        BY <1>2, <1>4, <3>1
      <3> QED
        BY <3>1, <3>2 DEF QueuedOf
    <2>2. \A i \in DOMAIN q : q[i].fact # q[1].fact => q[i].fact \in QueuedOf(r)
      BY <1>4 DEF QueuedOf
    <2>3. QueuedOf(r) \subseteq QueuedOf(q) \ {q[1].fact}
      BY <2>1 DEF QueuedOf
    <2>4. QueuedOf(q) \ {q[1].fact} \subseteq QueuedOf(r)
      BY <2>2 DEF QueuedOf
    <2> QED
      BY <2>3, <2>4
  <1>11. ASSUME NEW i \in DOMAIN r, NEW j \in DOMAIN r, i # j PROVE r[i].fact # r[j].fact
    <2>1. i + 1 # j + 1
      BY <1>9, <1>11
    <2> QED
      BY <1>2, <1>4, <2>1
  <1> QED
    BY <1>1, <1>2, <1>3, <1>4, <1>5, <1>6, <1>7, <1>8, <1>10, <1>11

(* The call that runs or waits for its approval has the last row.          *)
LEMMA RunningFacts ==
    ASSUME Inv, pc \in {"approving", "running"}
    PROVE  /\ queue # <<>> /\ Final # <<>> /\ Last(Final) = Row("tool", turn, Call.fact)
           /\ Call.fact \notin ToolFacts(Front(Final))
  <1>1. queue # <<>>
    BY DEF Inv, Types, TypeOK
  <1>2. /\ Final # <<>> /\ Last(Final) = Row("tool", turn, Call.fact)
        /\ ToolFacts(Front(Final)) \cap Queued = {}
    BY DEF Inv, CallsOK, RunningRow
  <1> QED
    BY <1>1, <1>2, CallFacts

(* A turn that fails before its first request.                             *)
LEMMA SetupEnds ==
    ASSUME Inv, SetupFails \/ SetupCompactionFails
    PROVE  Inv'
  <1>1. pc = "setup"
    BY DEF SetupFails, SetupCompactionFails
  <1>2. CASE SetupFails
    BY <1>1, <1>2, EndStored, DropsKeep DEF SetupFails
  <1>3. CASE SetupCompactionFails
    <2>1. PICK w : w = Append(messages, User(Prompt(turn)))
      OBVIOUS
    <2>2. /\ Copy(w) /\ Known(w) = Held
          /\ messages \o <<User(Prompt(turn)), Note>> = Append(w, Note)
      BY <1>1, <2>1, PromptJoins
    <2>3. PICK h : h = Append(w, Note)
      OBVIOUS
    <2>4. Copy(h) /\ Known(h) = Held /\ MarkedBelow(h, turn + 1, Done \ {turn})
      BY <1>1, <2>2, <2>3, NoteEnds
    <2>5. Saves("failed", h, <<>>)
      BY <1>3, <2>2, <2>3 DEF SetupCompactionFails
    <2>6. /\ Stands(Stored(channel \o <<>>), turn, Known(history), Excused, NoOut(rows))
          /\ Agrees(Known(h), Stored(channel \o <<>>), Lost)
      BY <1>1, <2>4, EndStored, AtWork
    <2> QED
      BY <1>1, <2>4, <2>5, <2>6, SavesKeep
  <1> QED
    BY <1>2, <1>3

(* A turn that fails between requests, at a repeated call or its deadline. *)
LEMMA LoopEnds ==
    ASSUME Inv, LoopFails \/ RepeatedCall \/ DeadlinePasses
    PROVE  Inv'
  <1>1. pc # "idle"
    BY DEF LoopFails, RepeatedCall, MayCall, DeadlinePasses
  <1>2. CASE Drops(<<>>)
    BY <1>1, <1>2, EndStored, DropsKeep
  <1>3. CASE Drops(<<SteeringApplied>>)
    <2>1. Stored(channel \o <<SteeringApplied>>) = Store(Final, turn, SteeringApplied)
      BY <1>1, EndStored, EventTypes
    <2>2. Stands(Store(Final, turn, SteeringApplied), turn, Known(history), Excused, NoOut(rows))
      BY <1>1, AtWork, StandsStore
    <2> QED
      BY <1>1, <1>3, <2>1, <2>2, DropsKeep
  <1> QED
    BY <1>2, <1>3 DEF LoopFails, RepeatedCall, DeadlinePasses

(* A request that fails leaves its partial text and the note.              *)
LEMMA RequestEnds ==
    ASSUME Inv, ProviderFails
    PROVE  Inv'
  <1>1. pc = "asking"
    BY DEF ProviderFails
  <1>2. PICK partial \in Partial : Saves("failed", Interrupted(partial), partial)
    BY DEF ProviderFails
  <1>3. /\ Copy(Interrupted(partial)) /\ Known(Interrupted(partial)) = Known(messages)
        /\ MarkedBelow(Interrupted(partial), turn + 1, Done \ {turn})
    BY <1>1, InterruptedCopy
  <1>4. Held = Known(messages)
    BY <1>1 DEF Held
  <1>5. partial = <<>> \/ partial = <<TextSent>>
    BY DEF Partial
  <1>6. PICK R, ms : R = Stored(channel \o partial) /\ ms = Interrupted(partial)
    OBVIOUS
  <1>7. R = Final \/ R = Store(Final, turn, TextSent)
    BY <1>1, <1>5, <1>6, EndStored, EventTypes
  <1>8. /\ Stands(R, turn, Known(history), Excused, NoOut(rows))
        /\ Agrees(Known(messages), R, Lost)
    <2>1. CASE R = Final
      BY <1>1, <1>4, <2>1, AtWork
    <2>2. CASE R = Store(Final, turn, TextSent)
      BY <1>1, <1>4, <2>2, AtWork, StandsStore, AgreesStore
    <2> QED
      BY <1>7, <2>1, <2>2
  <1> QED
    BY <1>1, <1>2, <1>3, <1>6, <1>8, SavesKeep

(* A turn that completes saves its copy.                                   *)
LEMMA CompletedKeeps ==
    ASSUME Inv, pc \in {"closing", "finishing"}, Saves("completed", messages, <<>>)
    PROVE  Inv'
  <1>1. Copy(messages) /\ Held = Known(messages)
    BY MessagesCopy
  <1>2. /\ Stands(Stored(channel \o <<>>), turn, Known(history), Excused, NoOut(rows))
        /\ Agrees(Known(messages), Stored(channel \o <<>>), Lost)
    BY <1>1, EndStored, AtWork
  <1>3. PICK ms : ms = messages
    OBVIOUS
  <1> QED
    BY <1>1, <1>2, <1>3, SavesKeep

(* A denial is stored as the call's output, and then replayed.             *)
LEMMA DeclinesKeeps ==
    ASSUME Inv, Declines
    PROVE  Inv'
  <1>1. pc = "approving" /\ Cancels(<<Output(Call.fact, "text")>>)
    BY DEF Declines
  <1>2. PICK f : f = Call.fact
    OBVIOUS
  <1>3. /\ f \in Facts /\ f \in TurnFacts(turn) /\ "text" \in Outs
        /\ Final # <<>> /\ Last(Final) = Row("tool", turn, f) /\ f \notin ToolFacts(Front(Final))
    BY <1>1, <1>2, RunningFacts, CallFacts DEF Outs
  <1>4. Stands(Store(Final, turn, Output(f, "text")), turn, Known(history), Excused, NoOut(rows))
    BY <1>1, <1>3, AtWork, StandsOutput
  <1>5. Stored(channel \o <<Output(f, "text")>>) = Store(Final, turn, Output(f, "text"))
    BY <1>1, <1>3, EndStored, EventTypes
  <1> QED
    BY <1>1, <1>2, <1>4, <1>5, CancelsKeep

(* A stop may come anywhere.                                               *)
LEMMA StopKeeps ==
    ASSUME Inv, StopTurn
    PROVE  Inv'
  <1>1. PICK partial \in Partial : pc # "idle" /\ Cancels(partial)
    BY DEF StopTurn
  <1>2. channel \o partial \in StoredEvents
    BY DEF StoredEvents
  <1>3. Stands(Stored(channel \o partial), turn, Known(history), Excused, NoOut(rows))
    BY <1>1, <1>2, CutOff
  <1> QED
    BY <1>1, <1>3, CancelsKeep

-----------------------------------------------------------------------------
(* A turn that goes on.                                                    *)

(* h may be the history, ms the copy while the calls in Q are queued and   *)
(* those in M may be made.                                                 *)
HistoryOK(h) ==
    /\ Context(h) /\ InOrder(h) /\ Below(h, turn) /\ AllReplied(h, NoOut(rows))
    /\ Mentions(h, UpTo(turn - 1)) /\ MarkedBelow(h, turn, Done)
    /\ Known(h) \ Excused = Known(history) \ Excused
CopyOK(ms, Q, M) ==
    /\ Context(ms) /\ InOrder(ms) /\ Below(ms, turn + 1) /\ AllReplied(ms, NoOut(rows) \cup Q)
    /\ Mentions(ms, M) /\ Waiting(ms, Q) /\ MarkedBelow(ms, turn, Done)
    /\ Known(ms) \ Excused = Known(history) \ Excused

StandsNow(R) == Stands(R, turn, Known(history), Excused, NoOut(rows))

(* The history and the copy of a running turn.                             *)
LEMMA CopyNow ==
    ASSUME Inv, pc # "idle"
    PROVE  /\ HistoryOK(history) /\ CopyOK(messages, Queued, Made)
           /\ pc # "setup" => Held = Known(messages)
  <1>1. turn \in Nat
    BY AtWork
  <1>2. HistoryOK(history)
    BY DEF Inv, ContextsOK, RepliesOK, MarksOK, HistoryOK
  <1>3. Below(messages, turn + 1)
    BY <1>1, Monotone DEF Inv, ContextsOK
  <1>4. CopyOK(messages, Queued, Made)
    BY <1>3 DEF Inv, ContextsOK, RepliesOK, MarksOK, RecallOK, CopyOK
  <1> QED
    BY <1>2, <1>4 DEF Held

(* What a step of a running turn has to show.                              *)
LEMMA WorkGoesOn ==
    ASSUME Inv, pc # "idle", pc' \notin {"idle", "setup"},
           UNCHANGED <<rows, turn, status, dropped, unstored>>,
           Types', CallsOK', HistoryOK(history'), CopyOK(messages', Queued', Made'),
           \A R \in Timelines' : R \in Timelines \/ StandsNow(R),
           Agrees(Known(messages'), Final', Lost)
    PROVE  Inv'
  <1>1. Lost' = Lost /\ Done' = Done /\ Excused' = Excused
    BY DEF Lost, Done, Excused
  <1>2. /\ rows' = rows /\ turn' = turn
    OBVIOUS
  <1>3. Held' = Known(messages')
    BY DEF Held
  <1>4. Timeline(rows, turn) /\ NoOut(rows) \cap TurnFacts(turn) = {}
    BY DEF Inv, RecallOK
  <1>5. ASSUME NEW R \in Timelines'
        PROVE  Stands(R, turn, Known(history'), Excused, NoOut(rows))
    <2>1. StandsNow(R)
      BY <1>5 DEF Inv, RecallOK, StandsNow
    <2>2. Known(history') \ Excused = Known(history) \ Excused
      BY DEF HistoryOK
    <2> QED
      BY <2>1, <2>2 DEF StandsNow, Stands
  <1>6. Known(messages') \ Excused = Known(history') \ Excused
    BY DEF HistoryOK, CopyOK
  <1>7. RecallOK'
    BY <1>1, <1>2, <1>3, <1>4, <1>5, <1>6 DEF RecallOK
  <1>8. ContextsOK'
    BY <1>2 DEF ContextsOK, HistoryOK, CopyOK
  <1>9. RepliesOK'
    BY <1>2 DEF RepliesOK, HistoryOK, CopyOK
  <1>10. MarksOK'
    BY <1>1, <1>2 DEF MarksOK, HistoryOK, CopyOK
  <1> QED
    BY <1>7, <1>8, <1>9, <1>10 DEF Inv

(* The calls a turn may have made grow with its requests.                  *)
LEMMA MadeStays ==
    ASSUME Inv, pc # "idle", turn' = turn
    PROVE  /\ step' = step /\ pc \notin {"idle", "asking"} /\ pc' # "asking" => Made' = Made
           /\ step' = step + 1 /\ pc # "asking" /\ pc' = "asking" => Made' = Made
           /\ step' = step /\ pc = "asking" /\ pc' # "asking" =>
                /\ Made \subseteq Made'
                /\ \A f \in Facts : f.turn = turn /\ f.step = step => f \in Made' /\ f \notin Made
  <1>1. step \in Nat /\ turn \in Nat
    BY AtWork, ConversationAssumption DEF Inv, Types, TypeOK
  <1>2. step' = step /\ pc \notin {"idle", "asking"} /\ pc' # "asking" => Made' = Made
    BY DEF Made, MadeBefore
  <1>3. step' = step + 1 /\ pc # "asking" /\ pc' = "asking" => Made' = Made
    BY DEF Made, MadeBefore
  <1>4. ASSUME step' = step, pc = "asking", pc' # "asking"
        PROVE  /\ Made \subseteq Made'
               /\ \A f \in Facts : f.turn = turn /\ f.step = step => f \in Made' /\ f \notin Made
    <2>1. Made = MadeBefore(turn, step) /\ Made' = MadeBefore(turn, step + 1)
      BY <1>4 DEF Made, MadeBefore
    <2>2. \A f \in Facts : f.turn \in Nat /\ f.step \in Nat
      BY DEF Facts, Turns
    <2> QED
      BY <1>1, <2>1, <2>2 DEF MadeBefore
  <1> QED
    BY <1>2, <1>3, <1>4

(* New summaries.                                                          *)
LEMMA SummaryFacts ==
    ASSUME NEW fs \in SUBSET Facts, NEW w,
           w = <<Summary(fs)>> \/ w = Append(<<Summary(fs)>>, Continuation)
    PROVE  /\ Context(w) /\ Known(w) = fs /\ Quiet(w) /\ InOrder(w)
           /\ \A X : AllReplied(w, X)
           /\ \A F : Mentions(w, F)
           /\ \A T : Below(w, T)
           /\ \A T, D : MarkedBelow(w, T, D)
           /\ Waiting(w, {})
  <1>1. PICK s, c, v : s = Summary(fs) /\ c = Continuation /\ v = <<s>>
    OBVIOUS
  <1>2. /\ Shaped(s) /\ s.role = "summary" /\ s.knows = fs /\ s.calls = {}
        /\ Shaped(c) /\ c.role = "continuation" /\ c.knows = {} /\ c.calls = {}
    BY <1>1, MessageShapes DEF Summary, Continuation
  <1>3. Context(v) /\ Known(v) = fs /\ Quiet(v) /\ \A F : Mentions(v, F)
    BY <1>1, <1>2, OneMessage
  <1>4. Context(w) /\ Known(w) = fs /\ Quiet(w) /\ \A F : Mentions(w, F)
    <2>1. CASE w = v
      BY <1>3, <2>1
    <2>2. CASE w = Append(v, c)
      <3>1. Context(w) /\ Known(w) = Known(v) \cup c.knows
        BY <1>2, <1>3, <2>2, AppendContext
      <3>2. ASSUME NEW F PROVE Mentions(w, F)
        <4>1. Mentions(v, F) /\ c.calls \subseteq F /\ (c.role = "tool" => c.knows \subseteq F)
          BY <1>2, <1>3
        <4> QED
          BY <1>2, <1>3, <2>2, <4>1, AppendContext
      <3>3. Quiet(w)
        <4>1. v \in Seq(Messages) /\ c \in Messages
          BY <1>2, <1>3 DEF Context, Shaped
        <4>2. /\ DOMAIN v = 1..Len(v) /\ DOMAIN w = 1..(Len(v) + 1)
              /\ Len(v) \in Nat
              /\ \A i \in 1..Len(v) : w[i] = v[i]
              /\ w[Len(v) + 1] = c
          BY <2>2, <4>1, AppendFacts
        <4>3. \A i \in 1..(Len(v) + 1) : i \in 1..Len(v) \/ i = Len(v) + 1
          BY <4>2
        <4> QED
          BY <1>2, <1>3, <4>2, <4>3 DEF Quiet
      <3> QED
        BY <1>2, <1>3, <3>1, <3>2, <3>3
    <2> QED
      BY <1>1, <2>1, <2>2
  <1>5. Waiting(w, {})
    BY DEF Waiting
  <1> QED
    BY <1>4, <1>5, QuietFacts

(* The call f of Q is answered ...                                         *)
LEMMA AnswerGoes ==
    ASSUME NEW ms, Context(ms), NEW X, NEW Q, AllReplied(ms, X \cup Q), Waiting(ms, Q),
           NEW f \in Q, f \in Facts
    PROVE  /\ AllReplied(Append(ms, Answer(f)), X \cup (Q \ {f}))
           /\ Waiting(Append(ms, Answer(f)), Q \ {f})
  <1>1. PICK m, w : m = Answer(f) /\ w = Append(ms, m)
    OBVIOUS
  <1>2. Shaped(m) /\ m \in Messages /\ m.calls = {} /\ ~FromUser(m)
    BY <1>1, MessageShapes DEF Shaped, Answer, FromUser
  <1>3. ms \in Seq(Messages)
    BY DEF Context
  <1>4. PICK n \in Nat :
           /\ n = Len(ms) /\ DOMAIN ms = 1..n /\ DOMAIN w = 1..(n + 1) /\ Len(w) = n + 1
           /\ \A i \in 1..n : w[i] = ms[i]
           /\ w[n + 1] = m
    BY <1>1, <1>2, <1>3, AppendFacts
  <1>5. \A i \in 1..(n + 1) : i \in 1..n \/ i = n + 1
    OBVIOUS
  <1>6. ASSUME NEW i \in 1..(n + 1), NEW g \in w[i].calls, g \notin X, g \notin Q \ {f}
        PROVE  Replied(w, i, g)
    <2>1. i \in 1..n /\ g \in ms[i].calls
      BY <1>2, <1>4, <1>5, <1>6
    <2>2. CASE g = f
      <3>1. \A k \in i..n : ~FromUser(ms[k])
        BY <1>4, <2>1, <2>2 DEF Waiting
      <3>2. \A k \in i..(n + 1) : (k \in i..n /\ k \in 1..n) \/ k = n + 1
        BY <2>1
      <3>3. \A k \in i..(n + 1) : ~FromUser(w[k])
        BY <1>2, <1>4, <3>1, <3>2
      <3>4. n + 1 \in (i + 1)..(n + 1)
        BY <2>1
      <3> QED
        BY <1>1, <1>4, <2>2, <3>3, <3>4 DEF Replied
    <2>3. CASE g # f
      <3>1. Replied(ms, i, g)
        BY <1>4, <1>6, <2>1, <2>3 DEF AllReplied
      <3>2. PICK j \in (i + 1)..n : ms[j] = Answer(g) /\ \A k \in i..j : ~FromUser(ms[k])
        BY <1>4, <3>1 DEF Replied
      <3>3. j \in 1..n /\ j \in (i + 1)..(n + 1) /\ \A k \in i..j : k \in 1..n
        BY <2>1, <3>2
      <3>4. w[j] = Answer(g) /\ \A k \in i..j : ~FromUser(w[k])
        BY <1>4, <3>2, <3>3
      <3> QED
        BY <1>4, <3>3, <3>4 DEF Replied
    <2> QED
      BY <2>2, <2>3
  <1>7. AllReplied(w, X \cup (Q \ {f}))
    BY <1>4, <1>6 DEF AllReplied
  <1>8. ASSUME NEW i \in 1..(n + 1), NEW g \in w[i].calls \cap (Q \ {f}), NEW k \in i..(n + 1)
        PROVE  ~FromUser(w[k])
    <2>1. i \in 1..n /\ g \in ms[i].calls
      BY <1>2, <1>4, <1>5, <1>8
    <2>2. (k \in i..n /\ k \in 1..n) \/ k = n + 1
      BY <2>1
    <2> QED
      BY <1>2, <1>4, <2>1, <2>2 DEF Waiting
  <1>9. ASSUME NEW i \in 1..(n + 1), NEW g \in Q \ {f} PROVE w[i] # Answer(g)
    <2>1. Answer(g).knows = {g} /\ m.knows = {f}
      BY <1>1 DEF Answer
    <2>2. m # Answer(g)
      BY <1>9, <2>1
    <2> QED
      BY <1>4, <1>5, <2>2 DEF Waiting
  <1>10. Waiting(w, Q \ {f})
    BY <1>4, <1>8, <1>9 DEF Waiting
  <1> QED
    BY <1>1, <1>7, <1>10

(* ... or calls that were not made before are made.                        *)
LEMMA CallsWait ==
    ASSUME NEW ms, Context(ms), NEW M, Mentions(ms, M), NEW cs \in SUBSET Facts,
           cs \cap M = {}
    PROVE  Waiting(Append(ms, Assistant(cs)), cs)
  <1>1. PICK m, w : m = Assistant(cs) /\ w = Append(ms, m)
    OBVIOUS
  <1>2. Shaped(m) /\ m \in Messages /\ m.role = "assistant" /\ ~FromUser(m)
    BY <1>1, MessageShapes DEF Shaped, Assistant, FromUser
  <1>3. ms \in Seq(Messages)
    BY DEF Context
  <1>4. PICK n \in Nat :
           /\ n = Len(ms) /\ DOMAIN ms = 1..n /\ DOMAIN w = 1..(n + 1) /\ Len(w) = n + 1
           /\ \A i \in 1..n : w[i] = ms[i]
           /\ w[n + 1] = m
    BY <1>1, <1>2, <1>3, AppendFacts
  <1>5. \A i \in 1..(n + 1) : i \in 1..n \/ i = n + 1
    OBVIOUS
  <1>6. \A i \in 1..n : ms[i].calls \cap cs = {}
    BY <1>4 DEF Mentions
  <1>7. ASSUME NEW i \in 1..(n + 1), NEW g \in w[i].calls \cap cs, NEW k \in i..(n + 1)
        PROVE  ~FromUser(w[k])
    <2>1. i = n + 1
      BY <1>4, <1>5, <1>6, <1>7
    <2>2. k = n + 1
      BY <2>1
    <2> QED
      BY <1>2, <1>4, <2>2
  <1>8. ASSUME NEW i \in 1..(n + 1), NEW g \in cs PROVE w[i] # Answer(g)
    <2>1. Answer(g).knows = {g} /\ Answer(g).role = "tool"
      BY DEF Answer
    <2>2. m # Answer(g)
      BY <1>2, <2>1
    <2>3. CASE i \in 1..n
      <3>1. ms[i].role = "tool" => ms[i].knows \subseteq M
        BY <1>4, <2>3 DEF Mentions
      <3> QED
        BY <1>4, <1>8, <2>1, <2>3, <3>1
    <2> QED
      BY <1>4, <1>5, <2>2, <2>3
  <1> QED
    BY <1>1, <1>4, <1>7, <1>8 DEF Waiting

(* An answer takes its call off the queue.                                 *)
LEMMA CopyAnswers ==
    ASSUME Inv, queue # <<>>, NEW w, w = Append(messages, Answer(Call.fact))
    PROVE  /\ CopyOK(w, QueuedOf(Tail(queue)), Made)
           /\ Known(w) = Known(messages) \cup {Call.fact}
  <1>1. PICK f, ms, Q, X, m :
           /\ f = Call.fact /\ ms = messages /\ Q = Queued /\ X = NoOut(rows) /\ m = Answer(f)
    OBVIOUS
  <1>2. /\ f \in Q /\ f \in Facts /\ f \in Made /\ f \in TurnFacts(turn)
        /\ QueuedOf(Tail(queue)) = Q \ {f} /\ pc # "idle"
    BY <1>1, CallFacts
  <1>3. CopyOK(ms, Q, Made)
    BY <1>1, <1>2, CopyNow
  <1>4. w = Append(ms, m)
    BY <1>1
  <1>5. AllReplied(w, X \cup (Q \ {f})) /\ Waiting(w, Q \ {f})
    <2>1. Context(ms) /\ AllReplied(ms, X \cup Q) /\ Waiting(ms, Q)
      BY <1>1, <1>3 DEF CopyOK
    <2>2. /\ AllReplied(Append(ms, Answer(f)), X \cup (Q \ {f}))
          /\ Waiting(Append(ms, Answer(f)), Q \ {f})
      BY <1>2, <2>1, AnswerGoes
    <2> QED
      BY <1>1, <1>4, <2>2
  <1>6. Shaped(m) /\ m.role = "tool" /\ m.knows = {f} /\ m.calls = {}
    BY <1>1, <1>2, MessageShapes DEF Answer
  <1>7. Context(w) /\ Known(w) = Known(ms) \cup {f} /\ Mentions(w, Made)
    <2>1. Context(ms) /\ Mentions(ms, Made)
      BY <1>3 DEF CopyOK
    <2>2. m.calls \subseteq Made /\ m.knows \subseteq Made
      BY <1>2, <1>6
    <2>3. Context(w) /\ Known(w) = Known(ms) \cup m.knows
      BY <1>4, <1>6, <2>1, AppendContext
    <2>4. Mentions(w, Made)
      BY <1>4, <1>6, <2>1, <2>2, AppendContext
    <2> QED
      BY <1>6, <2>3, <2>4
  <1>8. InOrder(w) /\ Below(w, turn + 1) /\ MarkedBelow(w, turn, Done)
    BY <1>3, <1>4, <1>6, AppendOther DEF CopyOK
  <1>9. Known(w) \ Excused = Known(history) \ Excused
    BY <1>2, <1>3, <1>7 DEF CopyOK, Excused
  <1> QED
    BY <1>1, <1>2, <1>5, <1>7, <1>8, <1>9 DEF CopyOK

(* A response puts calls on the queue that were never made before.         *)
LEMMA CopyCalls ==
    ASSUME Inv, pc = "asking", NEW cs \in SUBSET Facts, cs \cap Made = {},
           NEW M, Made \cup cs \subseteq M, NEW w, w = Append(messages, Assistant(cs))
    PROVE  CopyOK(w, cs, M) /\ Known(w) = Known(messages)
  <1>1. PICK ms, m, X : ms = messages /\ m = Assistant(cs) /\ X = NoOut(rows)
    OBVIOUS
  <1>2. Queued = {}
    BY NoQueue
  <1>3. CopyOK(ms, {}, Made)
    BY <1>1, <1>2, CopyNow
  <1>4. w = Append(ms, m)
    BY <1>1
  <1>5. /\ Context(ms) /\ AllReplied(ms, X) /\ Mentions(ms, Made) /\ InOrder(ms)
        /\ Below(ms, turn + 1) /\ MarkedBelow(ms, turn, Done)
        /\ Known(ms) \ Excused = Known(history) \ Excused
    BY <1>1, <1>3 DEF CopyOK
  <1>6. Shaped(m) /\ m.role = "assistant" /\ m.knows = {} /\ m.calls = cs
    BY <1>1, MessageShapes DEF Assistant
  <1>7. AllReplied(ms, X \cup cs) /\ Mentions(ms, M)
    <2>1. turn \in Nat /\ X \subseteq X \cup cs /\ Made \subseteq M
      BY AtWork
    <2> QED
      BY <1>5, <2>1, Monotone
  <1>8. Context(w) /\ Known(w) = Known(ms)
    <2>1. Context(ms) /\ Shaped(m) /\ w = Append(ms, m)
      BY <1>4, <1>5, <1>6
    <2>2. Context(w) /\ Known(w) = Known(ms) \cup m.knows
      BY <2>1, AppendContext
    <2> QED
      BY <1>6, <2>2
  <1>9. AllReplied(w, X \cup cs)
    BY <1>4, <1>5, <1>6, <1>7, AppendContext
  <1>10. Mentions(w, M)
    <2>1. m.calls \subseteq M /\ (m.role = "tool" => m.knows \subseteq M)
      BY <1>6
    <2> QED
      BY <1>4, <1>5, <1>6, <1>7, <2>1, AppendContext
  <1>11. InOrder(w) /\ Below(w, turn + 1) /\ MarkedBelow(w, turn, Done)
    BY <1>4, <1>5, <1>6, AppendOther
  <1>12. Waiting(w, cs)
    BY <1>1, <1>4, <1>5, CallsWait
  <1> QED
    BY <1>1, <1>5, <1>8, <1>9, <1>10, <1>11, <1>12 DEF CopyOK

(* A prompt or steering joins a copy that has no open call.                *)
LEMMA CopyInput ==
    ASSUME Inv, pc # "idle", Queued = {}, NEW f \in {Prompt(turn), Steered(turn)},
           NEW w, w = Append(messages, User(f))
    PROVE  CopyOK(w, {}, Made) /\ Known(w) = Known(messages) \cup {f}
  <1>1. PICK ms, m, X : ms = messages /\ m = User(f) /\ X = NoOut(rows)
    OBVIOUS
  <1>2. turn \in Turns
    BY AtWork
  <1>3. CopyOK(ms, {}, Made)
    BY <1>1, CopyNow
  <1>4. w = Append(ms, m)
    BY <1>1
  <1>5. /\ Context(ms) /\ AllReplied(ms, X) /\ Mentions(ms, Made) /\ InOrder(ms)
        /\ Below(ms, turn + 1) /\ MarkedBelow(ms, turn, Done)
        /\ Known(ms) \ Excused = Known(history) \ Excused
    BY <1>1, <1>3 DEF CopyOK
  <1>6. /\ Shaped(m) /\ m.role = "user" /\ m.knows = {f} /\ m.calls = {} /\ UserOf(m, turn)
        /\ f \in TurnFacts(turn)
    <2>1. /\ Prompt(turn) \in Facts /\ Steered(turn) \in Facts
          /\ Shaped(User(Prompt(turn))) /\ Shaped(User(Steered(turn)))
          /\ UserOf(User(Prompt(turn)), turn) /\ UserOf(User(Steered(turn)), turn)
      BY <1>2, MessageShapes
    <2>2. m.role = "user" /\ m.knows = {f} /\ m.calls = {}
      BY <1>1 DEF User
    <2>3. Prompt(turn).turn = turn /\ Steered(turn).turn = turn
      BY DEF Prompt, Steered
    <2> QED
      BY <1>1, <2>1, <2>2, <2>3 DEF TurnFacts
  <1>7. Context(w) /\ Known(w) = Known(ms) \cup {f} /\ AllReplied(w, X) /\ Mentions(w, Made)
    BY <1>4, <1>5, <1>6, AppendContext
  <1>8. InOrder(w) /\ Below(w, turn + 1) /\ MarkedBelow(w, turn, Done)
    BY <1>2, <1>4, <1>5, <1>6, AppendInput
  <1>9. Known(w) \ Excused = Known(history) \ Excused
    BY <1>5, <1>6, <1>7 DEF Excused
  <1>10. Waiting(w, {})
    BY DEF Waiting
  <1> QED
    BY <1>1, <1>7, <1>8, <1>9, <1>10 DEF CopyOK

(* Images join when the batch is answered.                                 *)
LEMMA CopyObservations ==
    ASSUME Inv, pc # "idle", Queued = {}, NEW w, w = messages \o observations
    PROVE  CopyOK(w, {}, Made) /\ Known(w) = Known(messages)
  <1>1. PICK ms, os, X : ms = messages /\ os = observations /\ X = NoOut(rows)
    OBVIOUS
  <1>2. CopyOK(ms, {}, Made)
    BY <1>1, CopyNow
  <1>3. /\ Context(ms) /\ AllReplied(ms, X) /\ Mentions(ms, Made) /\ InOrder(ms)
        /\ Below(ms, turn + 1) /\ MarkedBelow(ms, turn, Done)
        /\ Known(ms) \ Excused = Known(history) \ Excused
    BY <1>1, <1>2 DEF CopyOK
  <1>4. os \in Seq({Observation})
    BY <1>1 DEF Inv, Types, TypeOK
  <1>5. \A i \in DOMAIN os : os[i] = Observation
    BY <1>4
  <1>6. os \in Seq(Messages)
    <2>1. Observation \in Messages
      BY MessageShapes DEF Shaped
    <2> QED
      BY <1>4, <2>1
  <1>7. Observation.role = "observation" /\ Observation.calls = {} /\ Observation.knows = {}
    BY DEF Observation
  <1>8. Context(os) /\ Quiet(os) /\ Known(os) = {} /\ Mentions(os, Made)
    BY <1>5, <1>6, <1>7, MessageShapes DEF Context, Quiet, Known, Mentions
  <1>9. Context(w) /\ Known(w) = Known(ms)
    <2>1. Context(w) /\ Known(w) = Known(ms) \cup Known(os)
      BY <1>1, <1>3, <1>8, JoinContext
    <2> QED
      BY <1>8, <2>1
  <1>10. /\ AllReplied(w, X) /\ InOrder(w) /\ Below(w, turn + 1) /\ MarkedBelow(w, turn, Done)
    BY <1>1, <1>3, <1>8, JoinQuiet
  <1>11. Mentions(w, Made)
    BY <1>1, <1>3, <1>8, JoinMentions
  <1>12. Waiting(w, {})
    BY DEF Waiting
  <1> QED
    BY <1>1, <1>3, <1>9, <1>10, <1>11, <1>12 DEF CopyOK

-----------------------------------------------------------------------------
(* The steps of a turn.                                                    *)

QueueTypes ==
    /\ queue \in Seq(Calls)
    /\ queue # <<>> => pc \in {"calling", "approving", "running"}
    /\ pc \in {"approving", "running"} => queue # <<>>
    /\ \A i, j \in DOMAIN queue : i # j => queue[i].fact # queue[j].fact
    /\ Queued \subseteq {f \in Facts : f.turn = turn /\ f.step = step}

LEMMA TypesNow ==
    ASSUME Inv
    PROVE  QueueTypes /\ LoopTypes /\ StateTypes
  BY DEF Inv, Types, TypeOK, QueueTypes, LoopTypes, StateTypes

LEMMA WorkTypes ==
    ASSUME Inv, pc # "idle",
           pc' \in {"setup", "loop", "compacted", "asking", "closing", "finishing", "calling",
                    "approving", "running"},
           turn' = turn, QueueTypes', LoopTypes', StateTypes',
           history' \in Seq(Messages), messages' \in Seq(Messages), channel' \in Seq(Events)
    PROVE  Types'
  <1>1. turn \in 0..MaxTurns /\ turn # 0
    BY AtWork DEF Turns
  <1>2. TypeOK'
    BY <1>1 DEF TypeOK, QueueTypes, LoopTypes, StateTypes
  <1> QED
    BY <1>1, <1>2 DEF Types, QueueTypes

LEMMA NoQueueTypes ==
    ASSUME queue' = <<>>, pc' \notin {"approving", "running"}
    PROVE  QueueTypes' /\ Queued' = {}
  <1>1. <<>> \in Seq(Calls) /\ DOMAIN <<>> = {}
    OBVIOUS
  <1> QED
    BY <1>1 DEF QueueTypes, Queued

(* A call is answered in the copy and in the timeline.                     *)
LEMMA AnsweredKeeps ==
    ASSUME Inv, queue # <<>>, NEW es, NEW out \in Outs, Answered(es, out),
           \/ es = <<>> /\ pc \in {"approving", "running"}
           \/ es = <<Proposed(Call.fact)>> /\ pc = "calling",
           observations' \in Seq({Observation}), lastCall' \in Tools \cup {"none"},
           grants' \subseteq Grantable
    PROVE  Inv'
  <1>1. PICK f, w, t, F : /\ f = Call.fact /\ w = Append(messages, Answer(Call.fact))
                          /\ t = turn /\ F = Final
    OBVIOUS
  <1>2. /\ f \in Facts /\ f \in TurnFacts(t) /\ f \in Queued /\ f \in Made
        /\ Tail(queue) \in Seq(Calls) /\ QueuedOf(Tail(queue)) = Queued \ {f}
        /\ \A i, j \in DOMAIN Tail(queue) :
             i # j => Tail(queue)[i].fact # Tail(queue)[j].fact
        /\ pc \in {"calling", "approving", "running"} /\ pc # "idle"
    BY <1>1, CallFacts
  <1>3. /\ channel' = channel \o (es \o <<Output(f, out)>>)
        /\ messages' = w /\ queue' = Tail(queue) /\ pc' = "calling"
        /\ UNCHANGED <<history, step, turn, steering, rows, status, dropped, unstored, faults,
                       work>>
    BY <1>1 DEF Answered, Emit, boundVars
  <1>4. CopyOK(w, QueuedOf(Tail(queue)), Made) /\ Known(w) = Known(messages) \cup {f}
    BY <1>1, CopyAnswers
  <1>5. Queued' = Queued \ {f} /\ Queued' = QueuedOf(Tail(queue))
    BY <1>2, <1>3 DEF Queued, QueuedOf
  <1>6. Made' = Made
    BY <1>2, <1>3, MadeStays
  <1>7. HistoryOK(history) /\ Held = Known(messages)
    BY <1>2, CopyNow
  <1>8. /\ t \in Turns /\ Timeline(F, t) /\ Agrees(Known(messages), F, Lost)
        /\ Stands(F, t, Known(history), Excused, NoOut(rows))
        /\ TurnFacts(t) \subseteq Excused /\ channel \in Seq(Events)
    BY <1>1, <1>2, <1>7, AtWork
  <1>9. Proposed(f) \in Events /\ Output(f, out) \in Events
    BY <1>2, EventTypes
  <1>10. ToolFacts(F) \subseteq Made
    BY <1>1, <1>2 DEF Inv, CallsOK
  <1>11. /\ channel' \in Seq(Events)
         /\ \A R \in Timelines' : R \in Timelines \/ StandsNow(R)
         /\ Agrees(Known(w), Final', Lost)
         /\ ToolFacts(Final') \subseteq Made /\ ToolFacts(Final') \cap (Queued \ {f}) = {}
    <2>1. CASE es = <<>> /\ pc \in {"approving", "running"}
      <3>1. channel' = Append(channel, Output(f, out))
        <4>1. PICK c, e : c = channel /\ e = Output(f, out)
          OBVIOUS
        <4>2. c \o (<<>> \o <<e>>) = Append(c, e)
          BY <1>8, <1>9, <4>1, JoinOne
        <4> QED
          BY <1>3, <2>1, <4>1, <4>2
      <3>2. /\ channel' \in Seq(Events) /\ Final' = Store(F, t, Output(f, out))
            /\ Timelines' \subseteq Timelines \cup {Final'}
        BY <1>1, <1>3, <1>8, <1>9, <3>1, SendsOne
      <3>3. /\ F # <<>> /\ Last(F) = Row("tool", t, f) /\ f \notin ToolFacts(Front(F))
        BY <1>1, <2>1, RunningFacts
      <3>4. Stands(Store(F, t, Output(f, out)), t, Known(history), Excused, NoOut(rows))
        BY <1>2, <1>8, <3>3, StandsOutput
      <3>5. /\ Agrees(Known(messages) \cup {f}, Store(F, t, Output(f, out)), Lost)
            /\ ToolFacts(Store(F, t, Output(f, out))) = ToolFacts(Front(F)) \cup {f}
            /\ ToolFacts(Store(F, t, Output(f, out))) = ToolFacts(F)
        <4>1. PICK known, lost : known = Known(messages) /\ lost = Lost
          OBVIOUS
        <4>2. /\ t \in Turns /\ Timeline(F, t) /\ Agrees(known, F, lost)
              /\ f \in TurnFacts(t) /\ out \in Outs
              /\ F # <<>> /\ Last(F) = Row("tool", t, f) /\ f \notin ToolFacts(Front(F))
          BY <1>2, <1>8, <3>3, <4>1
        <4>3. PICK Q : Q = Store(F, t, Output(f, out))
          OBVIOUS
        <4>4. Agrees(known \cup {f}, Q, lost)
          BY <4>2, <4>3, AgreesOutput
        <4>5. ToolFacts(Q) = ToolFacts(Front(F)) \cup {f} /\ ToolFacts(Q) = ToolFacts(F)
          BY <4>2, <4>3, OutputTools
        <4> QED
          BY <4>1, <4>3, <4>4, <4>5
      <3>6. ToolFacts(Front(F)) \cap Queued = {}
        BY <1>1, <2>1 DEF Inv, CallsOK
      <3>7. \A R \in Timelines' : R \in Timelines \/ StandsNow(R)
        BY <1>1, <3>2, <3>4 DEF StandsNow
      <3> QED
        BY <1>4, <1>10, <3>2, <3>5, <3>6, <3>7
    <2>2. CASE es = <<Proposed(f)>> /\ pc = "calling"
      <3>1. channel' = Append(Append(channel, Proposed(f)), Output(f, out))
        <4>1. PICK c, e, d : c = channel /\ e = Proposed(f) /\ d = Output(f, out)
          OBVIOUS
        <4>2. c \o (<<e>> \o <<d>>) = Append(Append(c, e), d)
          BY <1>8, <1>9, <4>1, JoinOne
        <4> QED
          BY <1>3, <2>2, <4>1, <4>2
      <3>2. PICK mid : mid = Store(F, t, Proposed(f))
        OBVIOUS
      <3>3. /\ channel' \in Seq(Events) /\ Final' = Store(mid, t, Output(f, out))
            /\ Timelines' \subseteq Timelines \cup {mid, Final'}
        BY <1>1, <1>3, <1>8, <1>9, <3>1, <3>2, SendsTwo
      <3>4. ToolFacts(F) \cap Queued = {}
        BY <1>1, <2>2 DEF Inv, CallsOK
      <3>5. /\ Timeline(mid, t) /\ Agrees(Known(messages), mid, Lost)
            /\ ToolFacts(mid) = ToolFacts(F) \cup {f}
            /\ mid # <<>> /\ Last(mid) = Row("tool", t, f) /\ Front(mid) = F
        BY <1>2, <1>8, <3>2, AgreesProposed
      <3>6. f \notin ToolFacts(Front(mid))
        BY <1>2, <3>4, <3>5
      <3>7. Stands(mid, t, Known(history), Excused, NoOut(rows))
        BY <1>2, <1>8, <3>2, StandsStore
      <3>8. Stands(Store(mid, t, Output(f, out)), t, Known(history), Excused, NoOut(rows))
        BY <1>2, <1>8, <3>5, <3>6, <3>7, StandsOutput
      <3>9. /\ Agrees(Known(messages) \cup {f}, Store(mid, t, Output(f, out)), Lost)
            /\ ToolFacts(Store(mid, t, Output(f, out))) = ToolFacts(mid)
        <4>1. PICK known, lost : known = Known(messages) /\ lost = Lost
          OBVIOUS
        <4>2. /\ t \in Turns /\ Timeline(mid, t) /\ Agrees(known, mid, lost)
              /\ f \in TurnFacts(t) /\ out \in Outs
              /\ mid # <<>> /\ Last(mid) = Row("tool", t, f) /\ f \notin ToolFacts(Front(mid))
          BY <1>2, <1>8, <3>5, <3>6, <4>1
        <4> QED
          BY <4>1, <4>2, AgreesOutput, OutputTools
      <3>10. \A R \in Timelines' : R \in Timelines \/ StandsNow(R)
        BY <1>1, <3>3, <3>7, <3>8 DEF StandsNow
      <3> QED
        BY <1>2, <1>4, <1>10, <3>3, <3>4, <3>5, <3>9, <3>10
    <2> QED
      BY <1>1, <2>1, <2>2
  <1>12. Types'
    <2>1. QueueTypes'
      <3>1. Queued' \subseteq {g \in Facts : g.turn = turn' /\ g.step = step'}
        BY <1>3, <1>5 DEF Inv, Types
      <3> QED
        BY <1>2, <1>3, <3>1 DEF QueueTypes
    <2>2. LoopTypes' /\ StateTypes'
      BY <1>3, TypesNow DEF LoopTypes, StateTypes
    <2>3. history' \in Seq(Messages) /\ messages' \in Seq(Messages)
      BY <1>3, <1>4, <1>7 DEF HistoryOK, CopyOK, Context
    <2> QED
      BY <1>2, <1>3, <1>11, <2>1, <2>2, <2>3, WorkTypes
  <1>13. CallsOK'
    BY <1>3, <1>5, <1>6, <1>11 DEF CallsOK
  <1>14. HistoryOK(history') /\ CopyOK(messages', Queued', Made')
    BY <1>3, <1>4, <1>5, <1>6, <1>7
  <1>15. Agrees(Known(messages'), Final', Lost)
    BY <1>3, <1>11
  <1> QED
    BY <1>2, <1>3, <1>11, <1>12, <1>13, <1>14, <1>15, WorkGoesOn

(* The calls of a batch.                                                   *)
LEMMA CallSteps ==
    ASSUME Inv, SkipCall \/ RefuseCall \/ ApprovalFails \/ ToolEnds
    PROVE  Inv'
  <1>1. /\ observations \in Seq({Observation}) /\ lastCall \in Tools \cup {"none"}
        /\ grants \subseteq Grantable
    BY DEF Inv, Types, TypeOK
  <1>2. "text" \in Outs
    BY DEF Outs
  <1>3. CASE SkipCall
    <2>1. /\ queue # <<>> /\ pc = "calling" /\ Answered(<<Proposed(Call.fact)>>, "text")
          /\ UNCHANGED <<observations, lastCall, grants>>
      BY <1>3 DEF SkipCall
    <2> QED
      BY <1>1, <1>2, <2>1, AnsweredKeeps
  <1>4. CASE RefuseCall
    <2>1. /\ queue # <<>> /\ pc = "calling" /\ Answered(<<Proposed(Call.fact)>>, "text")
          /\ UNCHANGED <<observations, grants>> /\ lastCall' = Call.tool /\ Call.tool \in Refused
      BY <1>4 DEF RefuseCall, MayCall
    <2>2. lastCall' \in Tools \cup {"none"}
      BY <2>1 DEF Tools
    <2> QED
      BY <1>1, <1>2, <2>1, <2>2, AnsweredKeeps
  <1>5. CASE ApprovalFails
    <2>1. /\ pc = "approving" /\ Answered(<<>>, "text")
          /\ UNCHANGED <<observations, lastCall, grants>>
      BY <1>5 DEF ApprovalFails
    <2>2. queue # <<>>
      BY <2>1 DEF Inv, Types, TypeOK
    <2> QED
      BY <1>1, <1>2, <2>1, <2>2, AnsweredKeeps
  <1>6. CASE ToolEnds
    <2>1. PICK out \in Outs :
            /\ pc = "running" /\ Answered(<<>>, out) /\ UNCHANGED <<lastCall, grants>>
            /\ observations' = observations \o (IF out = "image" THEN <<Observation>> ELSE <<>>)
      BY <1>6 DEF ToolEnds, Outs
    <2>2. queue # <<>>
      BY <2>1 DEF Inv, Types, TypeOK
    <2>3. observations' \in Seq({Observation})
      <3>1. PICK ob, o, E : ob = observations /\ o = Observation /\ E = {o}
        OBVIOUS
      <3>2. ob \in Seq(E) /\ o \in E
        BY <1>1, <3>1
      <3>3. ob \o <<o>> \in Seq(E) /\ ob \o <<>> = ob
        BY <3>2
      <3>4. CASE out = "image"
        BY <2>1, <3>1, <3>3, <3>4
      <3>5. CASE out # "image"
        BY <2>1, <3>1, <3>2, <3>3, <3>5
      <3> QED
        BY <3>4, <3>5
    <2> QED
      BY <1>1, <2>1, <2>2, <2>3, AnsweredKeeps
  <1> QED
    BY <1>3, <1>4, <1>5, <1>6

(* A call that starts has the last row.                                    *)
LEMMA StartKeeps ==
    ASSUME Inv, StartCall
    PROVE  Inv'
  <1>1. PICK f, t, F : f = Call.fact /\ t = turn /\ F = Final
    OBVIOUS
  <1>2. /\ pc = "calling" /\ queue # <<>> /\ lastCall' = Call.tool
        /\ channel' = channel \o <<Proposed(f)>> /\ pc' \in {"running", "approving"}
        /\ UNCHANGED <<history, messages, step, queue, observations, turn, steering, grants, rows,
                       status, dropped, unstored, faults, work>>
    BY <1>1 DEF StartCall, MayCall, Emit, boundVars
  <1>3. /\ f \in Facts /\ f \in TurnFacts(t) /\ f \in Queued /\ f \in Made /\ Call \in Calls
    BY <1>1, <1>2, CallFacts
  <1>4. Queued' = Queued
    BY <1>2 DEF Queued
  <1>5. Made' = Made
    BY <1>2, MadeStays
  <1>6. HistoryOK(history) /\ CopyOK(messages, Queued, Made) /\ Held = Known(messages)
    BY <1>2, CopyNow
  <1>7. PICK known, lost : known = Known(messages) /\ lost = Lost
    OBVIOUS
  <1>8. /\ t \in Turns /\ Timeline(F, t) /\ Agrees(known, F, lost)
        /\ Stands(F, t, Known(history), Excused, NoOut(rows))
        /\ TurnFacts(t) \subseteq Excused /\ channel \in Seq(Events)
    BY <1>1, <1>2, <1>6, <1>7, AtWork
  <1>9. Proposed(f) \in Events
    BY <1>3, EventTypes
  <1>10. channel' = Append(channel, Proposed(f))
    <2>1. PICK c, e : c = channel /\ e = Proposed(f)
      OBVIOUS
    <2>2. c \o <<e>> = Append(c, e)
      BY <1>8, <1>9, <2>1, JoinOne
    <2> QED
      BY <1>2, <2>1, <2>2
  <1>11. PICK Q : Q = Store(F, t, Proposed(f))
    OBVIOUS
  <1>12. /\ channel' \in Seq(Events) /\ Final' = Q /\ Timelines' \subseteq Timelines \cup {Q}
    BY <1>1, <1>2, <1>8, <1>9, <1>10, <1>11, SendsOne
  <1>13. /\ Timeline(Q, t) /\ Agrees(known, Q, lost)
         /\ ToolFacts(Q) = ToolFacts(F) \cup {f}
         /\ Q # <<>> /\ Last(Q) = Row("tool", t, f) /\ Front(Q) = F
    BY <1>3, <1>8, <1>11, AgreesProposed
  <1>14. StandsNow(Q)
    BY <1>1, <1>3, <1>8, <1>11, StandsStore DEF StandsNow
  <1>15. CallsOK'
    <2>1. ToolFacts(F) \subseteq Made /\ ToolFacts(F) \cap Queued = {}
      BY <1>1, <1>2 DEF Inv, CallsOK
    <2>2. ToolFacts(Q) \subseteq Made'
      BY <1>3, <1>5, <1>13, <2>1
    <2>3. RunningRow' = Row("tool", t, f)
      BY <1>1, <1>2 DEF RunningRow, Call
    <2> QED
      BY <1>2, <1>4, <1>12, <1>13, <2>1, <2>2, <2>3 DEF CallsOK
  <1>16. Types'
    <2>1. QueueTypes'
      BY <1>2, <1>4, TypesNow DEF QueueTypes
    <2>2. lastCall' \in Tools \cup {"none"}
      BY <1>2, <1>3 DEF Calls
    <2>3. LoopTypes' /\ StateTypes'
      BY <1>2, <2>2, TypesNow DEF LoopTypes, StateTypes
    <2>4. history' \in Seq(Messages) /\ messages' \in Seq(Messages)
      BY <1>2, <1>6 DEF HistoryOK, CopyOK, Context
    <2> QED
      BY <1>2, <1>12, <2>1, <2>3, <2>4, WorkTypes
  <1>17. HistoryOK(history') /\ CopyOK(messages', Queued', Made')
    BY <1>2, <1>4, <1>5, <1>6
  <1>18. Agrees(Known(messages'), Final', Lost)
    BY <1>2, <1>7, <1>12, <1>13
  <1>19. \A R \in Timelines' : R \in Timelines \/ StandsNow(R)
    BY <1>12, <1>14
  <1> QED
    BY <1>2, <1>15, <1>16, <1>17, <1>18, <1>19, WorkGoesOn

(* The steps that send nothing and leave the copy as it is.                *)
LEMMA QuietSteps ==
    ASSUME Inv, pc \notin {"idle", "setup"}, pc' \notin {"idle", "setup", "asking"},
           pc # "asking",
           UNCHANGED <<history, messages, step, queue, turn, channel, rows, status, dropped,
                       unstored>>,
           QueueTypes', LoopTypes', StateTypes',
           pc' \in {"approving", "running"} => pc \in {"approving", "running"},
           pc \in {"approving", "running"} => pc' \in {"approving", "running"},
           pc' \in {"loop", "compacted", "closing", "finishing", "calling", "approving", "running"}
    PROVE  Inv'
  <1>1. Timelines' = Timelines /\ Final' = Final
    BY SendsNone
  <1>2. Queued' = Queued /\ Made' = Made
    BY MadeStays DEF Queued
  <1>3. HistoryOK(history) /\ CopyOK(messages, Queued, Made) /\ Held = Known(messages)
    BY CopyNow
  <1>4. Agrees(Known(messages), Final, Lost) /\ channel \in Seq(Events)
    BY <1>3, AtWork
  <1>5. CallsOK'
    <2>1. RunningRow' = RunningRow
      BY DEF RunningRow, Call
    <2> QED
      BY <1>1, <1>2, <2>1 DEF Inv, CallsOK
  <1>6. Types'
    BY <1>3, <1>4, WorkTypes DEF HistoryOK, CopyOK, Context
  <1> QED
    BY <1>1, <1>2, <1>3, <1>4, <1>5, <1>6, WorkGoesOn

(* A grant changes nothing that was said.                                  *)
LEMMA ApprovesKeeps ==
    ASSUME Inv, Approves
    PROVE  Inv'
  <1>1. /\ pc = "approving" /\ pc' = "running"
        /\ grants' \in {grants, grants \cup ({Call.tool} \cap Grantable)}
        /\ UNCHANGED <<history, messages, step, queue, observations, lastCall, turn, steering,
                       channel, rows, status, dropped, unstored, faults, work>>
    BY DEF Approves, turnVars, boundVars
  <1>2. QueueTypes'
    BY <1>1, TypesNow DEF QueueTypes, Queued
  <1>3. LoopTypes' /\ StateTypes'
    BY <1>1, TypesNow DEF LoopTypes, StateTypes
  <1> QED
    BY <1>1, <1>2, <1>3, QuietSteps

(* A turn completes, or goes on for pending steering.                      *)
LEMMA FinishesKeeps ==
    ASSUME Inv, Finishes
    PROVE  Inv'
  <1>1. pc \in {"closing", "finishing"}
    BY DEF Finishes
  <1>2. CASE steering = "pending"
    <2>1. /\ pc' = "loop"
          /\ UNCHANGED <<history, messages, step, queue, observations, lastCall, turn, steering,
                         grants, channel, rows, status, dropped, unstored, faults, work>>
      BY <1>2 DEF Finishes, turnVars, boundVars
    <2>2. QueueTypes'
      BY <1>1, <2>1, NoQueue, NoQueueTypes
    <2>3. LoopTypes' /\ StateTypes'
      BY <2>1, TypesNow DEF LoopTypes, StateTypes
    <2> QED
      BY <1>1, <2>1, <2>2, <2>3, QuietSteps
  <1>3. CASE steering # "pending"
    BY <1>1, <1>3, CompletedKeeps DEF Finishes
  <1> QED
    BY <1>2, <1>3

(* The batch is answered and the next request may follow.                  *)
LEMMA BatchDoneKeeps ==
    ASSUME Inv, BatchDone
    PROVE  Inv'
  <1>1. /\ pc = "calling" /\ queue = <<>> /\ pc' = "loop" /\ messages' = messages \o observations
        /\ observations' = <<>>
        /\ UNCHANGED <<history, step, queue, lastCall, turn, steering, grants, channel, rows,
                       status, dropped, unstored, faults, work>>
    BY DEF BatchDone, boundVars
  <1>2. Queued = {} /\ Queued' = {} /\ QueueTypes'
    <2>1. DOMAIN <<>> = {}
      OBVIOUS
    <2> QED
      BY <1>1, <2>1, NoQueueTypes DEF Queued
  <1>3. PICK w : w = messages \o observations
    OBVIOUS
  <1>4. CopyOK(w, {}, Made) /\ Known(w) = Known(messages)
    BY <1>1, <1>2, <1>3, CopyObservations
  <1>5. Timelines' = Timelines /\ Final' = Final
    BY <1>1, SendsNone
  <1>6. Made' = Made
    BY <1>1, MadeStays
  <1>7. HistoryOK(history) /\ Held = Known(messages)
    BY <1>1, CopyNow
  <1>8. Agrees(Known(messages), Final, Lost) /\ channel \in Seq(Events)
    BY <1>1, <1>7, AtWork
  <1>9. CallsOK'
    BY <1>1, <1>2, <1>5, <1>6 DEF Inv, CallsOK
  <1>10. Types'
    <2>1. LoopTypes' /\ StateTypes'
      <3>1. <<>> \in Seq({Observation})
        OBVIOUS
      <3> QED
        BY <1>1, <3>1, TypesNow DEF LoopTypes, StateTypes
    <2>2. history' \in Seq(Messages) /\ messages' \in Seq(Messages)
      BY <1>1, <1>3, <1>4, <1>7 DEF HistoryOK, CopyOK, Context
    <2> QED
      BY <1>1, <1>2, <1>8, <2>1, <2>2, WorkTypes
  <1>11. HistoryOK(history') /\ CopyOK(messages', Queued', Made')
    BY <1>1, <1>2, <1>3, <1>4, <1>6, <1>7
  <1>12. Agrees(Known(messages'), Final', Lost)
    BY <1>1, <1>3, <1>4, <1>5, <1>8
  <1> QED
    BY <1>1, <1>5, <1>9, <1>10, <1>11, <1>12, WorkGoesOn

(* The steps that send one event, e.                                       *)
LEMMA SendsEvent ==
    ASSUME Inv, pc # "idle", UNCHANGED <<rows, turn>>, NEW e \in Events,
           channel' = channel \o <<e>>
    PROVE  /\ channel' \in Seq(Events) /\ Final' = Store(Final, turn, e)
           /\ StandsNow(Store(Final, turn, e)) =>
                \A R \in Timelines' : R \in Timelines \/ StandsNow(R)
  <1>1. channel \in Seq(Events)
    BY AtWork
  <1>2. channel' = Append(channel, e)
    <2>1. PICK c : c = channel
      OBVIOUS
    <2>2. c \o <<e>> = Append(c, e)
      BY <1>1, <2>1, JoinOne
    <2> QED
      BY <2>1, <2>2
  <1>3. /\ channel' \in Seq(Events) /\ Final' = Store(Final, turn, e)
        /\ Timelines' \subseteq Timelines \cup {Final'}
    BY <1>1, <1>2, SendsOne
  <1> QED
    BY <1>3

(* The context is compacted after a request.                               *)
LEMMA CompactedKeeps ==
    ASSUME Inv, pc \in {"loop", "closing"}, pc' \in {"compacted", "finishing"},
           \/ messages' = <<Summary(Known(messages))>>
           \/ messages' = Append(<<Summary(Known(messages))>>, Continuation),
           history' = history \/ history' = messages',
           channel' = channel \o <<Compacted(Known(messages))>>,
           UNCHANGED <<step, queue, observations, lastCall, turn, steering, grants, rows, status,
                       dropped, unstored, faults, work>>
    PROVE  Inv'
  <1>1. PICK fs, t, F, w, lost : /\ fs = Known(messages) /\ t = turn /\ F = Final /\ w = messages'
                                 /\ lost = Lost
    OBVIOUS
  <1>2. Queued = {} /\ queue = <<>>
    BY NoQueue
  <1>3. Queued' = {} /\ QueueTypes'
    BY <1>2, NoQueueTypes
  <1>4. HistoryOK(history) /\ CopyOK(messages, {}, Made) /\ Held = fs
    BY <1>1, <1>2, CopyNow
  <1>5. /\ t \in Turns /\ Timeline(F, t) /\ Agrees(fs, F, lost) /\ fs \in SUBSET Facts
        /\ Stands(F, t, Known(history), Excused, NoOut(rows)) /\ TurnFacts(t) \subseteq Excused
    BY <1>1, <1>4, AtWork
  <1>6. fs \ Excused = Known(history) \ Excused
    BY <1>1, <1>4 DEF CopyOK
  <1>7. Compacted(fs) \in Events
    BY <1>5, EventTypes
  <1>8. PICK Q : Q = Store(F, t, Compacted(fs))
    OBVIOUS
  <1>9. Timeline(Q, t) /\ Agrees(fs, Q, lost) /\ ToolFacts(Q) = ToolFacts(F)
    BY <1>5, <1>8, AgreesCompacted
  <1>10. StandsNow(Q)
    BY <1>1, <1>5, <1>6, <1>8, StandsStore DEF StandsNow
  <1>11. /\ channel' \in Seq(Events) /\ Final' = Q
         /\ \A R \in Timelines' : R \in Timelines \/ StandsNow(R)
    BY <1>1, <1>7, <1>8, <1>10, SendsEvent
  <1>12. /\ Context(w) /\ Known(w) = fs /\ InOrder(w) /\ (\A X : AllReplied(w, X))
         /\ (\A G : Mentions(w, G)) /\ (\A T : Below(w, T))
         /\ (\A T, D : MarkedBelow(w, T, D)) /\ Waiting(w, {})
    BY <1>1, <1>5, SummaryFacts
  <1>13. HistoryOK(w) /\ CopyOK(w, {}, Made)
    BY <1>6, <1>12 DEF HistoryOK, CopyOK
  <1>14. Made' = Made
    BY MadeStays
  <1>15. CallsOK'
    <2>1. ToolFacts(F) \subseteq Made
      BY <1>1 DEF Inv, CallsOK
    <2> QED
      BY <1>3, <1>9, <1>11, <1>14, <2>1 DEF CallsOK
  <1>16. HistoryOK(history')
    BY <1>1, <1>4, <1>13
  <1>17. Types'
    <2>1. LoopTypes' /\ StateTypes'
      BY TypesNow DEF LoopTypes, StateTypes
    <2>2. history' \in Seq(Messages) /\ messages' \in Seq(Messages)
      BY <1>1, <1>12, <1>16 DEF HistoryOK, Context
    <2> QED
      BY <1>3, <1>11, <2>1, <2>2, WorkTypes
  <1> QED
    BY <1>1, <1>3, <1>9, <1>11, <1>12, <1>13, <1>14, <1>15, <1>16, <1>17, WorkGoesOn

(* A summary replaces the copy, in the loop the history too.               *)
LEMMA CompactionSteps ==
    ASSUME Inv, LoopCompacts \/ CompactsAtEnd
    PROVE  Inv'
  <1>1. CASE LoopCompacts
    <2>1. /\ pc = "loop" /\ pc' = "compacted" /\ history' = messages'
          /\ messages' = <<Summary(Known(messages)), Continuation>>
          /\ channel' = channel \o <<Compacted(Known(messages))>>
          /\ UNCHANGED <<step, queue, observations, lastCall, turn, steering, grants, rows,
                         status, dropped, unstored, faults, work>>
      BY <1>1 DEF LoopCompacts, Emit, boundVars
    <2>2. messages' = Append(<<Summary(Known(messages))>>, Continuation)
      <3>1. \A a, b : <<a, b>> = Append(<<a>>, b)
        OBVIOUS
      <3> QED
        BY <2>1, <3>1
    <2> QED
      BY <2>1, <2>2, CompactedKeeps
  <1>2. CASE CompactsAtEnd
    <2>1. /\ pc = "closing" /\ pc' = "finishing" /\ history' = history
          /\ messages' = <<Summary(Known(messages))>>
          /\ channel' = channel \o <<Compacted(Known(messages))>>
          /\ UNCHANGED <<step, queue, observations, lastCall, turn, steering, grants, rows,
                         status, dropped, unstored, faults, work>>
      BY <1>2 DEF CompactsAtEnd, Emit, boundVars
    <2> QED
      BY <2>1, CompactedKeeps
  <1> QED
    BY <1>1, <1>2

(* The history fits, or is compacted before the prompt joins it.           *)
LEMMA SetsUpKeeps ==
    ASSUME Inv, SetsUp
    PROVE  Inv'
  <1>1. /\ pc = "setup" /\ pc' = "loop"
        /\ UNCHANGED <<history, step, queue, observations, lastCall, turn, steering, grants, rows,
                       status, dropped, unstored, faults, work>>
    BY DEF SetsUp, boundVars
  <1>2. PICK fs, t, F, lost : fs = Known(messages) /\ t = turn /\ F = Final /\ lost = Lost
    OBVIOUS
  <1>3. Queued = {} /\ queue = <<>>
    BY <1>1, NoQueue
  <1>4. Queued' = {} /\ QueueTypes'
    BY <1>1, <1>3, NoQueueTypes
  <1>5. HistoryOK(history) /\ CopyOK(messages, {}, Made)
    BY <1>1, <1>3, CopyNow
  <1>6. Held = fs \cup {Prompt(t)}
    BY <1>1, <1>2 DEF Held
  <1>7. /\ t \in Turns /\ Timeline(F, t) /\ Agrees(fs \cup {Prompt(t)}, F, lost)
        /\ fs \in SUBSET Facts
        /\ Stands(F, t, Known(history), Excused, NoOut(rows)) /\ TurnFacts(t) \subseteq Excused
    BY <1>1, <1>2, <1>6, AtWork
  <1>8. Made' = Made
    BY <1>1, MadeStays
  <1>9. ToolFacts(F) \subseteq Made
    BY <1>1, <1>2 DEF Inv, CallsOK
  <1>10. ASSUME CopyOK(messages', {}, Made), channel' \in Seq(Events),
                \A R \in Timelines' : R \in Timelines \/ StandsNow(R),
                Agrees(Known(messages'), Final', Lost), ToolFacts(Final') = ToolFacts(F)
         PROVE  Inv'
    <2>1. CallsOK'
      BY <1>1, <1>4, <1>8, <1>9, <1>10 DEF CallsOK
    <2>2. Types'
      <3>1. LoopTypes' /\ StateTypes'
        BY <1>1, TypesNow DEF LoopTypes, StateTypes
      <3>2. history' \in Seq(Messages) /\ messages' \in Seq(Messages)
        BY <1>1, <1>5, <1>10 DEF HistoryOK, CopyOK, Context
      <3> QED
        BY <1>1, <1>4, <1>10, <3>1, <3>2, WorkTypes
    <2> QED
      BY <1>1, <1>4, <1>5, <1>8, <1>10, <2>1, <2>2, WorkGoesOn
  <1>11. CASE messages' = Append(messages, User(Prompt(turn))) /\ channel' = channel
    <2>1. PICK w : w = messages'
      OBVIOUS
    <2>2. CopyOK(w, {}, Made) /\ Known(w) = fs \cup {Prompt(t)}
      BY <1>1, <1>2, <1>3, <1>11, <2>1, CopyInput
    <2>3. Timelines' = Timelines /\ Final' = Final
      BY <1>1, <1>11, SendsNone
    <2>4. channel \in Seq(Events)
      BY <1>1, AtWork
    <2> QED
      BY <1>2, <1>7, <1>10, <1>11, <2>1, <2>2, <2>3, <2>4
  <1>12. CASE /\ messages' = <<Summary(Known(messages)), User(Prompt(turn))>>
              /\ channel' = channel \o <<Compacted(Known(messages))>>
    <2>1. PICK s, u, v, w, ex : /\ s = Summary(fs) /\ u = User(Prompt(t)) /\ v = <<s>>
                                /\ w = Append(v, u) /\ ex = Excused
      OBVIOUS
    <2>2. messages' = w
      <3>1. \A a, b : <<a, b>> = Append(<<a>>, b)
        OBVIOUS
      <3> QED
        BY <1>2, <1>12, <2>1, <3>1
    <2>3. /\ Context(v) /\ Known(v) = fs /\ InOrder(v) /\ (\A X : AllReplied(v, X))
          /\ (\A G : Mentions(v, G)) /\ (\A T : Below(v, T)) /\ (\A T, D : MarkedBelow(v, T, D))
      BY <1>7, <2>1, SummaryFacts
    <2>4. /\ Shaped(u) /\ UserOf(u, t) /\ u.knows = {Prompt(t)} /\ u.calls = {}
          /\ u.role = "user" /\ Prompt(t) \in TurnFacts(t)
      <3>1. Shaped(u) /\ UserOf(u, t) /\ Prompt(t) \in Facts
        BY <1>7, <2>1, MessageShapes
      <3>2. u.knows = {Prompt(t)} /\ u.calls = {} /\ u.role = "user"
        BY <2>1 DEF User
      <3> QED
        BY <3>1, <3>2 DEF TurnFacts, Prompt
    <2>5. Context(w) /\ Known(w) = fs \cup {Prompt(t)}
      <3>1. Context(w) /\ Known(w) = Known(v) \cup u.knows
        BY <2>1, <2>3, <2>4, AppendContext
      <3> QED
        BY <2>3, <2>4, <3>1
    <2>6. AllReplied(w, NoOut(rows) \cup {}) /\ Mentions(w, Made)
      BY <2>1, <2>3, <2>4, AppendContext
    <2>7. InOrder(w) /\ Below(w, t + 1) /\ MarkedBelow(w, t, Done)
      BY <1>7, <2>1, <2>3, <2>4, AppendInput
    <2>8. Known(w) \ ex = Known(history) \ ex /\ fs \ ex = Known(history) \ ex
      <3>1. fs \ ex = Known(history) \ ex /\ TurnFacts(t) \subseteq ex
        BY <1>2, <1>5, <1>7, <2>1 DEF CopyOK
      <3> QED
        BY <2>4, <2>5, <3>1
    <2>9. CopyOK(w, {}, Made)
      BY <1>2, <2>1, <2>5, <2>6, <2>7, <2>8 DEF CopyOK, Waiting
    <2>10. Compacted(fs) \in Events
      BY <1>7, EventTypes
    <2>11. PICK Q : Q = Store(F, t, Compacted(fs))
      OBVIOUS
    <2>12. F # <<>> /\ Last(F) = Row("user", t, Prompt(t))
      <3>1. /\ channel = <<>> /\ rows # <<>> /\ Last(rows) = Row("user", turn, Prompt(turn))
        BY <1>1 DEF Inv, CallsOK
      <3>2. Final = rows
        <4>1. PICK r, c : r = rows /\ c = channel
          OBVIOUS
        <4>2. c \in Seq(Events)
          BY <1>1, <4>1, AtWork
        <4>3. StoredAfter(r, t, <<>>) = r
          BY <4>2, StoredSteps
        <4> QED
          BY <1>2, <3>1, <4>1, <4>3 DEF Final, Stored
      <3> QED
        BY <1>2, <3>1, <3>2
    <2>13. Timeline(Q, t) /\ Agrees(fs \cup {Prompt(t)}, Q, lost) /\ ToolFacts(Q) = ToolFacts(F)
      BY <1>7, <2>11, <2>12, AgreesSetup
    <2>14. StandsNow(Q)
      BY <1>2, <1>7, <2>1, <2>8, <2>11, StandsStore DEF StandsNow
    <2>15. /\ channel' \in Seq(Events) /\ Final' = Q
           /\ \A R \in Timelines' : R \in Timelines \/ StandsNow(R)
      BY <1>1, <1>2, <1>12, <2>10, <2>11, <2>14, SendsEvent
    <2> QED
      BY <1>2, <1>10, <2>2, <2>5, <2>9, <2>13, <2>15
  <1> QED
    BY <1>11, <1>12 DEF SetsUp, Emit

(* A request, with the steering input that waits.                          *)
LEMMA AskKeeps ==
    ASSUME Inv, Ask
    PROVE  Inv'
  <1>1. /\ pc \in {"loop", "compacted"} /\ step < MaxSteps /\ work < MaxWork
        /\ step' = step + 1 /\ work' = work + 1 /\ pc' = "asking"
        /\ UNCHANGED <<history, queue, observations, turn, grants, rows, status, dropped,
                       unstored, faults>>
    BY DEF Ask, MayAsk
  <1>2. PICK known, t, F, lost : /\ known = Known(messages) /\ t = turn /\ F = Final
                                 /\ lost = Lost
    OBVIOUS
  <1>3. Queued = {} /\ queue = <<>>
    BY <1>1, NoQueue
  <1>4. Queued' = {} /\ QueueTypes'
    BY <1>1, <1>3, NoQueueTypes
  <1>5. HistoryOK(history) /\ CopyOK(messages, {}, Made) /\ Held = known
    BY <1>1, <1>2, <1>3, CopyNow
  <1>6. /\ t \in Turns /\ Timeline(F, t) /\ Agrees(known, F, lost)
        /\ Stands(F, t, Known(history), Excused, NoOut(rows)) /\ TurnFacts(t) \subseteq Excused
        /\ channel \in Seq(Events)
    BY <1>1, <1>2, <1>5, AtWork
  <1>7. Made' = Made
    BY <1>1, MadeStays
  <1>8. ToolFacts(F) \subseteq Made
    BY <1>1, <1>2 DEF Inv, CallsOK
  <1>9. step' \in 0..MaxSteps /\ work' \in 0..MaxWork
    BY <1>1, ConversationAssumption DEF Inv, Types, TypeOK
  <1>10. ASSUME CopyOK(messages', {}, Made), channel' \in Seq(Events),
                lastCall' \in {lastCall, "none"}, steering' \in {steering, "applied"},
                \A R \in Timelines' : R \in Timelines \/ StandsNow(R),
                Agrees(Known(messages'), Final', Lost), ToolFacts(Final') = ToolFacts(F)
         PROVE  Inv'
    <2>1. CallsOK'
      BY <1>1, <1>4, <1>7, <1>8, <1>10 DEF CallsOK
    <2>2. Types'
      <3>1. LoopTypes' /\ StateTypes'
        BY <1>1, <1>9, <1>10, TypesNow DEF LoopTypes, StateTypes
      <3>2. history' \in Seq(Messages) /\ messages' \in Seq(Messages)
        BY <1>1, <1>5, <1>10 DEF HistoryOK, CopyOK, Context
      <3> QED
        BY <1>1, <1>4, <1>10, <3>1, <3>2, WorkTypes
    <2> QED
      BY <1>1, <1>4, <1>5, <1>7, <1>10, <2>1, <2>2, WorkGoesOn
  <1>11. CASE steering = "pending"
    <2>1. /\ messages' = Append(messages, User(Steered(turn)))
          /\ channel' = channel \o <<SteeringApplied>>
          /\ lastCall' = "none" /\ steering' = "applied"
      BY <1>11 DEF Ask, Emit
    <2>2. PICK w : w = messages'
      OBVIOUS
    <2>3. CopyOK(w, {}, Made) /\ Known(w) = known \cup {Steered(t)}
      BY <1>1, <1>2, <1>3, <2>1, <2>2, CopyInput
    <2>4. PICK Q : Q = Store(F, t, SteeringApplied)
      OBVIOUS
    <2>5. Agrees(known \cup {Steered(t)}, Q, lost) /\ ToolFacts(Q) = ToolFacts(F)
      BY <1>6, <2>4, AgreesStore
    <2>6. StandsNow(Q)
      BY <1>2, <1>6, <2>4, StandsStore DEF StandsNow
    <2>7. /\ channel' \in Seq(Events) /\ Final' = Q
          /\ \A R \in Timelines' : R \in Timelines \/ StandsNow(R)
      BY <1>1, <1>2, <2>1, <2>4, <2>6, EventTypes, SendsEvent
    <2> QED
      BY <1>2, <1>10, <2>1, <2>2, <2>3, <2>5, <2>7
  <1>12. CASE steering # "pending"
    <2>1. UNCHANGED <<messages, channel, lastCall, steering>>
      BY <1>12 DEF Ask
    <2>2. Timelines' = Timelines /\ Final' = Final
      BY <1>1, <2>1, SendsNone
    <2> QED
      BY <1>2, <1>5, <1>6, <1>10, <2>1, <2>2
  <1> QED
    BY <1>11, <1>12

(* The calls of a response differ.                                         *)
LEMMA BatchFacts ==
    ASSUME NEW batch \in Batches, turn \in Turns, step \in 0..MaxSteps
    PROVE  /\ batch \in Seq(Calls) /\ Len(batch) \in Nat /\ DOMAIN batch = 1..Len(batch)
           /\ \A i \in DOMAIN batch : /\ batch[i].fact \in Facts /\ batch[i].fact.turn = turn
                                      /\ batch[i].fact.step = step
           /\ \A i, j \in DOMAIN batch : i # j => batch[i].fact # batch[j].fact
           /\ batch = <<>> => DOMAIN batch = {}
  <1>0. PICK n \in 0..MaxBatch :
          batch \in {[i \in 1..n |-> [fact |-> [turn |-> turn, step |-> step, n |-> i],
                                      tool |-> ts[i]]] : ts \in [1..n -> Tools]}
    BY DEF Batches
  <1>1. PICK ts \in [1..n -> Tools] :
          batch = [i \in 1..n |-> [fact |-> [turn |-> turn, step |-> step, n |-> i],
                                   tool |-> ts[i]]]
    BY <1>0
  <1>2. n \in Nat /\ MaxBatch \in Nat /\ \A i \in 1..n : i \in 0..MaxBatch
    BY <1>0, ConversationAssumption
  <1>3. DOMAIN batch = 1..n /\ \A i \in 1..n :
          /\ batch[i] = [fact |-> [turn |-> turn, step |-> step, n |-> i], tool |-> ts[i]]
          /\ ts[i] \in Tools
    BY <1>1
  <1>4. \A i \in 1..n : [turn |-> turn, step |-> step, n |-> i] \in Facts
    BY <1>2 DEF Facts
  <1>5. \A i \in 1..n : batch[i] \in Calls
    BY <1>3, <1>4 DEF Calls
  <1>6. batch \in [1..n -> Calls]
    <2>1. batch = [i \in 1..n |-> batch[i]]
      BY <1>1
    <2> QED
      BY <1>5, <2>1
  <1>7. batch \in Seq(Calls) /\ Len(batch) = n
    BY <1>2, <1>6
  <1>8. \A i \in 1..n : /\ batch[i].fact \in Facts /\ batch[i].fact.turn = turn
                        /\ batch[i].fact.step = step /\ batch[i].fact.n = i
    BY <1>3, <1>4
  <1>9. batch = <<>> => DOMAIN batch = {}
    OBVIOUS
  <1> QED
    BY <1>2, <1>3, <1>7, <1>8, <1>9

(* A response: its calls wait on the queue.                                *)
LEMMA AnswersKeeps ==
    ASSUME Inv, Answers
    PROVE  Inv'
  <1>1. PICK batch \in Batches :
          /\ pc = "asking" /\ work + Len(batch) <= MaxWork /\ work' = work + Len(batch)
          /\ messages' = Append(messages, Assistant({batch[i].fact : i \in DOMAIN batch}))
          /\ channel' = channel \o (IF batch = <<>> THEN <<TextSent>> ELSE <<>>)
          /\ queue' = batch
          /\ pc' = IF batch = <<>> THEN "closing" ELSE "calling"
          /\ UNCHANGED <<history, step, observations, lastCall, turn, steering, grants, rows,
                         status, dropped, unstored, faults>>
    BY DEF Answers, Emit
  <1>2. PICK known, t, F, lost, cs : /\ known = Known(messages) /\ t = turn /\ F = Final
                                     /\ lost = Lost /\ cs = QueuedOf(batch)
    OBVIOUS
  <1>3. HistoryOK(history) /\ Held = known
    BY <1>1, <1>2, CopyNow
  <1>4. /\ t \in Turns /\ Timeline(F, t) /\ Agrees(known, F, lost)
        /\ Stands(F, t, Known(history), Excused, NoOut(rows)) /\ TurnFacts(t) \subseteq Excused
        /\ channel \in Seq(Events)
    BY <1>1, <1>2, <1>3, AtWork
  <1>5. step \in 0..MaxSteps /\ step \in Nat
    BY ConversationAssumption DEF Inv, Types, TypeOK
  <1>6. /\ batch \in Seq(Calls) /\ Len(batch) \in Nat /\ DOMAIN batch = 1..Len(batch)
        /\ \A i \in DOMAIN batch : /\ batch[i].fact \in Facts /\ batch[i].fact.turn = turn
                                   /\ batch[i].fact.step = step
        /\ \A i, j \in DOMAIN batch : i # j => batch[i].fact # batch[j].fact
        /\ batch = <<>> => DOMAIN batch = {}
    BY <1>2, <1>4, <1>5, BatchFacts
  <1>7. cs \subseteq {f \in Facts : f.turn = turn /\ f.step = step}
    BY <1>2, <1>6 DEF QueuedOf
  <1>8. Queued' = cs
    BY <1>1, <1>2 DEF Queued, QueuedOf
  <1>9. Made \subseteq Made' /\ cs \subseteq Made' /\ cs \cap Made = {}
    <2>1. /\ Made \subseteq Made'
          /\ \A f \in Facts : f.turn = turn /\ f.step = step => f \in Made' /\ f \notin Made
      BY <1>1, MadeStays
    <2> QED
      BY <1>7, <2>1
  <1>10. PICK w, M : w = messages' /\ M = Made'
    OBVIOUS
  <1>11. CopyOK(w, cs, M) /\ Known(w) = known
    <2>1. w = Append(messages, Assistant(cs))
      BY <1>1, <1>2, <1>10 DEF QueuedOf
    <2>2. cs \in SUBSET Facts /\ Made \cup cs \subseteq M
      BY <1>7, <1>9, <1>10
    <2> QED
      BY <1>1, <1>2, <1>9, <2>1, <2>2, CopyCalls
  <1>12. /\ channel' \in Seq(Events) /\ \A R \in Timelines' : R \in Timelines \/ StandsNow(R)
         /\ Agrees(known, Final', lost) /\ ToolFacts(Final') = ToolFacts(F)
    <2>1. CASE batch = <<>>
      <3>1. PICK Q : Q = Store(F, t, TextSent)
        OBVIOUS
      <3>2. Agrees(known, Q, lost) /\ ToolFacts(Q) = ToolFacts(F)
        BY <1>4, <3>1, AgreesStore
      <3>3. StandsNow(Q)
        BY <1>2, <1>4, <3>1, StandsStore DEF StandsNow
      <3>4. /\ channel' \in Seq(Events) /\ Final' = Q
            /\ \A R \in Timelines' : R \in Timelines \/ StandsNow(R)
        BY <1>1, <1>2, <2>1, <3>1, <3>3, EventTypes, SendsEvent
      <3> QED
        BY <3>2, <3>4
    <2>2. CASE batch # <<>>
      <3>1. channel' = channel
        <4>1. PICK c : c = channel
          OBVIOUS
        <4>2. c \o <<>> = c
          BY <1>4, <4>1
        <4> QED
          BY <1>1, <2>2, <4>1, <4>2
      <3>2. Timelines' = Timelines /\ Final' = Final
        BY <1>1, <3>1, SendsNone
      <3> QED
        BY <1>2, <1>4, <3>1, <3>2
    <2> QED
      BY <2>1, <2>2
  <1>13. CallsOK'
    <2>1. ToolFacts(F) \subseteq Made
      BY <1>1, <1>2 DEF Inv, CallsOK
    <2>2. ToolFacts(Final') \subseteq Made' /\ ToolFacts(Final') \cap Queued' = {}
      BY <1>8, <1>9, <1>12, <2>1
    <2> QED
      BY <1>1, <2>2 DEF CallsOK
  <1>14. Types'
    <2>1. QueueTypes'
      <3>1. queue' # <<>> => pc' = "calling"
        BY <1>1
      <3>2. pc' \notin {"approving", "running"}
        BY <1>1
      <3>3. Queued' \subseteq {f \in Facts : f.turn = turn' /\ f.step = step'}
        BY <1>1, <1>7, <1>8
      <3> QED
        BY <1>1, <1>6, <3>1, <3>2, <3>3 DEF QueueTypes
    <2>2. work' \in 0..MaxWork
      BY <1>1, <1>6, ConversationAssumption DEF Inv, Types, TypeOK
    <2>3. LoopTypes' /\ StateTypes'
      BY <1>1, <2>2, TypesNow DEF LoopTypes, StateTypes
    <2>4. history' \in Seq(Messages) /\ messages' \in Seq(Messages)
      BY <1>1, <1>3, <1>10, <1>11 DEF HistoryOK, CopyOK, Context
    <2> QED
      BY <1>1, <1>12, <2>1, <2>3, <2>4, WorkTypes
  <1>15. HistoryOK(history') /\ CopyOK(messages', Queued', Made')
    BY <1>1, <1>3, <1>8, <1>10, <1>11
  <1>16. Agrees(Known(messages'), Final', Lost)
    BY <1>2, <1>10, <1>11, <1>12
  <1> QED
    BY <1>1, <1>12, <1>13, <1>14, <1>15, <1>16, WorkGoesOn

-----------------------------------------------------------------------------
(* Around the turn.                                                        *)

(* A step that leaves the turn, the history and the timeline as they are.  *)
LEMMA FrameKeeps ==
    ASSUME Inv, LoopTypes', StateTypes',
           UNCHANGED <<history, messages, pc, turn, step, queue, channel, rows, status, dropped,
                       unstored>>
    PROVE  Inv'
  <1>1. Timelines' = Timelines /\ Final' = Final
    BY SendsNone
  <1>2. Queued' = Queued /\ Made' = Made /\ RunningRow' = RunningRow
    BY DEF Queued, Made, RunningRow, Call
  <1>3. Lost' = Lost /\ Done' = Done /\ Held' = Held
    BY DEF Lost, Done, Held
  <1>4. Excused' = Excused
    BY <1>3 DEF Excused
  <1>5. Types'
    <2>1. TypeOK'
      BY DEF Inv, Types, TypeOK, LoopTypes, StateTypes
    <2> QED
      BY <1>2, <2>1 DEF Inv, Types
  <1>6. RecallOK'
    BY <1>1, <1>3, <1>4 DEF Inv, RecallOK
  <1>7. CallsOK'
    BY <1>1, <1>2 DEF Inv, CallsOK
  <1>8. ContextsOK'
    BY DEF Inv, ContextsOK
  <1>9. RepliesOK'
    BY <1>2 DEF Inv, RepliesOK
  <1>10. MarksOK'
    BY <1>3 DEF Inv, MarksOK
  <1> QED
    BY <1>5, <1>6, <1>7, <1>8, <1>9, <1>10 DEF Inv

(* Steering waits for the turn; new settings take the grants back.         *)
LEMMA FrameSteps ==
    ASSUME Inv, Steer \/ ResetPermissions \/ UNCHANGED vars
    PROVE  Inv'
  <1>1. /\ UNCHANGED <<history, messages, pc, turn, step, queue, observations, lastCall, channel,
                       rows, status, dropped, unstored, faults, work>>
        /\ steering' \in {steering, "pending"} /\ grants' \in {grants, {}}
    BY DEF Steer, ResetPermissions, vars, turnVars, boundVars
  <1>2. LoopTypes' /\ StateTypes'
    BY <1>1, TypesNow DEF LoopTypes, StateTypes
  <1> QED
    BY <1>1, <1>2, FrameKeeps

(* /compact, between turns.                                                *)
LEMMA CompactKeeps ==
    ASSUME Inv, Compact
    PROVE  Inv'
  <1>1. /\ pc = "idle" /\ history # <<>>
        /\ history' = <<Summary(Known(history))>>
        /\ rows' = Append(rows, CompactedRow(turn, Known(history)))
        /\ UNCHANGED <<messages, pc, turn, step, queue, observations, lastCall, steering, grants,
                       channel, status, dropped, unstored, faults, work>>
    BY DEF Compact, turnVars, boundVars
  <1>2. PICK fs, t, w, R, lost, D : /\ fs = Known(history) /\ t = turn /\ w = history'
                                    /\ R = rows /\ lost = Lost /\ D = Done
    OBVIOUS
  <1>3. t \in Turns
    BY <1>1, <1>2 DEF Inv, Types, TypeOK, Turns
  <1>4. fs \in SUBSET Facts
    BY <1>2, ContextFacts DEF Inv, ContextsOK
  <1>5. /\ Timeline(R, t) /\ Agrees(fs, R, lost)
    BY <1>1, <1>2 DEF Inv, RecallOK
  <1>6. PICK Q : Q = Store(R, t, Compacted(fs))
    OBVIOUS
  <1>7. rows' = Q
    BY <1>1, <1>2, <1>6, StoreIs
  <1>8. Timeline(Q, t) /\ Agrees(fs, Q, lost)
    BY <1>3, <1>4, <1>5, <1>6, AgreesCompacted
  <1>9. /\ Context(w) /\ Known(w) = fs /\ InOrder(w) /\ (\A X : AllReplied(w, X))
        /\ (\A G : Mentions(w, G)) /\ (\A T : Below(w, T)) /\ (\A T, E : MarkedBelow(w, T, E))
    BY <1>1, <1>2, <1>4, SummaryFacts
  <1>10. Kept(w, Q, t, D, lost)
    BY <1>8, <1>9 DEF Kept
  <1>11. Lost' = lost /\ Done' = D
    BY <1>1, <1>2 DEF Lost, Done
  <1>12. /\ channel' = <<>> /\ messages' = <<>> /\ queue' = <<>> /\ pc' = "idle" /\ turn' = turn
         /\ turn # 0
    BY <1>1, NoQueue DEF Inv, Types, TypeOK
  <1>13. LoopTypes' /\ StateTypes'
    BY <1>1, TypesNow DEF LoopTypes, StateTypes
  <1>14. Kept(history', rows', turn, Done', Lost')
    BY <1>2, <1>7, <1>10, <1>11
  <1> QED
    BY <1>12, <1>13, <1>14, IdleAgain

(* While no event waits, there is one timeline.                            *)
LEMMA NothingSent ==
    ASSUME NEW rs, NEW t
    PROVE  TimelinesOf(rs, t, <<>>) = {rs} /\ StoredAfter(rs, t, <<>>) = rs
  <1>1. PICK E : E = {}
    OBVIOUS
  <1>2. <<>> \in Seq(E)
    OBVIOUS
  <1>3. StoredAfter(rs, t, <<>>) = rs
    BY <1>2, StoredSteps
  <1>4. 0..Len(<<>>) = {0} /\ SubSeq(<<>>, 1, 0) = <<>>
    OBVIOUS
  <1>5. TimelinesOf(rs, t, <<>>) = {StoredAfter(rs, t, SubSeq(<<>>, 1, n)) : n \in {0}}
    BY <1>4 DEF TimelinesOf
  <1> QED
    BY <1>3, <1>4, <1>5

(* The prompt of turn t joins the timeline.                                *)
LEMMA PromptStored ==
    ASSUME NEW T \in Nat, NEW t \in Turns, t = T + 1, NEW R, Timeline(R, T),
           NEW row, row = Row("user", t, Prompt(t))
    PROVE  LET Q == Append(R, row) IN
           /\ Timeline(Q, t) /\ NoOut(Q) = NoOut(R) /\ ToolFacts(Q) = ToolFacts(R)
           /\ Q # <<>> /\ Last(Q) = row
           /\ Recalls(Q) = Recalls(R) \cup {Prompt(t)}
           /\ NoOut(R) \cap TurnFacts(t) = {}
           /\ ToolFacts(R) \subseteq UpTo(T)
  <1>1. Timeline(R, t)
    <2>1. R \in Seq(Rows) /\ \A i \in DOMAIN R : R[i] \in Rows
      BY DEF Timeline
    <2>2. \A i \in DOMAIN R : R[i].turn \in Nat
      BY <2>1, ConversationAssumption DEF Rows
    <2> QED
      BY <2>2 DEF Timeline
  <1>2. row \in Rows /\ RowOK(row) /\ row.turn = t /\ row.kind = "user" /\ row.fact = Prompt(t)
    <2>1. row \in Rows /\ RowOK(row)
      BY NewRows
    <2> QED
      BY <2>1 DEF Row
  <1>3. PICK Q : Q = Append(R, row)
    OBVIOUS
  <1>4. /\ Timeline(Q, t) /\ NoOut(Q) = NoOut(R) /\ ToolFacts(Q) = ToolFacts(R)
    BY <1>1, <1>2, <1>3, StoreOther
  <1>5. Q # <<>> /\ Last(Q) = row /\ R \in Seq(Rows)
    BY <1>1, <1>2, <1>3, StoreRow
  <1>6. Recalls(Q) = Recalls(R) \cup {Prompt(t)}
    BY <1>2, <1>3, <1>4, <1>5, RecallsSteps
  <1>7. \A i \in DOMAIN R : R[i].kind = "tool" =>
          R[i].fact \in Facts /\ R[i].fact.turn \in Nat /\ R[i].fact.turn <= T
    <2>1. \A i \in DOMAIN R : R[i] \in Rows /\ RowOK(R[i]) /\ R[i].turn <= T
      BY <1>5 DEF Timeline
    <2>2. \A i \in DOMAIN R : R[i].fact \in Facts
      BY <2>1 DEF Rows
    <2>3. \A f \in Facts : f.turn \in Nat
      BY ConversationAssumption DEF Facts, Turns
    <2> QED
      BY <2>1, <2>2, <2>3 DEF RowOK
  <1>8. ToolFacts(R) \subseteq UpTo(T)
    BY <1>7 DEF ToolFacts, UpTo
  <1>9. NoOut(R) \cap TurnFacts(t) = {}
    <2>1. \A f \in NoOut(R) : f.turn \in Nat /\ f.turn <= T
      BY <1>7 DEF NoOut
    <2> QED
      BY <2>1 DEF TurnFacts
  <1> QED
    BY <1>3, <1>4, <1>5, <1>6, <1>8, <1>9

(* The prompt is stored, and the turn starts with the history.             *)
LEMMA SubmitKeeps ==
    ASSUME Inv, SubmitPrompt
    PROVE  Inv'
  <1>1. /\ pc = "idle" /\ pc' = "setup" /\ turn < MaxTurns /\ turn' = turn + 1
        /\ rows' = Append(rows, Row("user", turn', Prompt(turn')))
        /\ status' = [status EXCEPT ![turn'] = "running"]
        /\ messages' = history
        /\ UNCHANGED <<history, step, queue, observations, lastCall, steering, grants, channel,
                       dropped, unstored, faults, work>>
    BY DEF SubmitPrompt, boundVars
  <1>2. PICK T, t, R, h, fs, lost, ex, row, Q, M, D :
          /\ T = turn /\ t = turn' /\ R = rows /\ h = history /\ fs = Known(h) /\ lost = Lost
          /\ ex = Excused' /\ row = Row("user", t, Prompt(t))
          /\ Q = rows' /\ M = Made' /\ D = Done'
    OBVIOUS
  <1>3. /\ T \in Nat /\ t \in Nat /\ t = T + 1 /\ t \in Turns /\ t \in 0..MaxTurns /\ t # 0
        /\ T <= t /\ t - 1 = T /\ T < t
    <2>1. turn \in 0..MaxTurns /\ MaxTurns \in Nat
      BY ConversationAssumption DEF Inv, Types, TypeOK
    <2> QED
      BY <1>1, <1>2, <2>1 DEF Turns
  <1>4. /\ Timeline(R, T) /\ Agrees(fs, R, lost) /\ Context(h) /\ InOrder(h) /\ Below(h, t)
        /\ AllReplied(h, NoOut(R)) /\ Mentions(h, UpTo(T)) /\ MarkedBelow(h, t, Done)
    BY <1>1, <1>2, <1>3 DEF Inv, RecallOK, ContextsOK, RepliesOK, MarksOK
  <1>5. /\ Timeline(Q, t) /\ NoOut(Q) = NoOut(R) /\ ToolFacts(Q) = ToolFacts(R)
        /\ Q # <<>> /\ Last(Q) = row
        /\ Recalls(Q) = Recalls(R) \cup {Prompt(t)}
        /\ NoOut(R) \cap TurnFacts(t) = {}
        /\ ToolFacts(R) \subseteq UpTo(T)
    <2>1. Q = Append(R, row)
      BY <1>1, <1>2
    <2> QED
      BY <1>2, <1>3, <1>4, <2>1, PromptStored
  <1>6. Lost' = lost /\ ex = lost \cup NoOut(R) \cup TurnFacts(t)
    <2>1. Lost' = lost
      BY <1>1, <1>2 DEF Lost
    <2> QED
      BY <1>2, <1>5, <2>1 DEF Excused
  <1>7. channel' = <<>> /\ queue' = <<>> /\ Queued' = {} /\ QueueTypes'
    <2>1. channel = <<>>
      BY <1>1 DEF Inv, Types, TypeOK
    <2>2. queue = <<>>
      BY <1>1, NoQueue
    <2> QED
      BY <1>1, <2>1, <2>2, NoQueueTypes
  <1>8. Timelines' = {Q} /\ Final' = Q
    <2>1. TimelinesOf(Q, t, <<>>) = {Q} /\ StoredAfter(Q, t, <<>>) = Q
      BY NothingSent
    <2>2. Timelines' = TimelinesOf(Q, t, <<>>) /\ Final' = StoredAfter(Q, t, <<>>)
      BY <1>2, <1>7 DEF Timelines, Final, Stored
    <2> QED
      BY <2>1, <2>2
  <1>9. Prompt(t) \in TurnFacts(t) /\ Prompt(t) \in Facts
    <2>1. Prompt(t) \in Facts
      BY <1>3, MessageShapes
    <2> QED
      BY <2>1 DEF TurnFacts, Prompt
  <1>10. fs \ (lost \cup NoOut(R)) = Recalls(R) \ (lost \cup NoOut(R))
    BY <1>4 DEF Agrees
  <1>11. Agrees(fs \cup {Prompt(t)}, Q, lost)
    BY <1>5, <1>10 DEF Agrees
  <1>12. Recalls(Q) \ ex = fs \ ex
    BY <1>5, <1>6, <1>9, <1>10
  <1>13. Stands(Q, t, fs, ex, NoOut(Q))
    BY <1>5, <1>12 DEF Stands
  <1>14. RecallOK'
    <2>1. Held' = fs \cup {Prompt(t)} /\ Known(messages') = fs /\ Known(history') = fs
      BY <1>1, <1>2 DEF Held
    <2> QED
      BY <1>1, <1>2, <1>5, <1>6, <1>8, <1>11, <1>13, <2>1 DEF RecallOK
  <1>15. UpTo(T) \subseteq M
    <2>1. \A f \in Facts : f.turn \in Nat
      BY ConversationAssumption DEF Facts, Turns
    <2>2. \A f \in Facts : f.turn <= T => f.turn < t
      BY <1>3, <2>1
    <2>3. \A s : UpTo(T) \subseteq MadeBefore(t, s)
      BY <2>2 DEF UpTo, MadeBefore
    <2> QED
      BY <1>2, <2>3 DEF Made
  <1>16. CallsOK'
    BY <1>1, <1>2, <1>5, <1>7, <1>8, <1>15 DEF CallsOK
  <1>17. ContextsOK'
    BY <1>1, <1>2, <1>4 DEF ContextsOK
  <1>18. RepliesOK'
    <2>1. Mentions(h, M)
      BY <1>3, <1>4, <1>15, Monotone
    <2>2. Waiting(h, {})
      BY DEF Waiting
    <2>3. AllReplied(h, NoOut(Q)) /\ NoOut(Q) \cup {} = NoOut(Q)
      BY <1>4, <1>5
    <2> QED
      BY <1>1, <1>2, <1>3, <1>4, <1>7, <2>1, <2>2, <2>3 DEF RepliesOK
  <1>19. MarkedBelow(h, t, D)
    <2>1. \A u \in Turns : u # t => status'[u] = status[u]
      BY <1>1, <1>2, <1>3 DEF Inv, Types, TypeOK
    <2>2. \A u \in Turns : u < t => u # t
      BY <1>3 DEF Turns
    <2>3. \A u \in Turns : u < t /\ u \in Done => u \in D
      BY <1>1, <1>2, <2>1, <2>2 DEF Done
    <2> QED
      BY <1>4, <2>3 DEF MarkedBelow
  <1>20. MarksOK'
    BY <1>1, <1>2, <1>19 DEF MarksOK
  <1>21. Types'
    <2>1. LoopTypes'
      BY <1>1, TypesNow DEF LoopTypes
    <2>2. status' \in [Turns -> {"absent", "running", "completed", "failed", "cancelled",
                                 "interrupted"}]
      BY <1>1, <1>2, <1>3, TypesNow DEF StateTypes
    <2>3. StateTypes'
      BY <1>1, <2>2, TypesNow DEF StateTypes
    <2>4. h \in Seq(Messages) /\ <<>> \in Seq(Events)
      BY <1>4 DEF Context
    <2>5. TypeOK'
      BY <1>1, <1>2, <1>3, <1>7, <2>1, <2>3, <2>4 DEF TypeOK, LoopTypes, StateTypes, QueueTypes
    <2> QED
      BY <1>1, <1>2, <1>3, <1>7, <2>4, <2>5 DEF Types, QueueTypes
  <1> QED
    BY <1>14, <1>16, <1>17, <1>18, <1>20, <1>21 DEF Inv

-----------------------------------------------------------------------------
(* The invariant holds.                                                    *)

LEMMA InitInv == Init => Inv
  <1> SUFFICES ASSUME Init
               PROVE  Inv
    OBVIOUS
  <1>1. /\ history = <<>> /\ messages = <<>> /\ pc = "idle" /\ turn = 0 /\ step = 0
        /\ queue = <<>> /\ observations = <<>> /\ lastCall = "none" /\ steering = "none"
        /\ grants = {} /\ channel = <<>> /\ rows = <<>>
        /\ status = [t \in Turns |-> "absent"]
        /\ dropped = {} /\ unstored = {} /\ faults = 0 /\ work = 0
    BY DEF Init
  <1>2. Queued = {}
    BY <1>1 DEF Queued
  <1>3. Types
    <2>1. 0 \in 0..MaxTurns /\ 0 \in 0..MaxSteps /\ 0 \in 0..MaxFaults /\ 0 \in 0..MaxWork
      BY ConversationAssumption
    <2>2. /\ <<>> \in Seq(Messages) /\ <<>> \in Seq(Calls) /\ <<>> \in Seq({Observation})
          /\ <<>> \in Seq(Events) /\ DOMAIN <<>> = {}
      OBVIOUS
    <2>3. status \in [Turns -> {"absent", "running", "completed", "failed", "cancelled",
                                "interrupted"}]
      BY <1>1
    <2>4. TypeOK
      BY <1>1, <2>1, <2>2, <2>3 DEF TypeOK
    <2> QED
      BY <1>1, <1>2, <2>2, <2>4 DEF Types
  <1>4. RecallOK
    <2>1. Timeline(<<>>, 0)
      BY DEF Timeline, Ordered
    <2>2. Recalls(<<>>) = {}
      <3>1. PICK st, ends : st = [open |-> 0, context |-> <<>>] /\ ends = AllDone
        OBVIOUS
      <3>2. Replayed(<<>>, ends) = st
        <4>1. <<>> \in Seq(Rows)
          OBVIOUS
        <4> QED
          BY <3>1, <4>1, ReplayedSteps
      <3> QED
        BY <3>1, <3>2, NoMessages DEF Recalls
    <2> QED
      BY <1>1, <2>1, <2>2, NoMessages DEF RecallOK, Agrees
  <1>5. CallsOK
    BY <1>1, <1>2 DEF CallsOK
  <1>6. ContextsOK
    BY <1>1, NoMessages DEF ContextsOK
  <1>7. RepliesOK
    <2>1. \A F : Mentions(<<>>, F)
      BY DEF Mentions
    <2> QED
      BY <1>1, <2>1, NoMessages DEF RepliesOK
  <1>8. MarksOK
    BY <1>1, NoMessages DEF MarksOK
  <1> QED
    BY <1>3, <1>4, <1>5, <1>6, <1>7, <1>8 DEF Inv

(* Every step keeps the invariant.                                         *)
LEMMA StepInv == Inv /\ [Next]_vars => Inv'
  <1> SUFFICES ASSUME Inv, [Next]_vars
               PROVE  Inv'
    OBVIOUS
  <1>1. CASE SubmitPrompt
    BY <1>1, SubmitKeeps
  <1>2. CASE SetupFails \/ SetupCompactionFails
    BY <1>2, SetupEnds
  <1>3. CASE SetsUp
    BY <1>3, SetsUpKeeps
  <1>4. CASE LoopFails \/ RepeatedCall \/ DeadlinePasses
    BY <1>4, LoopEnds
  <1>5. CASE LoopCompacts \/ CompactsAtEnd
    BY <1>5, CompactionSteps
  <1>6. CASE Ask
    BY <1>6, AskKeeps
  <1>7. CASE ProviderFails
    BY <1>7, RequestEnds
  <1>8. CASE Answers
    BY <1>8, AnswersKeeps
  <1>9. CASE Finishes
    BY <1>9, FinishesKeeps
  <1>10. CASE BatchDone
    BY <1>10, BatchDoneKeeps
  <1>11. CASE SkipCall \/ RefuseCall \/ ApprovalFails \/ ToolEnds
    BY <1>11, CallSteps
  <1>12. CASE StartCall
    BY <1>12, StartKeeps
  <1>13. CASE Approves
    BY <1>13, ApprovesKeeps
  <1>14. CASE Declines
    BY <1>14, DeclinesKeeps
  <1>15. CASE StopTurn
    BY <1>15, StopKeeps
  <1>16. CASE StoreFails
    BY <1>16, StoreFailsKeeps
  <1>17. CASE Compact
    BY <1>17, CompactKeeps
  <1>18. CASE Restart
    BY <1>18, RestartKeeps
  <1>19. CASE Steer \/ ResetPermissions \/ UNCHANGED vars
    BY <1>19, FrameSteps
  <1> QED
    BY <1>1, <1>2, <1>3, <1>4, <1>5, <1>6, <1>7, <1>8, <1>9, <1>10, <1>11, <1>12, <1>13, <1>14,
       <1>15, <1>16, <1>17, <1>18, <1>19 DEF Next

(* The invariant the theorems rest on: whatever of the running turn's      *)
(* events acp/prompts.rs has stored, the timeline agrees with the history  *)
(* that agent.rs keeps, and both answer their calls and mark the turns     *)
(* that did not complete.                                                  *)
THEOREM InvHolds == Spec => []Inv
  <1>1. Init => Inv
    BY InitInv
  <1>2. Inv /\ [Next]_vars => Inv'
    BY StepInv
  <1> QED
    BY <1>1, <1>2, PTL DEF Spec

LEMMA RequestAnswers == Inv => RequestsAnswerCalls
  <1> SUFFICES ASSUME Inv
               PROVE  RequestsAnswerCalls
    OBVIOUS
  <1>1. TypeOK
    BY DEF Inv, Types
  <1>2. ASSUME pc = "asking", NEW f \in Unanswered(messages)
        PROVE  \E i \in DOMAIN rows : rows[i].kind = "tool" /\ rows[i].fact = f /\ ~rows[i].out
    <2>1. Queued = {}
      BY <1>2, NoQueue
    <2>2. AllReplied(messages, NoOut(rows) \cup {})
      BY <1>2, <2>1 DEF Inv, RepliesOK
    <2>3. PICK i \in DOMAIN messages : f \in messages[i].calls /\ ~Replied(messages, i, f)
      BY <1>2 DEF Unanswered, Replied
    <2>4. f \in NoOut(rows)
      BY <2>2, <2>3 DEF AllReplied
    <2> QED
      BY <2>4 DEF NoOut
  <1> QED
    BY <1>1, <1>2 DEF RequestsAnswerCalls

(* "Providers require every tool reply before the next user message": in   *)
(* the requests of run_loop (agent.rs), through steering, compactions,     *)
(* refused, skipped, failed and interrupted calls, only a call that was    *)
(* stored without an output may go unanswered.  The types are included.    *)
THEOREM RequestsAnswered == Spec => []RequestsAnswerCalls
  <1>1. Inv => RequestsAnswerCalls
    BY RequestAnswers
  <1> QED
    BY <1>1, InvHolds, PTL

LEMMA RestartRecalls == Inv => RestartKeepsContext
  <1> SUFFICES ASSUME Inv, pc = "idle"
               PROVE  Known(history) \ (Lost \cup NoOut(rows))
                        = Known(Restored(rows, status)) \ (Lost \cup NoOut(rows))
    BY DEF RestartKeepsContext, Lost, NoOut
  <1>1. Timeline(rows, turn) /\ Agrees(Known(history), rows, Lost) /\ turn \in Nat
    <2>1. turn \in Nat
      BY ConversationAssumption DEF Inv, Types, TypeOK
    <2> QED
      BY <2>1 DEF Inv, RecallOK
  <1>2. Known(Restored(rows, status)) = Recalls(rows)
    BY <1>1, RestoredOK
  <1> QED
    BY <1>1, <1>2 DEF Agrees

(* "Pruning here would silently discard facts on restart or Stop": what    *)
(* restore_session rebuilds between turns recalls the same prompts,        *)
(* steering inputs and tool results as the history of the agent, but for   *)
(* turns that did not save or could not be stored and for empty results.   *)
THEOREM ContextKept == Spec => []RestartKeepsContext
  <1>1. Inv => RestartKeepsContext
    BY RestartRecalls
  <1> QED
    BY <1>1, InvHolds, PTL

LEMMA EarlierMarked == Inv => UnfinishedTurnIsMarked
  <1> SUFFICES ASSUME Inv, pc = "asking", NEW i \in DOMAIN messages, NEW t \in 1..(turn - 1),
                      messages[i].role = "user",
                      messages[i].knows \subseteq {Prompt(t), Steered(t)},
                      status[t] # "completed", t \notin unstored
               PROVE  Marked(messages, i, t)
    BY DEF UnfinishedTurnIsMarked, Marked
  <1>1. turn \in 0..MaxTurns /\ MaxTurns \in Nat
    BY ConversationAssumption DEF Inv, Types, TypeOK
  <1>2. t \in Turns /\ t < turn
    BY <1>1 DEF Turns
  <1>3. t \notin Done /\ UserOf(messages[i], t)
    BY DEF Done, UserOf
  <1>4. MarkedBelow(messages, turn, Done)
    BY DEF Inv, MarksOK
  <1> QED
    BY <1>2, <1>3, <1>4 DEF MarkedBelow

(* "Preserve its partial response [...] but do not assume unfinished       *)
(* claims or actions completed": no request of run_loop (agent.rs) shows   *)
(* an earlier turn that did not complete without the note behind it,       *)
(* whether the turn failed, was stopped or was interrupted by the death    *)
(* of the process, and whoever wrote the note, the agent or the replay.    *)
THEOREM UnfinishedMarked == Spec => []UnfinishedTurnIsMarked
  <1>1. Inv => UnfinishedTurnIsMarked
    BY EarlierMarked
  <1> QED
    BY <1>1, InvHolds, PTL
=============================================================================
