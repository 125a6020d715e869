------------------------- MODULE MessageQueueProofs -------------------------
(***************************************************************************)
(* The outbox of one thread, for any number of messages and accounts and   *)
(* whatever fails or is late: nothing is sent unasked, or twice at a time, *)
(* no message reaches another account, none is lost from storage, and none *)
(* that waits for "send now" is stranded.                                  *)
(***************************************************************************)
EXTENDS MessageQueue, FiniteSetTheorems, TLAPS

-----------------------------------------------------------------------------
(* The inductive invariant: first what holds of an object q between any    *)
(* two of its methods.  C is what the user wants sent; the ledger w has    *)
(* the owner of each message, those that were reserved (taken), those that *)
(* the transcript shows (rows), and those the outbox owes its user (owed). *)

Interruption == [serial : Nat, id : Messages \cup {None}, ready : BOOLEAN]

Calls ==
    [id : Messages, generation : Nat, at : {"persist", "prompt", "state"},
     reply : {"none", "running", "end_turn", "cancelled", "error"}]

Queue ==
    [account : Accounts \cup {None}, runtime : 0..MaxTrouble, generation : Nat, state : ClientState,
     items : Seq(QueuedMessage), paused : BOOLEAN, freshSends : SUBSET Messages,
     interruption : Interruption \cup {None}, loading : BOOLEAN,
     dispatches : SUBSET Calls,
     interrupts : SUBSET [serial : Nat, generation : Nat, at : {"cancel", "state"}],
     restores : SUBSET [generation : Nat, account : Accounts, rest : Seq(QueuedMessage)],
     serial : Nat, saved : [Accounts -> Seq(QueuedMessage)],
     payloads : SUBSET (Accounts \X Messages), partial : BOOLEAN, clobbered : BOOLEAN]

Distinct(items) == \A j, k \in DOMAIN items : items[j].id = items[k].id => j = k

(* Calls and interruptions are numbered in the order in which they began.  *)
Dated(q) ==
    /\ \A c \in q.dispatches : c.generation <= q.generation
    /\ \A c \in q.interrupts : c.generation <= q.generation /\ c.serial \in 1..q.serial
    /\ \A c \in q.restores : c.generation <= q.generation
    /\ q.interruption # None => q.interruption.serial \in 1..q.serial

(* The state it read last is of its context. *)
Seen(q, w) ==
    /\ q.state.account = q.account
    /\ q.account # None => q.state.runtime = q.runtime
    /\ q.state.rows \subseteq w.rows

(* What is stored has no status. *)
Plain(items) == \A k \in DOMAIN items : items[k].status = "queued"

(* A message is listed once, under its account, and its payload is stored. *)
Belongs(w, id, a) == w.owner[id] = a /\ id \in w.taken

Home(q, w) ==
    /\ q.account = None => Ids(q.items) = {}
    /\ Distinct(q.items) /\ \A a \in Accounts : Distinct(q.saved[a]) /\ Plain(q.saved[a])
    /\ \A id \in Ids(q.items) : Belongs(w, id, q.account) /\ <<q.account, id>> \in q.payloads
    /\ \A a \in Accounts : \A id \in Ids(q.saved[a]) : Belongs(w, id, a) /\ <<a, id>> \in q.payloads
    /\ \A r \in q.restores : Plain(r.rest) /\ \A id \in Ids(r.rest) : Belongs(w, id, r.account)

(* The messages that are listed, fresh, being sent, or to be sent now. *)
InFlight(q) == {d \in q.dispatches : Current(q, d)}

Touched(q) ==
    Ids(q.items) \cup q.freshSends \cup {d.id : d \in InFlight(q)}
        \cup {id \in Messages : q.interruption # None /\ q.interruption.id = id}

Known(q, w) == Touched(q) \subseteq w.taken

(* While the outbox is read back there is one restore of this context, and *)
(* it has the messages that nothing has touched yet.                       *)
Reading(q) ==
    /\ \A r \in q.restores : r.rest # <<>>
    /\ \A r \in q.restores : Current(q, r) =>
         /\ q.loading /\ q.partial /\ q.account = r.account
         /\ Distinct(r.rest) /\ Ids(r.rest) \cap Touched(q) = {}
    /\ \A r, s \in q.restores : Current(q, r) /\ Current(q, s) => r = s
    /\ q.loading /\ q.account # None => \E r \in q.restores : Current(q, r)

(* What is owed is saved and, once it has been read back, listed, unless a *)
(* save replaced an outbox that was not read back.                         *)
OwedTo(w, a) == {m \in w.owed : w.owner[m] = a}

Durable(q, w) ==
    ~q.clobbered =>
        /\ \A a \in Accounts : OwedTo(w, a) \subseteq Ids(q.saved[a])
        /\ q.account # None /\ ~q.partial => OwedTo(w, q.account) \subseteq Ids(q.items)
        /\ \A r \in q.restores : Current(q, r) =>
             OwedTo(w, q.account) \subseteq Ids(q.items) \cup Ids(r.rest)

Base(q, w) ==
    /\ q \in Queue /\ Dated(q) /\ Seen(q, w) /\ Home(q, w) /\ Known(q, w)
    /\ Reading(q) /\ Durable(q, w)

One(q) == \A d, e \in q.dispatches : Current(q, d) /\ Current(q, e) => d = e

(* The message of a dispatch is sending, and no longer fresh. *)
Sending(q) ==
    \A d \in q.dispatches : Current(q, d) =>
        /\ \A k \in DOMAIN q.items : q.items[k].id = d.id =>
             q.items[k].status = "sending" /\ ~q.items[k].preparing
        /\ d.id \notin q.freshSends

(* The message of the interruption, and no other, is stopping. *)
Stopping(q) ==
    /\ \A k \in DOMAIN q.items : q.items[k].status = "stopping" =>
         q.interruption # None /\ q.interruption.id = q.items[k].id
    /\ q.interruption # None =>
         /\ \A k \in DOMAIN q.items : q.items[k].id = q.interruption.id =>
              q.items[k].status = "stopping" /\ ~q.items[k].preparing
         /\ q.interruption.id \notin q.freshSends
         /\ \A d \in q.dispatches : Current(q, d) => d.id # q.interruption.id

(* An interruption that is not ready has its call to come. *)
Awaited(q) ==
    q.interruption # None /\ ~q.interruption.ready =>
        \E p \in q.interrupts : Current(q, p) /\ p.serial = q.interruption.serial

(* What may go out has been asked for. *)
MayGo(q, k) ==
    /\ ~q.items[k].preparing /\ q.items[k].status = "queued"
    /\ q.paused => q.items[k].id \in q.freshSends

Asked(q, C) ==
    /\ \A k \in DOMAIN q.items : MayGo(q, k) => q.items[k].id \in C
    /\ q.interruption # None => q.interruption.id \in C \cup {None}
    /\ \A d \in q.dispatches : Current(q, d) /\ d.at = "persist" => d.id \in C

Flow(q, C) == One(q) /\ Sending(q) /\ Stopping(q) /\ Awaited(q) /\ Asked(q, C)

Object(q, w, C) == Base(q, w) /\ Flow(q, C)

(* What pump establishes: a message that waits to be sent now cannot go.   *)
Pumped(q) ==
    \A k \in DOMAIN q.items : q.items[k].status = "stopping" /\ q.interruption.ready =>
        (\E r \in q.restores : Current(q, r)) \/ ~Idle(q)

(* What is sent in a step from q to r was asked for.                       *)
SentAsked(q, r, C) ==
    \A d \in r.dispatches \ q.dispatches :
        d.at = "prompt" /\ d.reply = "none" => d.id \in C /\ Current(r, d)

(* Then what holds of the whole system between two of its steps.           *)
Taken == {m \in Messages : submissions[m].at \in {"reserved", "done"}}

Ledger ==
    [owner |-> owner, taken |-> Taken, rows |-> native.rows,
     owed |-> Taken \ (gone \cup native.rows)]

Submission == [at : {"none", "payload", "reserved", "refused", "done"}, generation : Nat]

World ==
    /\ native \in ClientState /\ faults \in Nat
    /\ submissions \in [Messages -> Submission]
    /\ owner \in [Messages -> Accounts \cup {None}]
    /\ consent \subseteq Messages /\ gone \subseteq Messages

Bounded == mq.generation <= MaxGeneration /\ mq.serial <= MaxInterrupts

(* A payload is stored for the account that was current. *)
Submitted ==
    \A m \in Messages :
        /\ submissions[m].at \in {"payload", "reserved", "done"} => owner[m] \in Accounts
        /\ submissions[m].at = "payload" =>
             /\ submissions[m].generation <= mq.generation
             /\ submissions[m].generation = mq.generation => owner[m] = mq.account

IInv ==
    /\ World /\ Bounded /\ Submitted
    /\ Object(mq, Ledger, consent) /\ Pumped(mq) /\ unasked = {}

-----------------------------------------------------------------------------
(* Sequences of messages.                                                  *)

LEMMA SeqFacts ==
    ASSUME NEW S, NEW s \in Seq(S)
    PROVE  /\ Len(s) \in Nat /\ DOMAIN s = 1..Len(s)
           /\ \A i \in DOMAIN s : s[i] \in S
  OBVIOUS

LEMMA FunctionIsSeq ==
    ASSUME NEW S, NEW s \in Seq(S), NEW f \in [DOMAIN s -> S]
    PROVE  f \in Seq(S) /\ DOMAIN f = DOMAIN s
  <1>1. DOMAIN s = 1..Len(s) /\ Len(s) \in Nat
    OBVIOUS
  <1> QED
    BY <1>1

LEMMA AppendFacts ==
    ASSUME NEW S, NEW s \in Seq(S), NEW x \in S
    PROVE  /\ Append(s, x) \in Seq(S)
           /\ DOMAIN Append(s, x) = DOMAIN s \cup {Len(s) + 1}
           /\ Len(s) + 1 \notin DOMAIN s
           /\ \A i \in DOMAIN s : Append(s, x)[i] = s[i]
           /\ Append(s, x)[Len(s) + 1] = x
  OBVIOUS

Upto(S, i) == {j \in S : j <= i}

LEMMA RankFacts ==
    ASSUME NEW n \in Nat, NEW S \in SUBSET (1..n)
    PROVE  /\ IsFiniteSet(S) /\ Cardinality(S) \in Nat
           /\ \A i \in S : Cardinality(Upto(S, i)) \in 1..Cardinality(S)
           /\ \A i, j \in S : i < j => Cardinality(Upto(S, i)) < Cardinality(Upto(S, j))
           /\ \A k \in 1..Cardinality(S) : \E i \in S : Cardinality(Upto(S, i)) = k
  <1>1. IsFiniteSet(S) /\ Cardinality(S) \in Nat
    <2>1. IsFiniteSet(1..n)
      BY FS_Interval
    <2>2. IsFiniteSet(S)
      BY <2>1, FS_Subset
    <2> QED
      BY <2>2, FS_CardinalityType
  <1>2. ASSUME NEW i \in S
        PROVE  /\ Upto(S, i) \in SUBSET S /\ IsFiniteSet(Upto(S, i)) /\ i \in Upto(S, i)
               /\ Cardinality(Upto(S, i)) \in 1..Cardinality(S)
    <2>1. Upto(S, i) \in SUBSET S /\ i \in Upto(S, i)
      BY DEF Upto
    <2>2. /\ IsFiniteSet(Upto(S, i)) /\ Cardinality(Upto(S, i)) <= Cardinality(S)
      BY <1>1, <2>1, FS_Subset
    <2>3. Cardinality(Upto(S, i)) \in Nat /\ Cardinality(Upto(S, i)) # 0
      BY <2>1, <2>2, FS_CardinalityType, FS_EmptySet
    <2> QED
      BY <1>1, <2>1, <2>2, <2>3
  <1>3. ASSUME NEW i \in S, NEW j \in S, i < j
        PROVE  Cardinality(Upto(S, i)) < Cardinality(Upto(S, j))
    <2>0. i \in Nat /\ j \in Nat
      OBVIOUS
    <2>1. Upto(S, i) \in SUBSET Upto(S, j)
      <3>1. ASSUME NEW x \in Upto(S, i) PROVE x \in Upto(S, j)
        <4>1. x \in S /\ x <= i /\ x \in Nat
          BY DEF Upto
        <4>2. x <= j
          BY <1>3, <2>0, <4>1
        <4> QED
          BY <4>1, <4>2 DEF Upto
      <3> QED
        BY <3>1
    <2>2. j \notin Upto(S, i) /\ j \in Upto(S, j)
      BY <1>3, <2>0 DEF Upto
    <2>3. /\ Cardinality(Upto(S, i)) <= Cardinality(Upto(S, j))
          /\ Cardinality(Upto(S, j)) = Cardinality(Upto(S, i)) => Upto(S, j) = Upto(S, i)
      BY <1>2, <2>1, FS_Subset
    <2>4. Cardinality(Upto(S, i)) # Cardinality(Upto(S, j))
      BY <2>2, <2>3
    <2>5. Cardinality(Upto(S, i)) \in Nat /\ Cardinality(Upto(S, j)) \in Nat
      BY <1>2, FS_CardinalityType
    <2> QED
      BY <2>3, <2>4, <2>5
  <1>4. ASSUME NEW k \in 1..Cardinality(S) PROVE \E i \in S : Cardinality(Upto(S, i)) = k
    <2> DEFINE f == [i \in S |-> Cardinality(Upto(S, i))]
               T == 1..Cardinality(S)
    <2>1. f \in [S -> T]
      BY <1>2
    <2>2. \A i, j \in S : f[i] = f[j] => i = j
      <3>1. ASSUME NEW i \in S, NEW j \in S, f[i] = f[j] PROVE i = j
        <4>1. i \in Nat /\ j \in Nat
          OBVIOUS
        <4>2. ~(i < j) /\ ~(j < i)
          BY <1>2, <1>3, <3>1
        <4> QED
          BY <4>1, <4>2
      <3> QED
        BY <3>1
    <2>3. f \in Injection(S, T)
      BY <2>1, <2>2 DEF Injection, IsInjective
    <2>4. IsFiniteSet(T) /\ Cardinality(T) = Cardinality(S)
      BY <1>1, FS_Interval
    <2>5. f \in Surjection(S, T)
      <3> HIDE DEF f, T
      <3> QED
        BY <2>3, <2>4, FS_Injection
    <2> QED
      BY <2>5 DEF Surjection
  <1> QED
    BY <1>1, <1>2, <1>3, <1>4

(* What Kept keeps. *)
LEMMA KeptFacts ==
    ASSUME NEW s \in Seq(QueuedMessage), NEW S
    PROVE  /\ Kept(s, S) \in Seq(QueuedMessage)
           /\ \A n \in DOMAIN Kept(s, S) : \E k \in DOMAIN s : Kept(s, S)[n] = s[k] /\ s[k].id \notin S
           /\ Ids(Kept(s, S)) = Ids(s) \ S
           /\ Distinct(s) => Distinct(Kept(s, S))
  <1> DEFINE keep == {k \in DOMAIN s : s[k].id \notin S}
             R(k) == Cardinality(Upto(keep, k))
             At(n) == CHOOSE k \in keep : R(k) = n
             z == Kept(s, S)
  <1>1. DOMAIN s = 1..Len(s) /\ Len(s) \in Nat /\ keep \in SUBSET (1..Len(s))
    OBVIOUS
  <1>2. /\ Cardinality(keep) \in Nat
        /\ \A i \in keep : R(i) \in 1..Cardinality(keep)
        /\ \A i, j \in keep : i < j => R(i) < R(j)
        /\ \A n \in 1..Cardinality(keep) : \E i \in keep : R(i) = n
    <2> HIDE DEF keep
    <2> QED
      BY <1>1, RankFacts
  <1>3. z = [n \in 1..Cardinality(keep) |-> s[At(n)]]
    BY DEF Kept, Upto
  <1>4. \A n \in 1..Cardinality(keep) : At(n) \in keep /\ R(At(n)) = n
    <2> HIDE DEF keep, R
    <2> QED
      BY <1>2
  <1>5. \A k \in keep : At(R(k)) = k
    <2>1. ASSUME NEW k \in keep PROVE At(R(k)) = k
      <3>1. PICK i : i = At(R(k))
        OBVIOUS
      <3>2. i \in keep /\ R(i) = R(k) /\ R(k) \in Nat
        BY <1>2, <1>4, <3>1
      <3>3. i \in Nat /\ k \in Nat
        BY <1>1, <3>2
      <3>4. ~(i < k) /\ ~(k < i)
        <4> HIDE DEF R, keep
        <4> QED
          BY <1>2, <3>2
      <3>5. i = k
        BY <3>3, <3>4
      <3> QED
        BY <3>1, <3>5
    <2> QED
      BY <2>1
  <1>6. \A k \in keep : k \in DOMAIN s /\ s[k].id \notin S /\ s[k] \in QueuedMessage
    BY SeqFacts
  <1> HIDE DEF keep, R, At, z
  <1>7. DOMAIN z = 1..Cardinality(keep) /\ \A n \in DOMAIN z : z[n] = s[At(n)] /\ At(n) \in keep
    BY <1>3, <1>4
  <1>8. z \in Seq(QueuedMessage)
    <2>1. z \in [1..Cardinality(keep) -> QueuedMessage]
      BY <1>3, <1>6, <1>7
    <2> QED
      BY <1>2, <2>1
  <1>9. Ids(z) = Ids(s) \ S
    <2>1. ASSUME NEW id \in Ids(z) PROVE id \in Ids(s) \ S
      <3>1. PICK n \in DOMAIN z : z[n].id = id
        BY DEF Ids
      <3> QED
        BY <1>6, <1>7, <3>1 DEF Ids
    <2>2. ASSUME NEW id \in Ids(s) \ S PROVE id \in Ids(z)
      <3>1. PICK k \in DOMAIN s : s[k].id = id
        BY DEF Ids
      <3>2. k \in keep
        BY <3>1 DEF keep
      <3>3. R(k) \in DOMAIN z /\ z[R(k)] = s[k]
        BY <1>2, <1>5, <1>7, <3>2
      <3> QED
        BY <3>1, <3>3 DEF Ids
    <2> QED
      BY <2>1, <2>2
  <1>10. ASSUME Distinct(s) PROVE Distinct(z)
    <2>1. ASSUME NEW m \in DOMAIN z, NEW n \in DOMAIN z, z[m].id = z[n].id PROVE m = n
      <3>1. s[At(m)].id = s[At(n)].id
        BY <1>7, <2>1
      <3>2. At(m) = At(n)
        BY <1>6, <1>7, <1>10, <3>1 DEF Distinct
      <3> QED
        BY <1>4, <1>7, <3>2
    <2> QED
      BY <2>1 DEF Distinct
  <1> QED
    BY <1>6, <1>7, <1>8, <1>9, <1>10 DEF z

(* The same messages at the same places. *)
SameIds(s, z) == DOMAIN z = DOMAIN s /\ \A k \in DOMAIN s : z[k].id = s[k].id

LEMMA SameIdsFacts ==
    ASSUME NEW s, NEW z, SameIds(s, z)
    PROVE  Ids(z) = Ids(s) /\ (Distinct(s) => Distinct(z))
  BY DEF SameIds, Ids, Distinct

-----------------------------------------------------------------------------
(* The small methods: which fields they change.                            *)

Statuses == {"queued", "sending", "stopping"}

SameContext(q, r) ==
    /\ r.account = q.account /\ r.runtime = q.runtime /\ r.generation = q.generation
    /\ r.state = q.state /\ r.loading = q.loading /\ r.restores = q.restores
    /\ r.partial = q.partial

SameStore(q, r) == r.saved = q.saved /\ r.payloads = q.payloads /\ r.clobbered = q.clobbered

SameCalls(q, r) ==
    /\ r.dispatches = q.dispatches /\ r.interrupts = q.interrupts /\ r.serial = q.serial
    /\ r.interruption = q.interruption

SameList(q, r) == r.items = q.items /\ r.paused = q.paused /\ r.freshSends = q.freshSends

LEMMA FieldTypes ==
    ASSUME NEW q \in Queue
    PROVE  /\ q.account \in Accounts \cup {None} /\ q.runtime \in 0..MaxTrouble
           /\ q.generation \in Nat /\ q.state \in ClientState
           /\ q.items \in Seq(QueuedMessage) /\ q.paused \in BOOLEAN /\ q.freshSends \subseteq Messages
           /\ q.interruption \in Interruption \cup {None} /\ q.loading \in BOOLEAN
           /\ q.dispatches \subseteq Calls
           /\ q.interrupts \subseteq [serial : Nat, generation : Nat, at : {"cancel", "state"}]
           /\ q.restores \subseteq [generation : Nat, account : Accounts, rest : Seq(QueuedMessage)]
           /\ q.serial \in Nat /\ q.saved \in [Accounts -> Seq(QueuedMessage)]
           /\ q.payloads \subseteq Accounts \X Messages
           /\ q.partial \in BOOLEAN /\ q.clobbered \in BOOLEAN
  BY DEF Queue

LEMMA ItemTypes ==
    ASSUME NEW s \in Seq(QueuedMessage)
    PROVE  /\ Ids(s) \subseteq Messages
           /\ \A k \in DOMAIN s : /\ s[k] \in QueuedMessage /\ s[k].id \in Messages
                                  /\ s[k].status \in Statuses /\ s[k].preparing \in BOOLEAN
                                  /\ s[k].revision \in 0..MaxTrouble
  <1>1. \A k \in DOMAIN s : s[k] \in QueuedMessage
    BY SeqFacts
  <1>2. \A i \in QueuedMessage : /\ i.id \in Messages /\ i.status \in Statuses
                                 /\ i.preparing \in BOOLEAN /\ i.revision \in 0..MaxTrouble
    BY DEF QueuedMessage, Statuses
  <1> QED
    BY <1>1, <1>2 DEF Ids

LEMMA CallTypes ==
    ASSUME NEW q \in Queue
    PROVE  /\ \A d \in q.dispatches : d.id \in Messages /\ d.generation \in Nat
           /\ q.interruption # None => /\ q.interruption.id \in Messages \cup {None}
                                       /\ q.interruption.serial \in Nat /\ q.interruption.ready \in BOOLEAN
           /\ \A r \in q.restores : /\ r.rest \in Seq(QueuedMessage) /\ r.account \in Accounts
                                    /\ r.generation \in Nat
           /\ \A p \in q.interrupts : p.serial \in Nat /\ p.generation \in Nat
  BY FieldTypes DEF Calls, Interruption

LEMMA ItemOfFacts ==
    ASSUME NEW q, NEW id \in Ids(q.items)
    PROVE  \E k \in DOMAIN q.items : ItemOf(q, id) = q.items[k] /\ q.items[k].id = id
  BY DEF Ids, ItemOf

(* The item of message id has got the status s. *)
Marked(items, z, id, s) ==
    /\ SameIds(items, z)
    /\ \A k \in DOMAIN items :
         /\ z[k].preparing = items[k].preparing /\ z[k].revision = items[k].revision
         /\ z[k].status = IF items[k].id = id THEN s ELSE items[k].status

Restated(q, r, id, s) ==
    /\ r \in Queue /\ SameContext(q, r) /\ SameStore(q, r) /\ SameCalls(q, r)
    /\ r.paused = q.paused /\ r.freshSends = q.freshSends
    /\ Marked(q.items, r.items, id, s)

LEMMA PutFacts ==
    ASSUME NEW q \in Queue, NEW item \in QueuedMessage
    PROVE  LET r == Put(q, item) IN
           /\ r \in Queue /\ SameContext(q, r) /\ SameStore(q, r) /\ SameCalls(q, r)
           /\ r.paused = q.paused /\ r.freshSends = q.freshSends
           /\ SameIds(q.items, r.items)
           /\ \A k \in DOMAIN q.items : r.items[k] = IF q.items[k].id = item.id THEN item ELSE q.items[k]
  <1> DEFINE r == Put(q, item)
             z == [k \in DOMAIN q.items |-> IF q.items[k].id = item.id THEN item ELSE q.items[k]]
  <1>1. r = [q EXCEPT !.items = z]
    BY DEF Put
  <1>2. q.items \in Seq(QueuedMessage) /\ \A k \in DOMAIN q.items : q.items[k] \in QueuedMessage
    BY FieldTypes, ItemTypes
  <1>3. z \in [DOMAIN q.items -> QueuedMessage]
    BY <1>2
  <1>4. z \in Seq(QueuedMessage) /\ DOMAIN z = DOMAIN q.items
    <2> HIDE DEF z
    <2> QED
      BY <1>2, <1>3, FunctionIsSeq
  <1>5. SameIds(q.items, z)
    BY DEF SameIds
  <1>6. \A k \in DOMAIN q.items : z[k] = IF q.items[k].id = item.id THEN item ELSE q.items[k]
    OBVIOUS
  <1> HIDE DEF z
  <1>7. /\ r \in Queue /\ SameContext(q, r) /\ SameStore(q, r) /\ SameCalls(q, r)
        /\ r.paused = q.paused /\ r.freshSends = q.freshSends /\ r.items = z
    BY <1>1, <1>4 DEF Queue, SameContext, SameStore, SameCalls
  <1> QED
    BY <1>5, <1>6, <1>7

LEMMA WithStatusFacts ==
    ASSUME NEW q \in Queue, Distinct(q.items), NEW id, NEW s \in Statuses
    PROVE  Restated(q, WithStatus(q, id, s), id, s)
  <1>1. CASE id \notin Ids(q.items)
    <2>1. WithStatus(q, id, s) = q /\ \A k \in DOMAIN q.items : q.items[k].id # id
      BY <1>1 DEF WithStatus, Ids
    <2> QED
      BY <2>1 DEF Restated, Marked, SameContext, SameStore, SameCalls, SameIds
  <1>2. CASE id \in Ids(q.items)
    <2>1. PICK j \in DOMAIN q.items : ItemOf(q, id) = q.items[j] /\ q.items[j].id = id
      BY <1>2, ItemOfFacts
    <2>2. PICK item : item = [q.items[j] EXCEPT !.status = s]
      OBVIOUS
    <2>3. q.items[j] \in QueuedMessage
      BY FieldTypes, ItemTypes
    <2>4. /\ item \in QueuedMessage /\ item.id = id /\ item.status = s
          /\ item.preparing = q.items[j].preparing /\ item.revision = q.items[j].revision
      BY <2>1, <2>2, <2>3 DEF QueuedMessage, Statuses
    <2>5. WithStatus(q, id, s) = Put(q, item)
      BY <1>2, <2>1, <2>2 DEF WithStatus
    <2>6. \A k \in DOMAIN q.items : q.items[k].id = id => k = j
      BY <2>1 DEF Distinct
    <2> QED
      BY <2>1, <2>4, <2>5, <2>6, PutFacts DEF Restated, Marked, SameIds
  <1> QED
    BY <1>1, <1>2

LEMMA HoldFacts ==
    ASSUME NEW q \in Queue
    PROVE  /\ Hold(q) \in Queue /\ SameContext(q, Hold(q)) /\ SameStore(q, Hold(q))
           /\ SameCalls(q, Hold(q)) /\ Hold(q).items = q.items /\ Hold(q).freshSends = q.freshSends
           /\ Hold(q).paused = TRUE
  BY DEF Hold, Queue, SameContext, SameStore, SameCalls

(* What a save leaves in storage. *)
LEMMA SaveFacts ==
    ASSUME NEW q \in Queue, NEW ok \in BOOLEAN
    PROVE  LET r == Save(q, ok) IN
           /\ r \in Queue /\ SameContext(q, r) /\ SameCalls(q, r) /\ SameList(q, r)
           /\ r.payloads = q.payloads
           /\ ~Saves(q, ok) => r = q
           /\ Saves(q, ok) =>
                /\ q.account \in Accounts /\ SameIds(q.items, r.saved[q.account])
                /\ Plain(r.saved[q.account])
                /\ \A a \in Accounts : a # q.account => r.saved[a] = q.saved[a]
                /\ ~r.clobbered => ~q.clobbered /\ ~q.partial
  <1> DEFINE r == Save(q, ok)
             z == [k \in DOMAIN q.items |-> [q.items[k] EXCEPT !.status = "queued"]]
             f == [q.saved EXCEPT ![q.account] = z]
  <1>1. CASE ~Saves(q, ok)
    BY <1>1 DEF Save, SameContext, SameCalls, SameList
  <1>2. CASE Saves(q, ok)
    <2>1. r = [q EXCEPT !.saved = f, !.clobbered = q.clobbered \/ q.partial]
      BY <1>2 DEF Save
    <2>2. q.account \in Accounts /\ q.saved \in [Accounts -> Seq(QueuedMessage)]
      BY <1>2, FieldTypes DEF Saves
    <2>3. q.items \in Seq(QueuedMessage) /\ \A k \in DOMAIN q.items : q.items[k] \in QueuedMessage
      BY FieldTypes, ItemTypes
    <2>4. \A i \in QueuedMessage : [i EXCEPT !.status = "queued"] \in QueuedMessage
                                   /\ [i EXCEPT !.status = "queued"].id = i.id
                                   /\ [i EXCEPT !.status = "queued"].status = "queued"
      BY DEF QueuedMessage
    <2>5. z \in [DOMAIN q.items -> QueuedMessage] /\ SameIds(q.items, z) /\ Plain(z)
      BY <2>3, <2>4 DEF SameIds, Plain
    <2> HIDE DEF z
    <2>6. z \in Seq(QueuedMessage)
      BY <2>3, <2>5, FunctionIsSeq
    <2>7. /\ f \in [Accounts -> Seq(QueuedMessage)] /\ f[q.account] = z
          /\ \A a \in Accounts : a # q.account => f[a] = q.saved[a]
      BY <2>2, <2>6
    <2> HIDE DEF f
    <2>8. PICK b \in BOOLEAN : b = (q.clobbered \/ q.partial)
      BY FieldTypes
    <2>9. r = [q EXCEPT !.saved = f, !.clobbered = b]
      BY <2>1, <2>8
    <2>10. /\ r \in Queue /\ SameContext(q, r) /\ SameCalls(q, r) /\ SameList(q, r)
           /\ r.payloads = q.payloads /\ r.saved = f /\ r.clobbered = b
      <3>1. PICK x : x = [q EXCEPT !.saved = f]
        OBVIOUS
      <3>2. /\ x \in Queue /\ SameContext(q, x) /\ SameCalls(q, x) /\ SameList(q, x)
            /\ x.payloads = q.payloads /\ x.saved = f
        BY ONLY q \in Queue, <2>7, <3>1 DEF Queue, SameContext, SameCalls, SameList
      <3>3. r = [x EXCEPT !.clobbered = b]
        BY ONLY <2>9, <3>1
      <3>4. /\ r \in Queue /\ SameContext(x, r) /\ SameCalls(x, r) /\ SameList(x, r)
            /\ r.payloads = x.payloads /\ r.saved = x.saved /\ r.clobbered = b
        BY ONLY <3>2, <3>3, b \in BOOLEAN DEF Queue, SameContext, SameCalls, SameList
      <3> QED
        BY ONLY <3>2, <3>4 DEF SameContext, SameCalls, SameList
    <2> QED
      BY <1>2, <2>2, <2>5, <2>7, <2>8, <2>10
  <1> QED
    BY <1>1, <1>2

-----------------------------------------------------------------------------
(* What each part of the invariant depends on.                             *)

LEMMA TouchedBy ==
    ASSUME NEW q \in Queue, NEW r \in Queue, r.generation = q.generation,
           Ids(r.items) \subseteq Ids(q.items) \/ Ids(r.items) \subseteq Touched(q),
           r.freshSends \subseteq q.freshSends \/ r.freshSends \subseteq Touched(q),
           \A e \in r.dispatches : Current(r, e) => e.id \in Touched(q),
           r.interruption # None => r.interruption.id \in Touched(q) \cup {None}
    PROVE  Touched(r) \subseteq Touched(q)
  <1>1. Ids(r.items) \subseteq Touched(q) /\ r.freshSends \subseteq Touched(q)
    BY DEF Touched
  <1>2. {d.id : d \in InFlight(r)} \subseteq Touched(q)
    BY DEF InFlight
  <1>3. {id \in Messages : r.interruption # None /\ r.interruption.id = id} \subseteq Touched(q)
    BY QueueAssumption
  <1> QED
    BY <1>1, <1>2, <1>3 DEF Touched

(* What an object touches. *)
LEMMA TouchedFacts ==
    ASSUME NEW q \in Queue
    PROVE  /\ Ids(q.items) \subseteq Touched(q) /\ q.freshSends \subseteq Touched(q)
           /\ \A d \in q.dispatches : Current(q, d) => d.id \in Touched(q)
           /\ q.interruption # None => q.interruption.id \in Touched(q) \cup {None}
  <1>1. \A d \in q.dispatches : Current(q, d) => d.id \in Touched(q)
    BY DEF Touched, InFlight
  <1>2. q.interruption # None => q.interruption.id \in Touched(q) \cup {None}
    BY CallTypes DEF Touched
  <1> QED
    BY <1>1, <1>2 DEF Touched

(* The object keeps its place when items leave the list that nothing is    *)
(* owed for, and nothing new is touched.                                   *)
LEMMA BaseStays ==
    ASSUME NEW q, NEW w, NEW r \in Queue, Base(q, w),
           r.account = q.account, r.generation = q.generation, r.loading = q.loading,
           r.restores = q.restores, r.partial = q.partial, SameStore(q, r), Seen(r, w), Dated(r),
           Distinct(r.items), Ids(r.items) \subseteq Ids(q.items),
           Ids(q.items) \cap OwedTo(w, q.account) \subseteq Ids(r.items),
           Touched(r) \subseteq Touched(q)
    PROVE  Base(r, w)
  <1>1. q \in Queue /\ Dated(q) /\ Seen(q, w) /\ Home(q, w) /\ Known(q, w) /\ Reading(q) /\ Durable(q, w)
    BY DEF Base
  <1>2. \A c : Current(r, c) <=> Current(q, c)
    BY DEF Current
  <1>3. Home(r, w)
    BY <1>1 DEF Home, SameStore
  <1>4. Known(r, w)
    BY <1>1 DEF Known
  <1>5. Reading(r)
    BY <1>1, <1>2 DEF Reading
  <1>6. Durable(r, w)
    BY <1>1, <1>2 DEF Durable, SameStore
  <1> QED
    BY <1>3, <1>4, <1>5, <1>6 DEF Base

LEMMA BaseSame ==
    ASSUME NEW q, NEW w, NEW r \in Queue, Base(q, w),
           SameContext(q, r), SameStore(q, r), Dated(r), SameIds(q.items, r.items),
           Touched(r) \subseteq Touched(q)
    PROVE  Base(r, w)
  <1>1. Seen(r, w) /\ Distinct(q.items)
    BY DEF Seen, Base, SameContext, Home
  <1>2. Ids(r.items) = Ids(q.items) /\ Distinct(r.items)
    BY <1>1, SameIdsFacts
  <1> QED
    BY <1>1, <1>2, BaseStays DEF SameContext

(* The ledger may owe less and show more. *)
LEMMA LedgerMoves ==
    ASSUME NEW q, NEW w, NEW v, Base(q, w), v.owner = w.owner, v.taken = w.taken,
           w.rows \subseteq v.rows, v.owed \subseteq w.owed
    PROVE  Base(q, v)
  <1>1. q \in Queue /\ Dated(q) /\ Seen(q, w) /\ Home(q, w) /\ Known(q, w) /\ Reading(q) /\ Durable(q, w)
    BY DEF Base
  <1>2. Seen(q, v) /\ Known(q, v)
    BY <1>1 DEF Seen, Known
  <1>3. Home(q, v)
    BY <1>1 DEF Home, Belongs
  <1>4. \A a : OwedTo(v, a) \subseteq OwedTo(w, a)
    BY DEF OwedTo
  <1>5. Durable(q, v)
    BY <1>1, <1>4 DEF Durable
  <1> QED
    BY <1>1, <1>2, <1>3, <1>5 DEF Base

(* Nothing begins: items and calls may leave, the thread may be held. *)
LEMMA FlowLess ==
    ASSUME NEW q, NEW r, NEW C, Flow(q, C), r.generation = q.generation,
           r.interruption = q.interruption, r.interrupts = q.interrupts,
           r.dispatches \subseteq q.dispatches, q.paused => r.paused,
           r.freshSends \subseteq q.freshSends,
           \A n \in DOMAIN r.items : \E k \in DOMAIN q.items : r.items[n] = q.items[k]
    PROVE  Flow(r, C)
  <1>1. One(q) /\ Sending(q) /\ Stopping(q) /\ Awaited(q) /\ Asked(q, C)
    BY DEF Flow
  <1>2. \A c : Current(r, c) <=> Current(q, c)
    BY DEF Current
  <1>3. One(r)
    BY <1>1, <1>2 DEF One
  <1>4. Sending(r)
    BY <1>1, <1>2 DEF Sending
  <1>5. Stopping(r)
    BY <1>1, <1>2 DEF Stopping
  <1>6. Awaited(r)
    BY <1>1, <1>2 DEF Awaited
  <1>7. Asked(r, C)
    <2>1. ASSUME NEW n \in DOMAIN r.items, MayGo(r, n) PROVE r.items[n].id \in C
      <3>1. PICK k \in DOMAIN q.items : r.items[n] = q.items[k]
        OBVIOUS
      <3>2. MayGo(q, k)
        BY <2>1, <3>1 DEF MayGo
      <3> QED
        BY <1>1, <3>1, <3>2 DEF Asked
    <2> QED
      BY <1>1, <1>2, <2>1 DEF Asked
  <1> QED
    BY <1>3, <1>4, <1>5, <1>6, <1>7 DEF Flow

LEMMA FlowGrants ==
    ASSUME NEW q, NEW C, NEW D, Flow(q, C), C \subseteq D
    PROVE  Flow(q, D)
  BY DEF Flow, Asked

(* A save changes nothing but storage, and what it leaves there is whole.  *)
LEMMA SaveKeeps ==
    ASSUME NEW q, NEW w, NEW ok \in BOOLEAN, Base(q, w)
    PROVE  /\ Base(Save(q, ok), w) /\ SameContext(q, Save(q, ok)) /\ SameCalls(q, Save(q, ok))
           /\ SameList(q, Save(q, ok))
           /\ \A C : Flow(q, C) => Flow(Save(q, ok), C)
           /\ Saves(q, ok) => Ids(Save(q, ok).saved[q.account]) = Ids(q.items)
  <1>0. q \in Queue /\ Dated(q) /\ Seen(q, w) /\ Home(q, w) /\ Known(q, w) /\ Reading(q) /\ Durable(q, w)
    BY DEF Base
  <1>1. PICK r : r = Save(q, ok)
    OBVIOUS
  <1>2. /\ r \in Queue /\ SameContext(q, r) /\ SameCalls(q, r) /\ SameList(q, r)
        /\ r.payloads = q.payloads
        /\ ~Saves(q, ok) => r = q
        /\ Saves(q, ok) =>
             /\ q.account \in Accounts /\ SameIds(q.items, r.saved[q.account])
             /\ Plain(r.saved[q.account])
             /\ \A a \in Accounts : a # q.account => r.saved[a] = q.saved[a]
             /\ ~r.clobbered => ~q.clobbered /\ ~q.partial
    BY <1>0, <1>1, SaveFacts
  <1>3. Saves(q, ok) => Ids(r.saved[q.account]) = Ids(q.items) /\ Distinct(r.saved[q.account])
    BY <1>0, <1>2, SameIdsFacts DEF Home
  <1>4. \A C : Flow(q, C) => Flow(r, C)
    <2>1. ASSUME NEW C, Flow(q, C) PROVE Flow(r, C)
      BY <1>2, <2>1, FlowLess DEF SameContext, SameCalls, SameList
    <2> QED
      BY <2>1
  <1>5. CASE ~Saves(q, ok)
    BY <1>1, <1>2, <1>4, <1>5
  <1>6. CASE Saves(q, ok)
    <2>1. \A c : Current(r, c) <=> Current(q, c)
      BY <1>2 DEF Current, SameContext
    <2>2. Touched(r) = Touched(q)
      BY <1>2, <2>1 DEF Touched, InFlight, SameCalls, SameList
    <2>3. Dated(r)
      BY <1>0, <1>2 DEF Dated, SameContext, SameCalls
    <2>4. Seen(r, w)
      BY <1>0, <1>2 DEF Seen, SameContext
    <2>5. Home(r, w)
      <3>1. ASSUME NEW a \in Accounts
            PROVE  /\ Distinct(r.saved[a]) /\ Plain(r.saved[a])
                   /\ \A id \in Ids(r.saved[a]) : Belongs(w, id, a) /\ <<a, id>> \in r.payloads
        <4>1. CASE a = q.account
          BY <1>0, <1>2, <1>3, <1>6, <4>1 DEF Home
        <4>2. CASE a # q.account
          BY <1>0, <1>2, <1>6, <4>2 DEF Home
        <4> QED
          BY <4>1, <4>2
      <3> QED
        BY <1>0, <1>2, <3>1 DEF Home, SameContext, SameList
    <2>6. Known(r, w)
      BY <1>0, <2>2 DEF Known
    <2>7. Reading(r)
      BY <1>0, <1>2, <2>1, <2>2 DEF Reading, SameContext
    <2>8. Durable(r, w)
      <3>1. SUFFICES ASSUME ~r.clobbered
            PROVE  /\ \A a \in Accounts : OwedTo(w, a) \subseteq Ids(r.saved[a])
                   /\ r.account # None /\ ~r.partial => OwedTo(w, r.account) \subseteq Ids(r.items)
                   /\ \A c \in r.restores : Current(r, c) =>
                        OwedTo(w, r.account) \subseteq Ids(r.items) \cup Ids(c.rest)
        BY DEF Durable
      <3>2. ~q.clobbered /\ ~q.partial /\ q.account # None
        BY <1>2, <1>6, <3>1 DEF Saves
      <3>3. OwedTo(w, q.account) \subseteq Ids(q.items)
        BY <1>0, <3>2 DEF Durable
      <3>4. ASSUME NEW a \in Accounts PROVE OwedTo(w, a) \subseteq Ids(r.saved[a])
        <4>1. CASE a = q.account
          BY <1>3, <1>6, <3>3, <4>1
        <4>2. CASE a # q.account
          BY <1>0, <1>2, <1>6, <3>2, <4>2 DEF Durable
        <4> QED
          BY <4>1, <4>2
      <3> QED
        BY <1>2, <3>3, <3>4 DEF SameContext, SameList
    <2>9. Base(r, w)
      BY <1>2, <2>3, <2>4, <2>5, <2>6, <2>7, <2>8 DEF Base
    <2> QED
      BY <1>1, <1>2, <1>3, <1>4, <2>9
  <1> QED
    BY <1>5, <1>6

(* Payloads of messages that are neither listed nor saved may go. *)
LEMMA CleanupKeeps ==
    ASSUME NEW q, NEW w, NEW S, Base(q, w), S \cap Ids(q.items) = {},
           q.account \in Accounts => S \cap Ids(q.saved[q.account]) = {}
    PROVE  /\ Base(Cleanup(q, S), w) /\ SameContext(q, Cleanup(q, S)) /\ SameCalls(q, Cleanup(q, S))
           /\ SameList(q, Cleanup(q, S))
           /\ \A C : Flow(q, C) => Flow(Cleanup(q, S), C)
  <1>0. q \in Queue /\ Dated(q) /\ Seen(q, w) /\ Home(q, w) /\ Known(q, w) /\ Reading(q) /\ Durable(q, w)
    BY DEF Base
  <1>1. PICK X : X = q.payloads \ {<<q.account, id>> : id \in S}
    OBVIOUS
  <1>2. PICK r : r = Cleanup(q, S)
    OBVIOUS
  <1>3. r = [q EXCEPT !.payloads = X] /\ X \subseteq Accounts \X Messages
    BY <1>0, <1>1, <1>2, FieldTypes DEF Cleanup
  <1>4. /\ r \in Queue /\ SameContext(q, r) /\ SameCalls(q, r) /\ SameList(q, r)
        /\ r.saved = q.saved /\ r.clobbered = q.clobbered /\ r.payloads = X
    BY ONLY <1>0, <1>3 DEF Queue, SameContext, SameCalls, SameList
  <1>5. \A c : Current(r, c) <=> Current(q, c)
    BY <1>4 DEF Current, SameContext
  <1>6. Touched(r) = Touched(q)
    BY <1>4, <1>5 DEF Touched, InFlight, SameCalls, SameList
  <1>7. Dated(r) /\ Seen(r, w) /\ Known(r, w)
    BY <1>0, <1>4, <1>6 DEF Dated, Seen, Known, SameContext, SameCalls
  <1>8. Home(r, w)
    <2>1. ASSUME NEW id \in Ids(q.items) PROVE <<q.account, id>> \in X
      BY <1>0, <1>1 DEF Home
    <2>2. ASSUME NEW a \in Accounts, NEW id \in Ids(q.saved[a]) PROVE <<a, id>> \in X
      <3>1. <<a, id>> \in q.payloads
        BY <1>0 DEF Home
      <3>2. ~\E i \in S : <<a, id>> = <<q.account, i>>
        OBVIOUS
      <3> QED
        BY <1>1, <3>1, <3>2
    <2> QED
      BY <1>0, <1>4, <2>1, <2>2 DEF Home, SameContext, SameList
  <1>9. Reading(r) /\ Durable(r, w)
    BY <1>0, <1>4, <1>5, <1>6 DEF Reading, Durable, SameContext, SameList
  <1>10. ASSUME NEW C, Flow(q, C) PROVE Flow(r, C)
    BY <1>4, <1>10, FlowLess DEF SameContext, SameCalls, SameList
  <1> QED
    BY <1>2, <1>4, <1>7, <1>8, <1>9, <1>10 DEF Base

-----------------------------------------------------------------------------
(* Sending a message.                                                      *)

(* Message id is about to go out: the user asked for it, and no other      *)
(* message is stopping.                                                    *)
Poised(q, w, C, id) ==
    /\ Base(q, w) /\ One(q) /\ Sending(q) /\ Asked(q, C)
    /\ q.interruption = None /\ id \in C /\ id \in Ids(q.items)
    /\ \A k \in DOMAIN q.items : q.items[k].status = "stopping" => q.items[k].id = id
    /\ \A k \in DOMAIN q.items : q.items[k].id = id => ~q.items[k].preparing
    /\ \A d \in q.dispatches : Current(q, d) => d.id # id

(* It goes back to the queue, which is held. *)
LEMMA BackInQueue ==
    ASSUME NEW q, NEW w, NEW C, NEW id, NEW r \in Queue, Poised(q, w, C, id),
           SameContext(q, r), SameStore(q, r), SameCalls(q, r), r.paused,
           r.freshSends \subseteq q.freshSends, Marked(q.items, r.items, id, "queued")
    PROVE  Object(r, w, C)
  <1>0. /\ Base(q, w) /\ One(q) /\ Sending(q) /\ Asked(q, C)
        /\ q.interruption = None /\ id \in C /\ q \in Queue /\ Dated(q)
    BY DEF Poised, Base
  <1>1. \A c : Current(r, c) <=> Current(q, c)
    BY DEF Current, SameContext
  <1>2. SameIds(q.items, r.items) /\ DOMAIN r.items = DOMAIN q.items
    BY DEF Marked, SameIds
  <1>3. Dated(r)
    BY <1>0 DEF Dated, SameContext, SameCalls
  <1>4. Touched(r) \subseteq Touched(q)
    <2>1. Ids(r.items) = Ids(q.items)
      BY <1>2, SameIdsFacts
    <2> QED
      BY <1>0, <1>1, <2>1, TouchedBy, TouchedFacts DEF SameCalls, SameContext
  <1>5. Base(r, w)
    BY <1>0, <1>2, <1>3, <1>4, BaseSame
  <1>6. One(r)
    BY <1>0, <1>1 DEF One, SameCalls
  <1>7. Sending(r)
    BY <1>0, <1>1, <1>2 DEF Sending, SameCalls, Poised, Marked, SameIds
  <1>8. Stopping(r) /\ Awaited(r)
    BY <1>0, <1>2 DEF Stopping, Awaited, SameCalls, Poised, Marked
  <1>9. Asked(r, C)
    <2>1. ASSUME NEW k \in DOMAIN r.items, MayGo(r, k) PROVE r.items[k].id \in C
      <3>1. CASE q.items[k].id = id
        BY <1>0, <1>2, <3>1 DEF Marked, SameIds
      <3>2. CASE q.items[k].id # id
        <4>1. MayGo(q, k)
          BY <1>2, <2>1, <3>2 DEF MayGo, Marked, SameIds
        <4> QED
          BY <1>0, <1>2, <4>1 DEF Asked, SameIds
      <3> QED
        BY <3>1, <3>2
    <2> QED
      BY <1>0, <1>1, <2>1 DEF Asked, SameCalls
  <1> QED
    BY <1>5, <1>6, <1>7, <1>8, <1>9 DEF Object, Flow

LEMMA HoldForRevisionKeeps ==
    ASSUME NEW q, NEW w, NEW C, NEW id, NEW ok \in BOOLEAN, Poised(q, w, C, id)
    PROVE  LET r == HoldForRevision(q, id, ok) IN
           Object(r, w, C) /\ SameContext(q, r) /\ SameCalls(q, r)
  <1>1. q \in Queue /\ Distinct(q.items)
    BY DEF Poised, Base, Home
  <1>2. PICK p : p = WithStatus(q, id, "queued")
    OBVIOUS
  <1>3. Restated(q, p, id, "queued")
    BY <1>1, <1>2, WithStatusFacts DEF Statuses
  <1>4. PICK h : h = Hold(p)
    OBVIOUS
  <1>5. /\ h \in Queue /\ SameContext(p, h) /\ SameStore(p, h) /\ SameCalls(p, h)
        /\ h.items = p.items /\ h.freshSends = p.freshSends /\ h.paused = TRUE
    BY <1>3, <1>4, HoldFacts DEF Restated
  <1>6. SameContext(q, h) /\ SameStore(q, h) /\ SameCalls(q, h)
    BY <1>3, <1>5 DEF Restated, SameContext, SameStore, SameCalls
  <1>7. Object(h, w, C)
    BY <1>3, <1>5, <1>6, BackInQueue DEF Restated
  <1>8. PICK r : r = Save(h, ok)
    OBVIOUS
  <1>9. Base(r, w) /\ SameContext(h, r) /\ SameCalls(h, r) /\ Flow(r, C)
    BY <1>7, <1>8, SaveKeeps DEF Object
  <1>10. SameContext(q, r) /\ SameCalls(q, r)
    BY <1>6, <1>9 DEF SameContext, SameCalls
  <1> QED
    BY <1>2, <1>4, <1>8, <1>9, <1>10 DEF HoldForRevision, Object

(* The message is not fresh any more, and has status s. *)
LEMMA UnfreshFacts ==
    ASSUME NEW q \in Queue, Distinct(q.items), NEW id, NEW s \in Statuses
    PROVE  LET r == WithStatus([q EXCEPT !.freshSends = q.freshSends \ {id}], id, s) IN
           /\ r \in Queue /\ SameContext(q, r) /\ SameStore(q, r) /\ SameCalls(q, r)
           /\ r.paused = q.paused /\ r.freshSends = q.freshSends \ {id}
           /\ Marked(q.items, r.items, id, s)
  <1>1. PICK X : X = q.freshSends \ {id}
    OBVIOUS
  <1>2. X \subseteq Messages
    BY <1>1, FieldTypes
  <1>3. PICK p : p = [q EXCEPT !.freshSends = X]
    OBVIOUS
  <1>4. /\ p \in Queue /\ SameContext(q, p) /\ SameStore(q, p) /\ SameCalls(q, p)
        /\ p.paused = q.paused /\ p.freshSends = X /\ p.items = q.items
    BY ONLY q \in Queue, <1>2, <1>3 DEF Queue, SameContext, SameStore, SameCalls
  <1>5. PICK r : r = WithStatus(p, id, s)
    OBVIOUS
  <1>6. Restated(p, r, id, s)
    BY <1>4, <1>5, WithStatusFacts
  <1> QED
    BY <1>1, <1>3, <1>4, <1>5, <1>6 DEF Restated, SameContext, SameStore, SameCalls

(* dispatch up to its first await: the message is asked for, and it is the *)
(* only one being sent.                                                    *)
LEMMA DispatchKeeps ==
    ASSUME NEW q, NEW w, NEW C, NEW id \in Messages, NEW ok \in BOOLEAN, Poised(q, w, C, id), Idle(q)
    PROVE  LET r == Dispatch(q, id, ok) IN
           /\ Object(r, w, C) /\ SentAsked(q, r, C) /\ SameContext(q, r) /\ r.serial = q.serial
           /\ r.interruption = None /\ q.dispatches \subseteq r.dispatches
  <1>0. /\ Base(q, w) /\ One(q) /\ Sending(q) /\ Asked(q, C) /\ Distinct(q.items)
        /\ q.interruption = None /\ id \in C /\ q \in Queue /\ Dated(q)
    BY DEF Poised, Base, Home
  <1>1. CASE RevisionChanged(q, id)
    <2>1. PICK r : r = HoldForRevision(q, id, ok)
      OBVIOUS
    <2>2. Object(r, w, C) /\ SameContext(q, r) /\ SameCalls(q, r)
      BY <2>1, HoldForRevisionKeeps
    <2> QED
      BY <1>0, <1>1, <2>1, <2>2 DEF Dispatch, SentAsked, SameCalls
  <1>2. CASE ~RevisionChanged(q, id)
    <2>1. PICK s : s = WithStatus([q EXCEPT !.freshSends = q.freshSends \ {id}], id, "sending")
      OBVIOUS
    <2>2. /\ s \in Queue /\ SameContext(q, s) /\ SameStore(q, s) /\ SameCalls(q, s)
          /\ s.paused = q.paused /\ s.freshSends = q.freshSends \ {id}
          /\ Marked(q.items, s.items, id, "sending")
      BY <1>0, <2>1, UnfreshFacts DEF Statuses
    <2>3. Distinct(s.items) /\ Ids(s.items) = Ids(q.items)
      BY <1>0, <2>2, SameIdsFacts DEF Marked
    <2>4. CASE ~Saves(s, ok)
      <3>1. PICK p : p = WithStatus(s, id, "queued")
        OBVIOUS
      <3>2. Restated(s, p, id, "queued")
        BY <2>2, <2>3, <3>1, WithStatusFacts DEF Statuses
      <3>3. PICK r : r = Hold(p)
        OBVIOUS
      <3>4. /\ r \in Queue /\ SameContext(p, r) /\ SameStore(p, r) /\ SameCalls(p, r)
            /\ r.items = p.items /\ r.freshSends = p.freshSends /\ r.paused = TRUE
        BY <3>2, <3>3, HoldFacts DEF Restated
      <3>5. SameContext(q, r) /\ SameStore(q, r) /\ SameCalls(q, r) /\ r.freshSends \subseteq q.freshSends
        BY <2>2, <3>2, <3>4 DEF Restated, SameContext, SameStore, SameCalls
      <3>6. Marked(q.items, r.items, id, "queued")
        BY <2>2, <3>2, <3>4 DEF Restated, Marked, SameIds
      <3>7. Object(r, w, C)
        BY <3>4, <3>5, <3>6, BackInQueue
      <3>8. r = Dispatch(q, id, ok)
        BY <1>2, <2>1, <2>4, <3>1, <3>3 DEF Dispatch
      <3> QED
        BY <1>0, <3>5, <3>7, <3>8 DEF SentAsked, SameCalls
    <2>5. CASE Saves(s, ok)
      <3>1. PICK p : p = Save(s, ok)
        OBVIOUS
      <3>2. PICK d : d = [id |-> id, generation |-> q.generation, reply |-> "none",
                          at |-> IF PersistQueue THEN "persist" ELSE "prompt"]
        OBVIOUS
      <3>3. d \in Calls /\ d.id = id /\ d.generation = q.generation
        BY <1>0, <3>2, FieldTypes DEF Calls
      <3>4. PICK X : X = s.dispatches \cup {d}
        OBVIOUS
      <3>5. PICK r : r = [p EXCEPT !.dispatches = X]
        OBVIOUS
      <3>6. r = Dispatch(q, id, ok)
        BY <1>2, <2>1, <2>5, <3>1, <3>2, <3>4, <3>5 DEF Dispatch
      <3>7. Base(s, w)
        <4>1. Dated(s)
          BY <1>0, <2>2 DEF Dated, SameContext, SameCalls
        <4>2. \A c : Current(s, c) <=> Current(q, c)
          BY <2>2 DEF Current, SameContext
        <4>3. Touched(s) \subseteq Touched(q)
          BY <1>0, <2>2, <2>3, <4>2, TouchedBy, TouchedFacts DEF SameCalls, SameContext
        <4> QED
          BY <1>0, <2>2, <4>1, <4>3, BaseSame DEF Marked
      <3>8. Base(p, w) /\ SameContext(s, p) /\ SameCalls(s, p) /\ SameList(s, p)
        BY <3>1, <3>7, SaveKeeps
      <3>9. p \in Queue /\ X \subseteq Calls
        BY <2>2, <3>3, <3>4, <3>8, FieldTypes DEF Base
      <3>10. /\ r \in Queue /\ SameContext(p, r) /\ SameStore(p, r) /\ SameList(p, r)
             /\ r.interrupts = p.interrupts /\ r.serial = p.serial
             /\ r.interruption = p.interruption /\ r.dispatches = X
        BY ONLY <3>5, <3>9 DEF Queue, SameContext, SameStore, SameList
      <3>11. /\ SameContext(q, r) /\ r.serial = q.serial /\ r.interruption = None
             /\ r.dispatches = q.dispatches \cup {d} /\ r.interrupts = q.interrupts
             /\ r.items = s.items /\ r.freshSends = q.freshSends \ {id} /\ r.paused = q.paused
        BY <1>0, <2>2, <3>4, <3>8, <3>10 DEF SameContext, SameCalls, SameList
      <3>12. \A c : Current(r, c) <=> Current(q, c)
        BY <3>11 DEF Current, SameContext
      <3>13. \A e \in r.dispatches : Current(r, e) => e = d
        BY <3>11, <3>12 DEF Idle
      <3>14. DOMAIN r.items = DOMAIN q.items
        BY <2>2, <3>11 DEF Marked, SameIds
      <3>15. Base(r, w)
        <4>1. Dated(r)
          <5>1. d.generation <= r.generation
            BY <1>0, <3>3, <3>11, FieldTypes DEF SameContext
          <5> QED
            BY <1>0, <3>11, <5>1 DEF Dated, SameContext
        <4>2. id \in Touched(p)
          BY <2>3, <3>8, <3>9, TouchedFacts DEF SameList, Poised
        <4>3. Touched(r) \subseteq Touched(p)
          BY <3>3, <3>9, <3>10, <3>11, <3>13, <4>2, TouchedBy, TouchedFacts DEF SameContext, SameList
        <4>4. SameIds(p.items, r.items)
          BY <3>10 DEF SameIds, SameList
        <4> QED
          BY <3>8, <3>10, <4>1, <4>3, <4>4, BaseSame
      <3>16. One(r)
        BY <3>13 DEF One
      <3>17. Sending(r)
        BY <2>2, <3>3, <3>11, <3>13, <3>14 DEF Sending, Poised, Marked, SameIds
      <3>18. Stopping(r) /\ Awaited(r)
        BY <2>2, <3>11, <3>14 DEF Stopping, Awaited, Poised, Marked
      <3>19. Asked(r, C)
        <4>1. ASSUME NEW k \in DOMAIN r.items, MayGo(r, k) PROVE r.items[k].id \in C
          <5>1. q.items[k].id # id
            BY <2>2, <3>11, <3>14, <4>1 DEF MayGo, Marked
          <5>2. MayGo(q, k) /\ r.items[k].id = q.items[k].id
            BY <2>2, <3>11, <3>14, <4>1, <5>1 DEF MayGo, Marked, SameIds
          <5> QED
            BY <1>0, <3>14, <5>2 DEF Asked
        <4> QED
          BY <1>0, <3>3, <3>11, <3>13, <4>1 DEF Asked
      <3>20. SentAsked(q, r, C)
        BY <1>0, <3>3, <3>11, <3>12 DEF SentAsked, Current
      <3> QED
        BY <3>6, <3>11, <3>15, <3>16, <3>17, <3>18, <3>19, <3>20 DEF Object, Flow
    <2> QED
      BY <2>4, <2>5
  <1> QED
    BY <1>1, <1>2

(* The result of pump's loops: the context stays, calls may begin. *)
Sent(q, r, w, C) ==
    /\ Object(r, w, C) /\ SentAsked(q, r, C) /\ SameContext(q, r) /\ r.serial = q.serial
    /\ q.dispatches \subseteq r.dispatches

LEMMA ReleaseKeeps ==
    ASSUME NEW q, NEW w, NEW C, NEW ok \in BOOLEAN, Object(q, w, C)
    PROVE  LET r == ReleaseInterruption(q, ok) IN
           /\ Sent(q, r, w, C)
           /\ r.interruption # None => r = q /\ (~Idle(q) \/ ~q.interruption.ready)
  <1>0. Base(q, w) /\ Flow(q, C) /\ q \in Queue /\ Dated(q)
    BY DEF Object, Base
  <1>1. CASE q.interruption = None \/ ~Idle(q) \/ (q.interruption # None => ~q.interruption.ready)
    BY <1>1 DEF ReleaseInterruption, Sent, SentAsked, SameContext
  <1>2. CASE q.interruption # None /\ Idle(q) /\ q.interruption.ready
    <2>1. PICK d : d = [q EXCEPT !.interruption = None]
      OBVIOUS
    <2>2. /\ d \in Queue /\ SameContext(q, d) /\ SameStore(q, d) /\ SameList(q, d)
          /\ d.interruption = None /\ d.dispatches = q.dispatches /\ d.interrupts = q.interrupts
          /\ d.serial = q.serial
      BY ONLY <1>0, <2>1 DEF Queue, SameContext, SameStore, SameList
    <2>3. \A c : Current(d, c) <=> Current(q, c)
      BY <2>2 DEF Current, SameContext
    <2>4. Base(d, w)
      <3>1. Dated(d)
        BY <1>0, <2>2 DEF Dated, SameContext
      <3>2. Touched(d) \subseteq Touched(q)
        BY <1>0, <2>2, <2>3, TouchedBy, TouchedFacts DEF SameContext, SameList
      <3>3. SameIds(q.items, d.items)
        BY <2>2 DEF SameIds, SameList
      <3> QED
        BY <1>0, <2>2, <3>1, <3>2, <3>3, BaseSame
    <2>5. One(d) /\ Sending(d)
      BY <1>0, <2>2, <2>3 DEF Flow, One, Sending, SameList
    <2>6. Asked(d, C)
      BY <1>0, <2>2, <2>3 DEF Flow, Asked, MayGo, SameList
    <2>7. Idle(d)
      BY <1>2, <2>2, <2>3 DEF Idle, SameContext
    <2>8. CASE q.interruption.id \in Ids(q.items)
      <3>1. PICK id : id = q.interruption.id
        OBVIOUS
      <3>2. id \in Messages /\ id # None
        BY <1>0, <2>8, <3>1, FieldTypes, ItemTypes, QueueAssumption
      <3>3. Poised(d, w, C, id)
        BY <1>0, <1>2, <2>2, <2>4, <2>5, <2>6, <2>7, <2>8, <3>1, <3>2
           DEF Poised, Flow, Stopping, Asked, Idle, SameList
      <3>4. PICK r : r = Dispatch(d, id, ok)
        OBVIOUS
      <3>5. /\ Object(r, w, C) /\ SentAsked(d, r, C) /\ SameContext(d, r) /\ r.serial = d.serial
            /\ r.interruption = None /\ d.dispatches \subseteq r.dispatches
        BY <2>7, <3>2, <3>3, <3>4, DispatchKeeps
      <3>6. r = ReleaseInterruption(q, ok)
        BY <1>2, <2>1, <2>8, <3>1, <3>4 DEF ReleaseInterruption
      <3>7. SentAsked(q, r, C) /\ SameContext(q, r)
        BY <2>2, <3>5 DEF SentAsked, SameContext
      <3> QED
        BY <2>2, <3>5, <3>6, <3>7 DEF Sent
    <2>9. CASE q.interruption.id \notin Ids(q.items)
      <3>1. d = ReleaseInterruption(q, ok)
        BY <1>2, <2>1, <2>9 DEF ReleaseInterruption
      <3>2. Stopping(d) /\ Awaited(d)
        <4>1. \A k \in DOMAIN q.items : q.items[k].status # "stopping"
          BY <1>0, <2>9 DEF Flow, Stopping, Ids
        <4> QED
          BY <2>2, <4>1 DEF Stopping, Awaited, SameList
      <3> QED
        BY <2>2, <2>4, <2>5, <2>6, <3>1, <3>2 DEF Object, Flow, Sent, SentAsked
    <2> QED
      BY <2>8, <2>9
  <1> QED
    BY <1>0, <1>1, <1>2

LEMMA FirstMatch ==
    ASSUME NEW n \in Nat, NEW I \in SUBSET (1..n), I # {}
    PROVE  Min(I) \in I
  <1>1. /\ Cardinality(I) \in Nat /\ IsFiniteSet(I)
        /\ \A i \in I : Cardinality(Upto(I, i)) \in 1..Cardinality(I)
        /\ \A i, j \in I : i < j => Cardinality(Upto(I, i)) < Cardinality(Upto(I, j))
        /\ \A k \in 1..Cardinality(I) : \E i \in I : Cardinality(Upto(I, i)) = k
    BY RankFacts
  <1>2. 1 \in 1..Cardinality(I)
    <2>1. PICK j \in I : TRUE
      OBVIOUS
    <2>2. Cardinality(Upto(I, j)) \in 1..Cardinality(I)
      BY <1>1
    <2> QED
      BY <1>1, <2>2
  <1>3. PICK i \in I : Cardinality(Upto(I, i)) = 1
    BY <1>1, <1>2
  <1>4. \A j \in I : ~(j < i)
    BY <1>1, <1>3
  <1>5. \A j \in I : i <= j
    BY <1>4
  <1> QED
    BY <1>5 DEF Min

LEMMA SendFirstKeeps ==
    ASSUME NEW q, NEW w, NEW C, NEW ok \in BOOLEAN, Object(q, w, C)
    PROVE  LET r == SendFirst(q, ok) IN
           /\ Sent(q, r, w, C)
           /\ r = q \/ r.interruption = None
  <1>0. Base(q, w) /\ Flow(q, C) /\ q \in Queue /\ Distinct(q.items)
    BY DEF Object, Base, Home
  <1> DEFINE I == {i \in 1..Len(q.items) : ~q.items[i].preparing
                                           /\ (q.paused => q.items[i].id \in q.freshSends)}
             k == SelectInSeq(q.items, LAMBDA i : ~i.preparing /\ (q.paused => i.id \in q.freshSends))
  <1>1. k = IF I # {} THEN Min(I) ELSE 0
    BY DEF SelectInSeq
  <1>2. CASE q.interruption = None /\ k # 0 /\ q.items[k].status = "queued" /\ Idle(q)
    <2>1. Len(q.items) \in Nat /\ DOMAIN q.items = 1..Len(q.items)
      BY <1>0, FieldTypes, SeqFacts
    <2>2. k \in I
      <3>1. I # {} /\ k = Min(I)
        BY <1>1, <1>2
      <3>2. I \in SUBSET (1..Len(q.items))
        OBVIOUS
      <3> HIDE DEF I, k
      <3> QED
        BY <2>1, <3>1, <3>2, FirstMatch
    <2>3. PICK j : j = k
      OBVIOUS
    <2>4. /\ j \in DOMAIN q.items /\ ~q.items[j].preparing /\ q.items[j].status = "queued"
          /\ q.paused => q.items[j].id \in q.freshSends
      BY <1>2, <2>1, <2>2, <2>3
    <2>5. PICK id : id = q.items[j].id
      OBVIOUS
    <2>6. id \in Messages /\ id \in Ids(q.items)
      BY <1>0, <2>4, <2>5, FieldTypes, ItemTypes DEF Ids
    <2>7. id \in C
      BY <1>0, <2>4, <2>5 DEF Flow, Asked, MayGo
    <2>8. \A i \in DOMAIN q.items : q.items[i].id = id => i = j
      BY <1>0, <2>4, <2>5 DEF Distinct
    <2>9. Poised(q, w, C, id)
      BY <1>0, <1>2, <2>4, <2>6, <2>7, <2>8 DEF Poised, Flow, Stopping, Idle
    <2>10. PICK r : r = Dispatch(q, id, ok)
      OBVIOUS
    <2>11. r = SendFirst(q, ok)
      BY <1>2, <2>3, <2>5, <2>10 DEF SendFirst
    <2>12. /\ Object(r, w, C) /\ SentAsked(q, r, C) /\ SameContext(q, r) /\ r.serial = q.serial
           /\ r.interruption = None /\ q.dispatches \subseteq r.dispatches
      BY <1>2, <2>6, <2>9, <2>10, DispatchKeeps
    <2> QED
      BY <2>11, <2>12 DEF Sent
  <1>3. CASE ~(q.interruption = None /\ k # 0 /\ q.items[k].status = "queued" /\ Idle(q))
    <2>1. SendFirst(q, ok) = q
      BY <1>3 DEF SendFirst
    <2> QED
      BY <2>1 DEF Sent, SentAsked, SameContext
  <1> QED
    BY <1>2, <1>3

(* Nothing of a thread whose outbox is being read back can go. *)
LEMMA QuietIsPumped ==
    ASSUME NEW q, NEW w, Base(q, w), q.account = None \/ q.loading
    PROVE  Pumped(q)
  <1>1. CASE q.account = None
    BY <1>1 DEF Base, Home, Pumped, Ids
  <1>2. CASE q.account # None
    BY <1>2 DEF Base, Reading, Pumped
  <1> QED
    BY <1>1, <1>2

(* pump leaves no message waiting that could go. *)
LEMMA PumpKeeps ==
    ASSUME NEW q, NEW w, NEW C, NEW ok \in BOOLEAN, Object(q, w, C)
    PROVE  Sent(q, Pump(q, ok), w, C) /\ Pumped(Pump(q, ok))
  <1>0. Base(q, w) /\ Flow(q, C)
    BY DEF Object
  <1>1. CASE q.account = None \/ q.loading
    <2>1. Pump(q, ok) = q
      BY <1>1 DEF Pump
    <2>2. Sent(q, q, w, C)
      BY DEF Sent, SentAsked, SameContext
    <2>3. Pumped(q)
      BY <1>0, <1>1, QuietIsPumped
    <2> QED
      BY <2>1, <2>2, <2>3
  <1>2. CASE ~(q.account = None \/ q.loading)
    <2>1. PICK p : p = ReleaseInterruption(q, ok)
      OBVIOUS
    <2>2. Sent(q, p, w, C) /\ (p.interruption # None => p = q /\ (~Idle(q) \/ ~q.interruption.ready))
      BY <2>1, ReleaseKeeps
    <2>3. PICK r : r = SendFirst(p, ok)
      OBVIOUS
    <2>4. Sent(p, r, w, C) /\ (r = p \/ r.interruption = None)
      BY <2>2, <2>3, SendFirstKeeps DEF Sent
    <2>5. r = Pump(q, ok)
      BY <1>2, <2>1, <2>3 DEF Pump
    <2>6. Sent(q, r, w, C)
      <3>1. \A c : Current(r, c) <=> Current(p, c)
        BY <2>4 DEF Current, Sent, SameContext
      <3>2. SentAsked(q, r, C)
        BY <2>2, <2>4, <3>1 DEF Sent, SentAsked
      <3> QED
        BY <2>2, <2>4, <3>2 DEF Sent, SameContext
    <2>7. Pumped(r)
      <3>1. CASE r.interruption = None
        BY <2>6, <3>1 DEF Sent, Object, Flow, Stopping, Pumped
      <3>2. CASE r.interruption # None
        BY <2>2, <2>4, <3>2 DEF Pumped
      <3> QED
        BY <3>1, <3>2
    <2> QED
      BY <2>5, <2>6, <2>7
  <1> QED
    BY <1>1, <1>2

-----------------------------------------------------------------------------
(* Observing a state.                                                      *)

(* A ledger owes nothing that the transcript shows. *)
Honest(w) == w.owed \cap w.rows = {}

(* In a new context the list is empty, no earlier call is current, and the *)
(* saved outbox is being read back if there is one.                        *)
LEMMA NewContext ==
    ASSUME NEW q, NEW w, NEW r \in Queue, Base(q, w), r.generation = q.generation + 1,
           r.items = <<>>, r.freshSends = {}, r.interruption = None, r.dispatches = q.dispatches,
           r.interrupts = q.interrupts, r.serial = q.serial, SameStore(q, r), Seen(r, w),
           \/ /\ r.restores = q.restores
              /\ r.account # None => ~r.loading /\ q.saved[r.account] = <<>>
           \/ /\ r.loading /\ r.partial /\ r.account \in Accounts /\ q.saved[r.account] # <<>>
              /\ r.restores = q.restores \cup
                    {[generation |-> r.generation, account |-> r.account, rest |-> q.saved[r.account]]}
    PROVE  Object(r, w, {}) /\ Pumped(r)
  <1>0. q \in Queue /\ Dated(q) /\ Seen(q, w) /\ Home(q, w) /\ Known(q, w) /\ Reading(q) /\ Durable(q, w)
    BY DEF Base
  <1>1. Ids(r.items) = {} /\ DOMAIN r.items = {}
    BY DEF Ids
  <1>2. q.generation \in Nat /\ q.serial \in Nat
    BY <1>0, FieldTypes
  <1>3. /\ \A c \in q.dispatches : c.generation \in Nat /\ c.generation <= q.generation
        /\ \A c \in q.interrupts : c.generation \in Nat /\ c.generation <= q.generation
        /\ \A c \in q.restores : c.generation \in Nat /\ c.generation <= q.generation
    BY <1>0, CallTypes DEF Dated
  <1>4. /\ \A c \in q.dispatches : ~Current(r, c) /\ c.generation <= r.generation
        /\ \A c \in q.interrupts : ~Current(r, c) /\ c.generation <= r.generation
        /\ \A c \in q.restores : ~Current(r, c) /\ c.generation <= r.generation
    BY <1>2, <1>3 DEF Current
  <1>5. Touched(r) = {}
    BY <1>1, <1>4 DEF Touched, InFlight
  <1>6. Flow(r, {}) /\ Pumped(r)
    BY <1>1, <1>4 DEF Flow, One, Sending, Stopping, Awaited, Asked, Pumped
  <1>7. CASE r.restores = q.restores /\ (r.account # None => ~r.loading /\ q.saved[r.account] = <<>>)
    <2>1. Dated(r)
      BY <1>0, <1>4, <1>7 DEF Dated
    <2>2. Home(r, w)
      BY <1>0, <1>1, <1>7 DEF Home, SameStore, Distinct
    <2>3. Known(r, w) /\ Reading(r)
      BY <1>0, <1>4, <1>5, <1>7 DEF Known, Reading
    <2>4. Durable(r, w)
      <3>1. r.account # None => Ids(q.saved[r.account]) = {} /\ r.account \in Accounts
        BY <1>7, FieldTypes DEF Ids
      <3> QED
        BY <1>0, <1>4, <1>7, <3>1 DEF Durable, SameStore
    <2> QED
      BY <1>6, <2>1, <2>2, <2>3, <2>4 DEF Object, Base
  <1>8. CASE /\ r.loading /\ r.partial /\ r.account \in Accounts /\ q.saved[r.account] # <<>>
             /\ r.restores = q.restores \cup
                   {[generation |-> r.generation, account |-> r.account, rest |-> q.saved[r.account]]}
    <2>1. PICK c : c = [generation |-> r.generation, account |-> r.account, rest |-> q.saved[r.account]]
      OBVIOUS
    <2>2. /\ r.restores = q.restores \cup {c} /\ c.generation = r.generation
          /\ c.account = r.account /\ c.rest = q.saved[r.account] /\ Current(r, c)
      BY <1>8, <2>1 DEF Current
    <2>3. r.account # None /\ r.generation <= r.generation
      BY <1>2, <1>8, QueueAssumption
    <2>4. Dated(r)
      BY <1>0, <1>4, <2>2, <2>3 DEF Dated
    <2>5. Home(r, w)
      <3>1. Plain(c.rest) /\ \A id \in Ids(c.rest) : Belongs(w, id, c.account)
        BY <1>0, <1>8, <2>2 DEF Home
      <3>2. \A x \in r.restores : Plain(x.rest) /\ \A id \in Ids(x.rest) : Belongs(w, id, x.account)
        BY <1>0, <2>2, <3>1 DEF Home
      <3>3. \A a \in Accounts :
              /\ Distinct(r.saved[a]) /\ Plain(r.saved[a])
              /\ \A id \in Ids(r.saved[a]) : Belongs(w, id, a) /\ <<a, id>> \in r.payloads
        BY <1>0 DEF Home, SameStore
      <3>4. Distinct(r.items)
        BY <1>1 DEF Distinct
      <3> QED
        BY <1>1, <3>2, <3>3, <3>4 DEF Home
    <2>6. Known(r, w)
      BY <1>5 DEF Known
    <2>7. Reading(r)
      <3>1. c.rest # <<>> /\ Distinct(c.rest) /\ Ids(c.rest) \cap Touched(r) = {}
        BY <1>0, <1>5, <1>8, <2>2 DEF Home
      <3>2. \A s \in r.restores : Current(r, s) => s = c
        BY <1>4, <2>2
      <3>3. \A s \in r.restores : s.rest # <<>>
        BY <1>0, <2>2, <3>1 DEF Reading
      <3> QED
        BY <1>8, <2>2, <3>1, <3>2, <3>3 DEF Reading
    <2>8. Durable(r, w)
      BY <1>0, <1>1, <1>4, <1>8, <2>2 DEF Durable, SameStore
    <2> QED
      BY <1>6, <2>4, <2>5, <2>6, <2>7, <2>8 DEF Object, Base
  <1> QED
    BY <1>7, <1>8

(* The state is read, in the same context or in another. *)
LEMMA StateKeeps ==
    ASSUME NEW q, NEW w, NEW C, NEW s \in ClientState, Object(q, w, C),
           s.rows \subseteq w.rows, ~ContextChanged(q, s)
    PROVE  LET r == [q EXCEPT !.state = s] IN
           /\ Object(r, w, C) /\ r.state = s /\ r.account = q.account /\ r.generation = q.generation
           /\ r.serial = q.serial /\ r.dispatches = q.dispatches
  <1>0. Base(q, w) /\ Flow(q, C) /\ q \in Queue /\ Dated(q)
    BY DEF Object, Base
  <1>1. PICK r : r = [q EXCEPT !.state = s]
    OBVIOUS
  <1>2. /\ r \in Queue /\ r.account = q.account /\ r.generation = q.generation /\ r.loading = q.loading
        /\ r.restores = q.restores /\ r.partial = q.partial /\ SameStore(q, r) /\ SameList(q, r)
        /\ SameCalls(q, r) /\ r.state = s /\ r.runtime = q.runtime
    BY ONLY <1>0, <1>1, s \in ClientState DEF Queue, SameStore, SameList, SameCalls
  <1>3. Seen(r, w) /\ Dated(r)
    BY <1>0, <1>2 DEF Seen, Dated, ContextChanged, SameCalls
  <1>4. Touched(r) = Touched(q)
    BY <1>2 DEF Touched, InFlight, Current, SameList, SameCalls
  <1>5. Distinct(r.items)
    BY <1>0, <1>2 DEF Base, Home, SameList
  <1>6. Base(r, w)
    BY <1>0, <1>2, <1>3, <1>4, <1>5, BaseStays DEF SameList
  <1>7. Flow(r, C)
    BY <1>0, <1>2, FlowLess DEF SameList, SameCalls
  <1> QED
    BY <1>1, <1>2, <1>6, <1>7 DEF Object, SameCalls

LEMMA AdoptKeeps ==
    ASSUME NEW q, NEW w, NEW s \in ClientState, Base(q, w), s.rows \subseteq w.rows
    PROVE  LET r == Adopt([q EXCEPT !.state = s], s) IN
           /\ Object(r, w, {}) /\ Pumped(r) /\ r.generation = q.generation + 1 /\ r.serial = q.serial
           /\ r.dispatches = q.dispatches /\ r.account = s.account
  <1>0. q \in Queue
    BY DEF Base
  <1>1. PICK p : p = [q EXCEPT !.state = s]
    OBVIOUS
  <1>2. PICK t : t = IF s.account = None THEN 0 ELSE s.runtime
    OBVIOUS
  <1>3. /\ t \in 0..MaxTrouble /\ s.account \in Accounts \cup {None}
        /\ s.account # None => t = s.runtime
    BY <1>2, QueueAssumption DEF ClientState
  <1>4. PICK x : x = Reset(p, s.account, t)
    OBVIOUS
  <1>5. PICK g : g = q.generation + 1
    OBVIOUS
  <1>6. g \in Nat
    BY <1>0, <1>5, FieldTypes
  <1>7. /\ p \in Queue /\ p.generation = q.generation /\ p.state = s /\ p.saved = q.saved
        /\ p.restores = q.restores /\ p.dispatches = q.dispatches /\ p.interrupts = q.interrupts
        /\ p.serial = q.serial /\ SameStore(q, p)
    BY ONLY <1>0, <1>1, s \in ClientState DEF Queue, SameStore
  <1>8. /\ x \in Queue /\ x.generation = g /\ x.account = s.account /\ x.runtime = t
        /\ x.items = <<>> /\ x.paused = FALSE /\ x.freshSends = {} /\ x.interruption = None
        /\ x.partial = FALSE /\ x.state = s /\ x.dispatches = q.dispatches
        /\ x.interrupts = q.interrupts /\ x.serial = q.serial /\ x.restores = q.restores
        /\ SameStore(q, x)
    <2>1. PICK y : y = [p EXCEPT !.generation = g, !.account = s.account, !.runtime = t]
      OBVIOUS
    <2>2. /\ y \in Queue /\ y.generation = g /\ y.account = s.account /\ y.runtime = t
          /\ y.state = s /\ y.dispatches = q.dispatches
          /\ y.interrupts = q.interrupts /\ y.serial = q.serial /\ y.restores = q.restores
          /\ SameStore(q, y)
      BY ONLY <1>3, <1>6, <1>7, <2>1 DEF Queue, SameStore
    <2>3. PICK z : z = [y EXCEPT !.items = <<>>, !.paused = FALSE, !.freshSends = {}]
      OBVIOUS
    <2>4. /\ z \in Queue /\ z.generation = g /\ z.account = s.account /\ z.runtime = t
          /\ z.items = <<>> /\ z.paused = FALSE /\ z.freshSends = {}
          /\ z.state = s /\ z.dispatches = q.dispatches
          /\ z.interrupts = q.interrupts /\ z.serial = q.serial /\ z.restores = q.restores
          /\ SameStore(q, z)
      <3>1. <<>> \in Seq(QueuedMessage) /\ {} \subseteq Messages /\ FALSE \in BOOLEAN
        OBVIOUS
      <3> QED
        BY ONLY <2>2, <2>3, <3>1 DEF Queue, SameStore
    <2>5. x = [z EXCEPT !.interruption = None, !.partial = FALSE]
      BY <1>4, <1>5, <1>7, <2>1, <2>3 DEF Reset
    <2> QED
      BY ONLY <2>4, <2>5 DEF Queue, SameStore
  <1>9. \A r : r.account = s.account /\ r.runtime = t /\ r.state = s => Seen(r, w)
    BY <1>3 DEF Seen
  <1>10. PICK r : r = Adopt(p, s)
    OBVIOUS
  <1>11. r = IF s.account = None THEN x
             ELSE IF q.saved[s.account] = <<>> THEN [x EXCEPT !.loading = FALSE]
             ELSE [x EXCEPT !.loading = TRUE, !.partial = TRUE,
                            !.restores = q.restores \cup {[generation |-> g,
                                             account |-> s.account, rest |-> q.saved[s.account]]}]
    BY <1>2, <1>4, <1>7, <1>8, <1>10 DEF Adopt
  <1>12. CASE s.account = None
    <2>1. Object(x, w, {}) /\ Pumped(x)
      BY <1>5, <1>8, <1>9, <1>12, NewContext
    <2> QED
      BY <1>1, <1>5, <1>8, <1>10, <1>11, <1>12, <2>1
  <1>13. CASE s.account # None /\ q.saved[s.account] = <<>>
    <2>1. r = [x EXCEPT !.loading = FALSE]
      BY <1>11, <1>13
    <2>2. /\ r \in Queue /\ r.generation = g /\ r.account = s.account /\ r.runtime = t
          /\ r.items = <<>> /\ r.freshSends = {} /\ r.interruption = None
          /\ r.state = s /\ r.dispatches = q.dispatches
          /\ r.interrupts = q.interrupts /\ r.serial = q.serial /\ r.restores = q.restores
          /\ SameStore(q, r) /\ ~r.loading
      BY ONLY <1>8, <2>1 DEF Queue, SameStore
    <2>3. Object(r, w, {}) /\ Pumped(r)
      BY <1>5, <1>9, <1>13, <2>2, NewContext
    <2> QED
      BY <1>1, <1>5, <1>10, <2>2, <2>3
  <1>14. CASE s.account # None /\ q.saved[s.account] # <<>>
    <2>0. s.account \in Accounts
      BY <1>3, <1>14
    <2>1. PICK c : c = [generation |-> g, account |-> s.account, rest |-> q.saved[s.account]]
      OBVIOUS
    <2>2. PICK X : X = q.restores \cup {c}
      OBVIOUS
    <2>3. X \subseteq [generation : Nat, account : Accounts, rest : Seq(QueuedMessage)]
      BY <1>0, <1>6, <2>0, <2>1, <2>2, FieldTypes
    <2>4. r = [x EXCEPT !.loading = TRUE, !.partial = TRUE, !.restores = X]
      BY <1>11, <1>14, <2>1, <2>2
    <2>5. /\ r \in Queue /\ r.generation = g /\ r.account = s.account /\ r.runtime = t
          /\ r.items = <<>> /\ r.freshSends = {} /\ r.interruption = None
          /\ r.state = s /\ r.dispatches = q.dispatches
          /\ r.interrupts = q.interrupts /\ r.serial = q.serial /\ r.restores = X
          /\ SameStore(q, r) /\ r.loading /\ r.partial
      BY ONLY <1>8, <2>3, <2>4 DEF Queue, SameStore
    <2>6. Object(r, w, {}) /\ Pumped(r)
      BY <1>5, <1>9, <1>14, <2>0, <2>1, <2>2, <2>5, NewContext
    <2> QED
      BY <1>1, <1>5, <1>10, <2>5, <2>6
  <1> QED
    BY <1>12, <1>13, <1>14

(* Items leave the list. *)
LEMMA WithoutFacts ==
    ASSUME NEW q \in Queue, NEW S
    PROVE  LET r == Without(q, S) IN
           /\ r \in Queue /\ SameContext(q, r) /\ SameStore(q, r) /\ SameCalls(q, r)
           /\ r.paused = q.paused /\ r.freshSends = q.freshSends
           /\ Ids(r.items) = Ids(q.items) \ S /\ (Distinct(q.items) => Distinct(r.items))
           /\ \A n \in DOMAIN r.items : \E k \in DOMAIN q.items : r.items[n] = q.items[k]
  <1>1. PICK z : z = Kept(q.items, S)
    OBVIOUS
  <1>2. /\ z \in Seq(QueuedMessage)
        /\ \A n \in DOMAIN z : \E k \in DOMAIN q.items : z[n] = q.items[k]
        /\ Ids(z) = Ids(q.items) \ S /\ (Distinct(q.items) => Distinct(z))
    BY <1>1, KeptFacts, FieldTypes
  <1>3. PICK r : r = [q EXCEPT !.items = z]
    OBVIOUS
  <1>4. /\ r \in Queue /\ SameContext(q, r) /\ SameStore(q, r) /\ SameCalls(q, r)
        /\ r.paused = q.paused /\ r.freshSends = q.freshSends /\ r.items = z
    BY ONLY q \in Queue, <1>2, <1>3 DEF Queue, SameContext, SameStore, SameCalls
  <1>5. r = Without(q, S)
    BY <1>1, <1>3 DEF Without
  <1> QED
    BY <1>2, <1>4, <1>5

LEMMA WithoutKeeps ==
    ASSUME NEW q, NEW w, NEW S, Base(q, w), S \cap OwedTo(w, q.account) = {}
    PROVE  LET r == Without(q, S) IN
           /\ Base(r, w) /\ SameContext(q, r) /\ SameCalls(q, r)
           /\ \A C : Flow(q, C) => Flow(r, C)
           /\ Ids(r.items) = Ids(q.items) \ S
  <1>0. q \in Queue /\ Dated(q) /\ Seen(q, w) /\ Home(q, w)
    BY DEF Base
  <1>1. PICK r : r = Without(q, S)
    OBVIOUS
  <1>2. /\ r \in Queue /\ SameContext(q, r) /\ SameStore(q, r) /\ SameCalls(q, r)
        /\ r.paused = q.paused /\ r.freshSends = q.freshSends
        /\ Ids(r.items) = Ids(q.items) \ S /\ (Distinct(q.items) => Distinct(r.items))
        /\ \A n \in DOMAIN r.items : \E k \in DOMAIN q.items : r.items[n] = q.items[k]
    BY <1>0, <1>1, WithoutFacts
  <1>3. Seen(r, w) /\ Dated(r) /\ Distinct(r.items)
    BY <1>0, <1>2 DEF Seen, Dated, Home, SameContext, SameCalls
  <1>4. Touched(r) \subseteq Touched(q)
    BY <1>0, <1>2, TouchedBy, TouchedFacts DEF SameContext, SameCalls, Current
  <1>5. Base(r, w)
    BY <1>2, <1>3, <1>4, BaseStays DEF SameContext
  <1>6. ASSUME NEW C, Flow(q, C) PROVE Flow(r, C)
    BY <1>2, <1>6, FlowLess DEF SameContext, SameCalls
  <1> QED
    BY <1>1, <1>2, <1>5, <1>6

(* They leave storage, and then their payloads go. *)
LEMMA ErasedKeeps ==
    ASSUME NEW q, NEW w, NEW S, NEW ok \in BOOLEAN, Base(q, w), S \cap Ids(q.items) = {}
    PROVE  LET r == IF Saves(q, ok) THEN Cleanup(Save(q, ok), S) ELSE q IN
           /\ Base(r, w) /\ SameContext(q, r) /\ SameCalls(q, r) /\ SameList(q, r)
           /\ \A C : Flow(q, C) => Flow(r, C)
  <1>1. CASE ~Saves(q, ok)
    BY <1>1 DEF SameContext, SameCalls, SameList
  <1>2. CASE Saves(q, ok)
    <2>1. PICK p : p = Save(q, ok)
      OBVIOUS
    <2>2. /\ Base(p, w) /\ SameContext(q, p) /\ SameCalls(q, p) /\ SameList(q, p)
          /\ \A C : Flow(q, C) => Flow(p, C)
          /\ Ids(p.saved[q.account]) = Ids(q.items)
      BY <1>2, <2>1, SaveKeeps
    <2>3. S \cap Ids(p.items) = {} /\ S \cap Ids(p.saved[p.account]) = {}
      BY <2>2 DEF SameList, SameContext
    <2>4. PICK r : r = Cleanup(p, S)
      OBVIOUS
    <2>5. /\ Base(r, w) /\ SameContext(p, r) /\ SameCalls(p, r) /\ SameList(p, r)
          /\ \A C : Flow(p, C) => Flow(r, C)
      BY <2>2, <2>3, <2>4, CleanupKeeps
    <2>6. SameContext(q, r) /\ SameCalls(q, r) /\ SameList(q, r)
      BY <2>2, <2>5 DEF SameContext, SameCalls, SameList
    <2> QED
      BY <1>2, <2>1, <2>2, <2>4, <2>5, <2>6
  <1> QED
    BY <1>1, <1>2

LEMMA DropKeeps ==
    ASSUME NEW q, NEW w, NEW C, NEW s, NEW ok \in BOOLEAN, Object(q, w, C), Honest(w),
           s.rows \subseteq w.rows
    PROVE  LET r == DropAcknowledged(q, s, ok) IN
           Object(r, w, C) /\ SameContext(q, r) /\ SameCalls(q, r)
  <1>1. PICK S : S = {id \in Ids(q.items) : s.session # "absent" /\ id \in s.rows}
    OBVIOUS
  <1>2. CASE S = {}
    BY <1>1, <1>2 DEF DropAcknowledged, SameContext, SameCalls
  <1>3. CASE S # {}
    <2>1. S \cap OwedTo(w, q.account) = {}
      BY <1>1 DEF Honest, OwedTo
    <2>2. PICK d : d = Without(q, S)
      OBVIOUS
    <2>3. /\ Base(d, w) /\ SameContext(q, d) /\ SameCalls(q, d) /\ Flow(d, C)
          /\ Ids(d.items) = Ids(q.items) \ S
      BY <2>1, <2>2, WithoutKeeps DEF Object
    <2>4. PICK r : r = IF Saves(d, ok) THEN Cleanup(Save(d, ok), S) ELSE d
      OBVIOUS
    <2>5. Base(r, w) /\ SameContext(d, r) /\ SameCalls(d, r) /\ Flow(r, C)
      BY <2>3, <2>4, ErasedKeeps
    <2>6. r = DropAcknowledged(q, s, ok)
      BY <1>1, <1>3, <2>2, <2>4 DEF DropAcknowledged
    <2>7. SameContext(q, r) /\ SameCalls(q, r)
      BY <2>3, <2>5 DEF SameContext, SameCalls
    <2> QED
      BY <2>5, <2>6, <2>7 DEF Object
  <1> QED
    BY <1>2, <1>3

(* What a step of the object leaves: the invariant under the consent that  *)
(* still stands, nothing sent unasked, and nothing waiting that could go.  *)
Standing(q, r, C) == IF r.generation = q.generation THEN C ELSE {}

Onward(q, r) ==
    /\ r.serial = q.serial /\ q.generation <= r.generation
    /\ r.generation = q.generation => r.account = q.account

Outcome(q, r, w, C) ==
    /\ Object(r, w, Standing(q, r, C)) /\ SentAsked(q, r, Standing(q, r, C))
    /\ Pumped(r) /\ Onward(q, r)

LEMMA SyncKeeps ==
    ASSUME NEW q, NEW w, NEW C, NEW s \in ClientState, NEW ok \in BOOLEAN, Object(q, w, C), Honest(w),
           s.rows \subseteq w.rows
    PROVE  LET r == Sync(q, s, ok) IN
           /\ Outcome(q, r, w, C) /\ q.dispatches \subseteq r.dispatches
           /\ ~ContextChanged(q, s) => r.generation = q.generation
  <1>0. Base(q, w) /\ Flow(q, C) /\ q \in Queue /\ q.generation \in Nat
    BY FieldTypes DEF Object, Base
  <1>1. PICK x : x = [q EXCEPT !.state = s]
    OBVIOUS
  <1>2. PICK p : p = IF ContextChanged(q, s) THEN Adopt(x, s) ELSE x
    OBVIOUS
  <1>3. PICK D : D = IF ContextChanged(q, s) THEN {} ELSE C
    OBVIOUS
  <1>4. /\ Object(p, w, D) /\ p.serial = q.serial /\ p.dispatches = q.dispatches
        /\ p.generation = IF ContextChanged(q, s) THEN q.generation + 1 ELSE q.generation
        /\ p.account = s.account
    <2>1. CASE ContextChanged(q, s)
      BY <1>0, <1>1, <1>2, <1>3, <2>1, AdoptKeeps
    <2>2. CASE ~ContextChanged(q, s)
      <3>1. s.account = q.account
        BY <2>2 DEF ContextChanged
      <3> QED
        BY <1>1, <1>2, <1>3, <2>2, <3>1, StateKeeps
    <2> QED
      BY <2>1, <2>2
  <1>5. PICK r : r = Sync(q, s, ok)
    OBVIOUS
  <1>6. r = IF s.account = None \/ p.loading THEN p ELSE Pump(DropAcknowledged(p, s, ok), ok)
    BY <1>1, <1>2, <1>5 DEF Sync
  <1>7. Sent(p, r, w, D) /\ Pumped(r)
    <2>1. CASE s.account = None \/ p.loading
      <3>1. Pumped(p)
        BY <1>4, <2>1, QuietIsPumped DEF Object
      <3> QED
        BY <1>4, <1>6, <2>1, <3>1 DEF Sent, SentAsked, SameContext
    <2>2. CASE ~(s.account = None \/ p.loading)
      <3>1. PICK y : y = DropAcknowledged(p, s, ok)
        OBVIOUS
      <3>2. Object(y, w, D) /\ SameContext(p, y) /\ SameCalls(p, y)
        BY <1>4, <3>1, DropKeeps
      <3>3. r = Pump(y, ok)
        BY <1>6, <2>2, <3>1
      <3>4. Sent(y, r, w, D) /\ Pumped(r)
        BY <3>2, <3>3, PumpKeeps
      <3> QED
        BY <3>2, <3>4 DEF Sent, SentAsked, SameContext, SameCalls
    <2> QED
      BY <2>1, <2>2
  <1>8. r.generation = p.generation /\ r.serial = q.serial /\ r.account = s.account
    BY <1>4, <1>7 DEF Sent, SameContext
  <1>9. D = Standing(q, r, C)
    BY <1>0, <1>3, <1>4, <1>8 DEF Standing
  <1>10. SentAsked(q, r, D) /\ q.dispatches \subseteq r.dispatches
    BY <1>4, <1>7 DEF Sent, SentAsked
  <1>11. Onward(q, r)
    BY <1>0, <1>4, <1>8 DEF Onward, ContextChanged
  <1> QED
    BY <1>4, <1>5, <1>7, <1>8, <1>9, <1>10, <1>11 DEF Outcome, Sent

-----------------------------------------------------------------------------
(* The other methods.                                                      *)

LEMMA Stays ==
    ASSUME NEW q, NEW r, NEW w, NEW C, Object(r, w, C), SentAsked(q, r, C), Pumped(r),
           r.generation = q.generation, r.account = q.account, r.serial = q.serial
    PROVE  Outcome(q, r, w, C)
  <1>1. r.generation \in Nat
    BY FieldTypes DEF Object, Base
  <1> QED
    BY <1>1 DEF Outcome, Standing, Onward

(* pause takes back what has not been sent. *)
LEMMA PauseKeeps ==
    ASSUME NEW q, NEW w, NEW C, NEW D, NEW ok \in BOOLEAN, Object(q, w, C),
           \A d \in q.dispatches : Current(q, d) /\ d.at = "persist" => d.id \in D
    PROVE  LET r == PauseThread(q, ok) IN
           /\ Outcome(q, r, w, D) /\ SameContext(q, r) /\ Ids(r.items) = Ids(q.items)
           /\ r.serial = q.serial
  <1>0. Base(q, w) /\ Flow(q, C) /\ q \in Queue /\ Dated(q) /\ Distinct(q.items)
    BY DEF Object, Base, Home
  <1>1. PICK x : x = [q EXCEPT !.freshSends = {}]
    OBVIOUS
  <1>2. /\ x \in Queue /\ SameContext(q, x) /\ SameStore(q, x) /\ SameCalls(q, x)
        /\ x.items = q.items /\ x.freshSends = {}
    BY ONLY <1>0, <1>1 DEF Queue, SameContext, SameStore, SameCalls
  <1>3. PICK f : f = Hold(x)
    OBVIOUS
  <1>4. /\ f \in Queue /\ SameContext(x, f) /\ SameStore(x, f) /\ SameCalls(x, f)
        /\ f.items = x.items /\ f.freshSends = x.freshSends /\ f.paused = TRUE
    BY <1>2, <1>3, HoldFacts
  <1>5. /\ SameContext(q, f) /\ SameStore(q, f) /\ SameCalls(q, f) /\ f.items = q.items
        /\ f.freshSends = {}
    BY <1>2, <1>4 DEF SameContext, SameStore, SameCalls
  <1>6. CASE q.interruption = None
    <2>1. f = PauseThread(q, ok)
      BY <1>1, <1>3, <1>6 DEF PauseThread
    <2>2. Dated(f) /\ SameIds(q.items, f.items)
      BY <1>0, <1>5 DEF Dated, SameContext, SameCalls, SameIds
    <2>3. Touched(f) \subseteq Touched(q)
      BY <1>0, <1>4, <1>5, TouchedBy, TouchedFacts DEF SameContext, SameCalls, Current
    <2>4. Base(f, w)
      BY <1>0, <1>4, <1>5, <2>2, <2>3, BaseSame
    <2>5. Flow(f, C)
      BY <1>0, <1>4, <1>5, FlowLess DEF SameContext, SameCalls
    <2>6. Asked(f, D)
      BY <1>4, <1>5, <1>6 DEF Asked, MayGo, SameCalls, SameContext, Current
    <2>7. Object(f, w, D)
      BY <2>4, <2>5, <2>6 DEF Object, Flow
    <2>8. Pumped(f)
      BY <1>0, <1>5, <1>6 DEF Pumped, Flow, Stopping
    <2>9. SentAsked(q, f, D)
      BY <1>5 DEF SentAsked, SameCalls
    <2>10. Outcome(q, f, w, D)
      BY <1>5, <2>7, <2>8, <2>9, Stays DEF SameContext, SameCalls
    <2> QED
      BY <1>5, <2>1, <2>10 DEF SameCalls
  <1>7. CASE q.interruption # None
    <2>1. PICK i : i = q.interruption
      OBVIOUS
    <2>2. PICK p : p = WithStatus(f, i.id, "queued")
      OBVIOUS
    <2>3. Restated(f, p, i.id, "queued")
      BY <1>0, <1>4, <1>5, <2>2, WithStatusFacts DEF Statuses
    <2>4. PICK j : j = [i EXCEPT !.id = None]
      OBVIOUS
    <2>5. /\ i \in Interruption /\ j \in Interruption /\ j.serial = i.serial /\ j.ready = i.ready
          /\ j.id = None /\ j # None
      <3>1. i \in Interruption
        BY <1>0, <1>7, <2>1, FieldTypes
      <3>2. j \in Interruption /\ j.serial = i.serial /\ j.ready = i.ready /\ j.id = None
        BY ONLY <2>4, <3>1 DEF Interruption
      <3> QED
        BY <3>1, <3>2, QueueAssumption DEF Interruption
    <2>6. PICK e : e = [p EXCEPT !.interruption = j]
      OBVIOUS
    <2>7. p \in Queue
      BY <2>3 DEF Restated
    <2>8. /\ e \in Queue /\ SameContext(p, e) /\ SameStore(p, e) /\ SameList(p, e)
          /\ e.interruption = j /\ e.dispatches = p.dispatches /\ e.interrupts = p.interrupts
          /\ e.serial = p.serial
      BY ONLY <2>5, <2>6, <2>7 DEF Queue, SameContext, SameStore, SameList
    <2>9. /\ SameContext(q, e) /\ SameStore(q, e) /\ e.freshSends = {} /\ e.paused
          /\ e.dispatches = q.dispatches /\ e.interrupts = q.interrupts /\ e.serial = q.serial
          /\ Marked(q.items, e.items, i.id, "queued")
      BY <1>4, <1>5, <2>3, <2>8 DEF Restated, SameContext, SameStore, SameCalls, SameList
    <2>10. \A c : Current(e, c) <=> Current(q, c)
      BY <2>9 DEF Current, SameContext
    <2>11. SameIds(q.items, e.items) /\ DOMAIN e.items = DOMAIN q.items /\ Ids(e.items) = Ids(q.items)
      BY <2>9, SameIdsFacts DEF Marked, SameIds
    <2>12. Base(e, w)
      <3>1. Dated(e)
        BY <1>0, <1>7, <2>1, <2>5, <2>8, <2>9 DEF Dated, SameContext
      <3>2. Touched(e) \subseteq Touched(q)
        BY <1>0, <2>5, <2>8, <2>9, <2>10, <2>11, TouchedBy, TouchedFacts DEF SameContext
      <3> QED
        BY <1>0, <2>8, <2>9, <2>11, <3>1, <3>2, BaseSame
    <2>13. \A k \in DOMAIN q.items : q.items[k].id # None /\ e.items[k].id = q.items[k].id
      BY <1>0, <2>9, FieldTypes, ItemTypes, QueueAssumption DEF Marked, SameIds
    <2>14. \A k \in DOMAIN e.items : e.items[k].status # "stopping"
      BY <1>0, <1>7, <2>1, <2>9, <2>11 DEF Flow, Stopping, Marked
    <2>15. One(e) /\ Sending(e)
      <3>1. One(e)
        BY <1>0, <2>9, <2>10 DEF Flow, One
      <3>2. Sending(e)
        BY <1>0, <1>7, <2>1, <2>9, <2>10, <2>11, <2>13 DEF Flow, Sending, Stopping, Marked
      <3> QED
        BY <3>1, <3>2
    <2>16. Stopping(e)
      <3>1. \A d \in q.dispatches : d.id # None
        BY <1>0, CallTypes, QueueAssumption
      <3> QED
        BY <2>5, <2>8, <2>9, <2>11, <2>13, <2>14, <3>1 DEF Stopping
    <2>17. Awaited(e)
      BY <1>0, <1>7, <2>1, <2>5, <2>8, <2>9, <2>10 DEF Flow, Awaited
    <2>18. Asked(e, D)
      BY <2>5, <2>8, <2>9, <2>10 DEF Asked, MayGo
    <2>19. PICK r : r = Save(e, ok)
      OBVIOUS
    <2>20. Flow(e, D)
      BY <2>15, <2>16, <2>17, <2>18 DEF Flow
    <2>21. Base(r, w) /\ SameContext(e, r) /\ SameCalls(e, r) /\ SameList(e, r) /\ Flow(r, D)
      BY <2>12, <2>19, <2>20, SaveKeeps
    <2>22. Pumped(r)
      BY <2>14, <2>21 DEF Pumped, SameList
    <2>23. SentAsked(q, r, D)
      BY <2>9, <2>21 DEF SentAsked, SameCalls
    <2>24. SameContext(q, r) /\ r.serial = q.serial /\ Ids(r.items) = Ids(q.items)
      BY <2>9, <2>11, <2>21 DEF SameContext, SameCalls, SameList
    <2>25. Outcome(q, r, w, D)
      BY <2>21, <2>22, <2>23, <2>24, Stays DEF Object, SameContext
    <2>26. r = PauseThread(q, ok)
      BY <1>1, <1>3, <1>7, <2>1, <2>2, <2>4, <2>6, <2>19 DEF PauseThread
    <2> QED
      BY <2>24, <2>25, <2>26
  <1> QED
    BY <1>6, <1>7

(* The message of dispatch d is back in the queue, which is held. *)
Unsent(q, u, d) ==
    /\ u \in Queue /\ SameContext(q, u) /\ SameStore(q, u) /\ SameCalls(q, u)
    /\ u.freshSends = q.freshSends /\ Marked(q.items, u.items, d.id, "queued")
    /\ q.paused => u.paused
    /\ d.id \in Ids(q.items) => u.paused

LEMMA UnconfirmedFacts ==
    ASSUME NEW q \in Queue, Distinct(q.items), NEW d
    PROVE  Unsent(q, Unconfirmed(q, d), d) /\ Unsent(q, Hold(Unconfirmed(q, d)), d)
  <1>1. PICK u : u = Unconfirmed(q, d)
    OBVIOUS
  <1>2. Unsent(q, u, d)
    <2>1. CASE d.id \notin Ids(q.items)
      BY <1>1, <2>1
         DEF Unconfirmed, Unsent, Marked, SameIds, SameContext, SameStore, SameCalls, Ids
    <2>2. CASE d.id \in Ids(q.items)
      <3>1. PICK p : p = WithStatus(q, d.id, "queued")
        OBVIOUS
      <3>2. Restated(q, p, d.id, "queued")
        BY <3>1, WithStatusFacts DEF Statuses
      <3>3. /\ u \in Queue /\ SameContext(p, u) /\ SameStore(p, u) /\ SameCalls(p, u)
            /\ u.items = p.items /\ u.freshSends = p.freshSends /\ u.paused = TRUE
        BY <1>1, <2>2, <3>1, <3>2, HoldFacts DEF Unconfirmed, Restated
      <3> QED
        BY <3>2, <3>3 DEF Restated, Unsent, SameContext, SameStore, SameCalls
    <2> QED
      BY <2>1, <2>2
  <1>3. PICK h : h = Hold(u)
    OBVIOUS
  <1>4. /\ h \in Queue /\ SameContext(u, h) /\ SameStore(u, h) /\ SameCalls(u, h)
        /\ h.items = u.items /\ h.freshSends = u.freshSends /\ h.paused = TRUE
    BY <1>2, <1>3, HoldFacts DEF Unsent
  <1>5. Unsent(q, h, d)
    BY <1>2, <1>4 DEF Unsent, SameContext, SameStore, SameCalls
  <1> QED
    BY <1>1, <1>2, <1>3, <1>5

(* The finally block of dispatch. *)
LEMMA SettleKeeps ==
    ASSUME NEW q, NEW u, NEW w, NEW C, NEW d \in q.dispatches, NEW errorRow \in BOOLEAN, NEW ok \in BOOLEAN,
           Object(q, w, C), Current(q, d), Unsent(q, u, d)
    PROVE  LET r == Settle(u, d, errorRow, ok) IN Outcome(q, r, w, C) /\ r.generation = q.generation
  <1>0. Base(q, w) /\ Flow(q, C) /\ q \in Queue /\ Dated(q)
    BY DEF Object, Base
  <1>1. PICK X : X = u.dispatches \ {d}
    OBVIOUS
  <1>2. PICK b \in BOOLEAN : b = (u.paused \/ errorRow \/ ~Saves(u, ok))
    OBVIOUS
  <1>3. PICK e : e = [u EXCEPT !.dispatches = X, !.paused = b]
    OBVIOUS
  <1>4. u \in Queue /\ X \subseteq Calls
    BY <1>1, FieldTypes DEF Unsent
  <1>5. /\ e \in Queue /\ SameContext(u, e) /\ SameStore(u, e) /\ e.items = u.items
        /\ e.freshSends = u.freshSends /\ e.paused = b /\ e.dispatches = X
        /\ e.interrupts = u.interrupts /\ e.serial = u.serial /\ e.interruption = u.interruption
    BY ONLY <1>3, <1>4, b \in BOOLEAN DEF Queue, SameContext, SameStore
  <1>6. /\ SameContext(q, e) /\ SameStore(q, e) /\ e.freshSends = q.freshSends
        /\ e.dispatches = q.dispatches \ {d} /\ e.interrupts = q.interrupts /\ e.serial = q.serial
        /\ e.interruption = q.interruption /\ Marked(q.items, e.items, d.id, "queued")
        /\ q.paused => e.paused
        /\ d.id \in Ids(q.items) => e.paused
    BY <1>1, <1>2, <1>5 DEF Unsent, SameContext, SameStore, SameCalls
  <1>7. \A c : Current(e, c) <=> Current(q, c)
    BY <1>6 DEF Current, SameContext
  <1>8. \A c \in e.dispatches : ~Current(e, c)
    BY <1>0, <1>6, <1>7 DEF Flow, One
  <1>9. SameIds(q.items, e.items) /\ DOMAIN e.items = DOMAIN q.items /\ Ids(e.items) = Ids(q.items)
    BY <1>6, SameIdsFacts DEF Marked, SameIds
  <1>10. Base(e, w)
    <2>1. Dated(e)
      BY <1>0, <1>6 DEF Dated, SameContext
    <2>2. Touched(e) \subseteq Touched(q)
      BY <1>0, <1>5, <1>6, <1>8, <1>9, TouchedBy, TouchedFacts DEF SameContext
    <2> QED
      BY <1>0, <1>5, <1>6, <1>9, <2>1, <2>2, BaseSame
  <1>11. One(e) /\ Sending(e)
    BY <1>8 DEF One, Sending
  <1>12. Stopping(e)
    <2>1. q.interruption # None => q.interruption.id # d.id
      BY <1>0 DEF Flow, Stopping
    <2> QED
      BY <1>0, <1>6, <1>8, <1>9, <2>1 DEF Flow, Stopping, Marked, SameIds
  <1>13. Awaited(e)
    BY <1>0, <1>6, <1>7 DEF Flow, Awaited
  <1>14. Asked(e, C)
    <2>1. ASSUME NEW k \in DOMAIN e.items, MayGo(e, k) PROVE e.items[k].id \in C
      <3>1. q.items[k].id # d.id
        BY <1>0, <1>6, <1>9, <2>1 DEF MayGo, Flow, Sending, Marked, SameIds, Ids
      <3>2. MayGo(q, k) /\ e.items[k].id = q.items[k].id
        BY <1>6, <1>9, <2>1, <3>1 DEF MayGo, Marked, SameIds
      <3> QED
        BY <1>0, <1>9, <3>2 DEF Flow, Asked
    <2> QED
      BY <1>0, <1>6, <1>8, <2>1 DEF Flow, Asked
  <1>15. PICK p : p = Save(e, ok)
    OBVIOUS
  <1>16. Base(p, w) /\ SameContext(e, p) /\ SameCalls(e, p) /\ Flow(p, C)
    BY <1>10, <1>11, <1>12, <1>13, <1>14, <1>15, SaveKeeps DEF Flow
  <1>17. PICK r : r = Pump(p, ok)
    OBVIOUS
  <1>18. Sent(p, r, w, C) /\ Pumped(r)
    BY <1>16, <1>17, PumpKeeps DEF Object
  <1>19. r = Settle(u, d, errorRow, ok)
    BY <1>1, <1>2, <1>3, <1>15, <1>17 DEF Settle
  <1>20. SentAsked(q, r, C)
    BY <1>6, <1>16, <1>18 DEF Sent, SentAsked, SameCalls
  <1>21. r.generation = q.generation /\ r.account = q.account /\ r.serial = q.serial
    BY <1>6, <1>16, <1>18 DEF Sent, SameContext, SameCalls
  <1>22. Outcome(q, r, w, C)
    BY <1>18, <1>20, <1>21, Stays DEF Sent
  <1> QED
    BY <1>19, <1>21, <1>22

(* Dispatches advance, or are abandoned when they are not current. *)
Advance(q, X) ==
    /\ \A e \in X : \E d \in q.dispatches :
            /\ e.id = d.id /\ e.generation = d.generation
            /\ e.at = "persist" => d.at = "persist"
    /\ \A e, f \in X : Current(q, e) /\ Current(q, f) => e = f
    /\ \A d \in q.dispatches : Current(q, d) => \E e \in X : Current(q, e)

LEMMA CallsMove ==
    ASSUME NEW q, NEW w, NEW C, NEW X \in SUBSET Calls, Object(q, w, C), Pumped(q), Advance(q, X)
    PROVE  LET r == [q EXCEPT !.dispatches = X] IN
           /\ Object(r, w, C) /\ Pumped(r) /\ SameContext(q, r) /\ r.serial = q.serial
           /\ r.dispatches = X
  <1>0. Base(q, w) /\ Flow(q, C) /\ q \in Queue /\ Dated(q)
    BY DEF Object, Base
  <1>1. PICK r : r = [q EXCEPT !.dispatches = X]
    OBVIOUS
  <1>2. /\ r \in Queue /\ SameContext(q, r) /\ SameStore(q, r) /\ SameList(q, r)
        /\ r.dispatches = X /\ r.interrupts = q.interrupts /\ r.serial = q.serial
        /\ r.interruption = q.interruption
    BY ONLY <1>0, <1>1, X \in SUBSET Calls DEF Queue, SameContext, SameStore, SameList
  <1>3. \A c : Current(r, c) <=> Current(q, c)
    BY <1>2 DEF Current, SameContext
  <1>4. \A e \in X : \E d \in q.dispatches :
            /\ e.id = d.id /\ (Current(q, e) <=> Current(q, d)) /\ e.generation = d.generation
            /\ e.at = "persist" => d.at = "persist"
    BY DEF Current, Advance
  <1>5. Base(r, w)
    <2>1. Dated(r)
      BY <1>0, <1>2, <1>4 DEF Dated, SameContext
    <2>2. \A e \in X : Current(r, e) => e.id \in Touched(q)
      BY <1>0, <1>3, <1>4, TouchedFacts
    <2>3. Touched(r) \subseteq Touched(q)
      BY <1>0, <1>2, <2>2, TouchedBy, TouchedFacts DEF SameContext, SameList
    <2>4. SameIds(q.items, r.items)
      BY <1>2 DEF SameIds, SameList
    <2> QED
      BY <1>0, <1>2, <2>1, <2>3, <2>4, BaseSame
  <1>6. One(r)
    BY <1>2, <1>3 DEF One, Advance
  <1>7. Sending(r)
    BY <1>0, <1>2, <1>3, <1>4 DEF Flow, Sending, SameList
  <1>8. Stopping(r)
    <2>1. \A e \in X : Current(q, e) /\ q.interruption # None => e.id # q.interruption.id
      BY <1>0, <1>4 DEF Flow, Stopping
    <2> QED
      BY <1>0, <1>2, <1>3, <2>1 DEF Flow, Stopping, SameList
  <1>9. Awaited(r)
    BY <1>0, <1>2, <1>3 DEF Flow, Awaited
  <1>10. Asked(r, C)
    <2>1. \A e \in X : Current(q, e) /\ e.at = "persist" => e.id \in C
      BY <1>0, <1>4 DEF Flow, Asked
    <2> QED
      BY <1>0, <1>2, <1>3, <2>1 DEF Flow, Asked, MayGo, SameList
  <1>11. Pumped(r)
    <2>1. ~Idle(q) => ~Idle(r)
      BY <1>2, <1>3 DEF Idle, SameContext, Advance
    <2> QED
      BY <1>2, <1>3, <2>1 DEF Pumped, SameList, SameContext
  <1> QED
    BY <1>1, <1>2, <1>5, <1>6, <1>7, <1>8, <1>9, <1>10, <1>11 DEF Object, Flow

(* One of them is replaced by E, which has its later form or nothing. *)
Later(q, d, E) ==
    /\ \A e \in E : /\ e.id = d.id /\ e.generation = d.generation
                    /\ e.at = "persist" => d.at = "persist"
    /\ \A e, f \in E : e = f
    /\ Current(q, d) => E # {}

LEMMA OneCallMoves ==
    ASSUME NEW q, NEW w, NEW C, NEW d \in q.dispatches, NEW E \in SUBSET Calls, Object(q, w, C), Pumped(q),
           Later(q, d, E)
    PROVE  LET r == [q EXCEPT !.dispatches = (q.dispatches \ {d}) \cup E] IN
           /\ Object(r, w, C) /\ Pumped(r) /\ SameContext(q, r) /\ r.serial = q.serial
           /\ r.dispatches = (q.dispatches \ {d}) \cup E
  <1>0. Flow(q, C) /\ q \in Queue
    BY DEF Object, Base
  <1>1. PICK X : X = (q.dispatches \ {d}) \cup E
    OBVIOUS
  <1>2. X \in SUBSET Calls
    BY <1>0, <1>1, FieldTypes
  <1>3. \A e \in E : Current(q, e) <=> Current(q, d)
    BY DEF Current, Later
  <1>4. \A e \in X : \E c \in q.dispatches :
            /\ e.id = c.id /\ e.generation = c.generation
            /\ e.at = "persist" => c.at = "persist"
    BY <1>1 DEF Later
  <1>5. \A e, f \in X : Current(q, e) /\ Current(q, f) => e = f
    BY <1>0, <1>1, <1>3 DEF Flow, One, Later
  <1>6. \A c \in q.dispatches : Current(q, c) => \E e \in X : Current(q, e)
    BY <1>1, <1>3 DEF Later
  <1>7. Advance(q, X)
    BY <1>4, <1>5, <1>6 DEF Advance
  <1>8. PICK r : r = [q EXCEPT !.dispatches = X]
    OBVIOUS
  <1>9. /\ Object(r, w, C) /\ Pumped(r) /\ SameContext(q, r) /\ r.serial = q.serial
        /\ r.dispatches = X
    BY <1>2, <1>7, <1>8, CallsMove
  <1> QED
    BY <1>1, <1>8, <1>9

LEMMA HoldKeeps ==
    ASSUME NEW q, NEW w, NEW C, Object(q, w, C)
    PROVE  Object(Hold(q), w, C)
  <1>0. Base(q, w) /\ Flow(q, C) /\ q \in Queue /\ Dated(q)
    BY DEF Object, Base
  <1>1. PICK h : h = Hold(q)
    OBVIOUS
  <1>2. /\ h \in Queue /\ SameContext(q, h) /\ SameStore(q, h) /\ SameCalls(q, h)
        /\ h.items = q.items /\ h.freshSends = q.freshSends /\ h.paused = TRUE
    BY <1>0, <1>1, HoldFacts
  <1>3. Dated(h) /\ SameIds(q.items, h.items)
    BY <1>0, <1>2 DEF Dated, SameIds, SameContext, SameCalls
  <1>4. Touched(h) \subseteq Touched(q)
    BY <1>0, <1>2, TouchedBy, TouchedFacts DEF SameContext, SameCalls, Current
  <1>5. Base(h, w)
    BY <1>0, <1>2, <1>3, <1>4, BaseSame
  <1>6. Flow(h, C)
    BY <1>0, <1>2, FlowLess DEF SameContext, SameCalls
  <1> QED
    BY <1>1, <1>5, <1>6 DEF Object

(* getState has answered after the prompt. *)
LEMMA ReturnedKeeps ==
    ASSUME NEW w, NEW C, NEW d \in mq.dispatches, NEW errorRow \in BOOLEAN, NEW ok \in BOOLEAN,
           Object(mq, w, C), Honest(w), native \in ClientState, native.rows \subseteq w.rows,
           Current(mq, d)
    PROVE  Outcome(mq, Returned(d, errorRow, ok), w, C)
  <1>1. PICK q : q = Sync(mq, native, ok)
    OBVIOUS
  <1>2. Outcome(mq, q, w, C) /\ d \in q.dispatches
    BY <1>1, SyncKeeps
  <1>3. PICK D : D = Standing(mq, q, C)
    OBVIOUS
  <1>4. Object(q, w, D) /\ SentAsked(mq, q, D) /\ Pumped(q) /\ Onward(mq, q)
    BY <1>2, <1>3 DEF Outcome
  <1>5. PICK z : z = Returned(d, errorRow, ok)
    OBVIOUS
  <1>6. CASE Current(q, d)
    <2>1. q.generation = mq.generation /\ D = C
      BY <1>3, <1>6 DEF Current, Standing
    <2>2. PICK p : p = IF d.reply # "end_turn" /\ q.interruption = None THEN Hold(q) ELSE q
      OBVIOUS
    <2>3. /\ Object(p, w, C) /\ p.dispatches = q.dispatches /\ p.generation = q.generation
          /\ p.account = q.account /\ p.serial = q.serial
      <3>1. CASE p = q
        BY <1>4, <2>1, <3>1
      <3>2. CASE p = Hold(q)
        <4>1. q \in Queue
          BY <1>4 DEF Object, Base
        <4> QED
          BY <1>4, <2>1, <3>2, <4>1, HoldKeeps, HoldFacts DEF SameContext, SameCalls
      <3> QED
        BY <2>2, <3>1, <3>2
    <2>4. p \in Queue /\ Distinct(p.items)
      BY <2>3 DEF Object, Base, Home
    <2>5. PICK u : u = Unconfirmed(p, d)
      OBVIOUS
    <2>6. Unsent(p, u, d)
      BY <2>4, <2>5, UnconfirmedFacts
    <2>7. d \in p.dispatches /\ Current(p, d)
      BY <1>2, <1>6, <2>3 DEF Current
    <2>8. z = Settle(u, d, errorRow, ok)
      BY <1>1, <1>5, <1>6, <2>2, <2>5 DEF Returned
    <2>9. Outcome(p, z, w, C) /\ z.generation = p.generation
      BY <2>3, <2>6, <2>7, <2>8, SettleKeeps
    <2>10. Object(z, w, C) /\ SentAsked(p, z, C) /\ Pumped(z) /\ z.account = p.account /\ z.serial = p.serial
      BY <2>9 DEF Outcome, Standing, Onward
    <2>11. SentAsked(mq, z, C)
      BY <1>4, <2>1, <2>3, <2>9, <2>10 DEF SentAsked, Current
    <2>12. z.generation = mq.generation /\ z.account = mq.account /\ z.serial = mq.serial
      BY <1>4, <2>1, <2>3, <2>9, <2>10 DEF Onward
    <2>13. Outcome(mq, z, w, C)
      BY <2>10, <2>11, <2>12, Stays
    <2> QED
      BY <1>5, <2>13
  <1>7. CASE ~Current(q, d)
    <2>1. z = [q EXCEPT !.dispatches = q.dispatches \ {d}]
      BY <1>1, <1>5, <1>7 DEF Returned
    <2>2. PICK E : E = {}
      OBVIOUS
    <2>3. z = [q EXCEPT !.dispatches = (q.dispatches \ {d}) \cup E] /\ E \in SUBSET Calls
      BY <2>1, <2>2
    <2>4. Later(q, d, E)
      BY <1>7, <2>2 DEF Later
    <2>5. /\ Object(z, w, D) /\ Pumped(z) /\ SameContext(q, z) /\ z.serial = q.serial
          /\ z.dispatches = q.dispatches \ {d}
      <3>1. /\ Object(z, w, D) /\ Pumped(z) /\ SameContext(q, z) /\ z.serial = q.serial
            /\ z.dispatches = (q.dispatches \ {d}) \cup E
        BY <1>2, <1>4, <2>3, <2>4, OneCallMoves
      <3> QED
        BY <2>2, <3>1
    <2>6. SentAsked(mq, z, D) /\ Onward(mq, z) /\ D = Standing(mq, z, C)
      BY <1>3, <1>4, <2>5 DEF SentAsked, Onward, Standing, SameContext, Current
    <2> QED
      BY <1>5, <2>5, <2>6 DEF Outcome
  <1> QED
    BY <1>6, <1>7

(* dispatch has failed. *)
LEMMA FailedKeeps ==
    ASSUME NEW w, NEW C, NEW d \in mq.dispatches, NEW ok \in BOOLEAN, Object(mq, w, C), Current(mq, d)
    PROVE  Outcome(mq, Failed(d, ok), w, C) /\ Failed(d, ok).generation = mq.generation
  <1>1. mq \in Queue /\ Distinct(mq.items)
    BY DEF Object, Base, Home
  <1>2. PICK u : u = Hold(Unconfirmed(mq, d))
    OBVIOUS
  <1>3. Unsent(mq, u, d)
    BY <1>1, <1>2, UnconfirmedFacts
  <1> QED
    BY <1>2, <1>3, SettleKeeps DEF Failed


-----------------------------------------------------------------------------
(* The interruption's own steps.                                           *)

LEMMA InterruptsMove ==
    ASSUME NEW q, NEW w, NEW C, Object(q, w, C), Pumped(q),
           NEW P \in SUBSET [serial : Nat, generation : Nat, at : {"cancel", "state"}],
           \A p \in P : p.generation <= q.generation /\ p.serial \in 1..q.serial,
           q.interruption # None /\ ~q.interruption.ready =>
                \E p \in P : Current(q, p) /\ p.serial = q.interruption.serial
    PROVE  LET r == [q EXCEPT !.interrupts = P] IN
           /\ Object(r, w, C) /\ Pumped(r) /\ SameContext(q, r) /\ SameStore(q, r) /\ SameList(q, r)
           /\ r.dispatches = q.dispatches /\ r.serial = q.serial /\ r.interruption = q.interruption
           /\ r.interrupts = P
  <1>0. Base(q, w) /\ Flow(q, C) /\ q \in Queue /\ Dated(q)
    BY DEF Object, Base
  <1>1. PICK r : r = [q EXCEPT !.interrupts = P]
    OBVIOUS
  <1>2. /\ r \in Queue /\ SameContext(q, r) /\ SameStore(q, r) /\ SameList(q, r)
        /\ r.dispatches = q.dispatches /\ r.interrupts = P /\ r.serial = q.serial
        /\ r.interruption = q.interruption
    BY ONLY <1>0, <1>1, P \in SUBSET [serial : Nat, generation : Nat, at : {"cancel", "state"}]
       DEF Queue, SameContext, SameStore, SameList
  <1>3. \A c : Current(r, c) <=> Current(q, c)
    BY <1>2 DEF Current, SameContext
  <1>4. Base(r, w)
    <2>1. Dated(r) /\ SameIds(q.items, r.items)
      BY <1>0, <1>2 DEF Dated, SameContext, SameIds, SameList
    <2>2. Touched(r) = Touched(q)
      BY <1>2, <1>3 DEF Touched, InFlight, SameList
    <2> QED
      BY <1>0, <1>2, <2>1, <2>2, BaseSame
  <1>5. One(r) /\ Sending(r) /\ Stopping(r)
    BY <1>0, <1>2, <1>3 DEF Flow, One, Sending, Stopping, SameList
  <1>6. Awaited(r)
    BY <1>2, <1>3 DEF Awaited
  <1>7. Asked(r, C)
    BY <1>0, <1>2, <1>3 DEF Flow, Asked, MayGo, SameList
  <1>8. Pumped(r)
    BY <1>2, <1>3 DEF Pumped, Idle, SameContext, SameList
  <1> QED
    BY <1>1, <1>2, <1>4, <1>5, <1>6, <1>7, <1>8 DEF Object, Flow

(* The call of another interruption, or of another context, is dropped. *)
LEMMA StrangerKeeps ==
    ASSUME NEW w, NEW C, NEW p \in mq.interrupts, Object(mq, w, C), Pumped(mq), ~Owns(p)
    PROVE  Outcome(mq, [mq EXCEPT !.interrupts = mq.interrupts \ {p}], w, C)
  <1>0. Flow(mq, C) /\ mq \in Queue /\ Dated(mq)
    BY DEF Object, Base
  <1>1. PICK P : P = mq.interrupts \ {p}
    OBVIOUS
  <1>2. P \in SUBSET [serial : Nat, generation : Nat, at : {"cancel", "state"}]
    BY <1>0, <1>1, FieldTypes
  <1>3. \A c \in P : c.generation <= mq.generation /\ c.serial \in 1..mq.serial
    BY <1>0, <1>1 DEF Dated
  <1>4. mq.interruption # None /\ ~mq.interruption.ready =>
            \E c \in P : Current(mq, c) /\ c.serial = mq.interruption.serial
    BY <1>0, <1>1 DEF Flow, Awaited, Owns
  <1>5. PICK r : r = [mq EXCEPT !.interrupts = P]
    OBVIOUS
  <1>6. /\ Object(r, w, C) /\ Pumped(r) /\ SameContext(mq, r)
        /\ r.dispatches = mq.dispatches /\ r.serial = mq.serial
    BY <1>2, <1>3, <1>4, <1>5, InterruptsMove
  <1>7. SentAsked(mq, r, C)
    BY <1>6 DEF SentAsked
  <1> QED
    BY <1>1, <1>5, <1>6, <1>7, Stays DEF SameContext

(* cancel or getState has answered. *)
LEMMA AdvancesKeeps ==
    ASSUME NEW w, NEW C, NEW p \in mq.interrupts, NEW ok \in BOOLEAN, Object(mq, w, C), Pumped(mq), Honest(w),
           native \in ClientState, native.rows \subseteq w.rows
    PROVE  Outcome(mq, InterruptAdvances(p, ok), w, C)
  <1>0. Base(mq, w) /\ Flow(mq, C) /\ mq \in Queue /\ Dated(mq)
    BY DEF Object, Base
  <1>1. CASE ~Owns(p)
    BY <1>1, StrangerKeeps DEF InterruptAdvances
  <1>2. CASE Owns(p)
    <2>1. PICK i : i = mq.interruption
      OBVIOUS
    <2>2. i \in Interruption /\ i # None /\ Current(mq, p) /\ i.serial = p.serial
      BY <1>0, <1>2, <2>1, FieldTypes DEF Owns
    <2>3. p \in [serial : Nat, generation : Nat, at : {"cancel", "state"}]
      BY <1>0, FieldTypes
    <2>4. CASE p.at = "cancel"
      <3>1. PICK c : c = [p EXCEPT !.at = "state"]
        OBVIOUS
      <3>2. /\ c \in [serial : Nat, generation : Nat, at : {"cancel", "state"}]
            /\ c.serial = p.serial /\ c.generation = p.generation
        BY ONLY <2>3, <3>1
      <3>3. PICK P : P = (mq.interrupts \ {p}) \cup {c}
        OBVIOUS
      <3>4. P \in SUBSET [serial : Nat, generation : Nat, at : {"cancel", "state"}]
        BY <1>0, <3>2, <3>3, FieldTypes
      <3>5. \A x \in P : x.generation <= mq.generation /\ x.serial \in 1..mq.serial
        BY <1>0, <3>2, <3>3 DEF Dated
      <3>6. \E x \in P : Current(mq, x) /\ x.serial = mq.interruption.serial
        BY <2>1, <2>2, <3>2, <3>3 DEF Current
      <3>7. PICK r : r = [mq EXCEPT !.interrupts = P]
        OBVIOUS
      <3>8. /\ Object(r, w, C) /\ Pumped(r) /\ SameContext(mq, r)
            /\ r.dispatches = mq.dispatches /\ r.serial = mq.serial
        BY <3>4, <3>5, <3>6, <3>7, InterruptsMove
      <3>9. SentAsked(mq, r, C)
        BY <3>8 DEF SentAsked
      <3>10. r = InterruptAdvances(p, ok)
        <4>1. PICK y : y = [mq EXCEPT !.interrupts = mq.interrupts \ {p}]
          OBVIOUS
        <4>2. y.interrupts = mq.interrupts \ {p}
          BY <1>0, <4>1 DEF Queue
        <4>3. InterruptAdvances(p, ok) = [y EXCEPT !.interrupts = P]
          BY <1>2, <2>4, <3>1, <3>3, <4>1, <4>2 DEF InterruptAdvances
        <4> QED
          BY <3>7, <4>1, <4>3
      <3> QED
        BY <3>8, <3>9, <3>10, Stays DEF SameContext
    <2>5. CASE p.at # "cancel"
      <3>1. PICK j : j = [i EXCEPT !.ready = TRUE]
        OBVIOUS
      <3>2. j \in Interruption /\ j.id = i.id /\ j.serial = i.serial /\ j.ready /\ j # None
        <4>1. j \in Interruption /\ j.id = i.id /\ j.serial = i.serial /\ j.ready
          BY ONLY <2>2, <3>1 DEF Interruption
        <4> QED
          BY <4>1, QueueAssumption DEF Interruption
      <3>3. PICK P : P = mq.interrupts \ {p}
        OBVIOUS
      <3>4. P \in SUBSET [serial : Nat, generation : Nat, at : {"cancel", "state"}]
        BY <1>0, <3>3, FieldTypes
      <3>5. PICK x : x = [mq EXCEPT !.interrupts = P, !.interruption = j]
        OBVIOUS
      <3>6. /\ x \in Queue /\ SameContext(mq, x) /\ SameStore(mq, x) /\ SameList(mq, x)
            /\ x.dispatches = mq.dispatches /\ x.serial = mq.serial /\ x.interrupts = P
            /\ x.interruption = j
        BY ONLY <1>0, <3>2, <3>4, <3>5 DEF Queue, SameContext, SameStore, SameList
      <3>7. \A c : Current(x, c) <=> Current(mq, c)
        BY <3>6 DEF Current, SameContext
      <3>8. Base(x, w)
        <4>1. Dated(x) /\ SameIds(mq.items, x.items)
          BY <1>0, <2>1, <2>2, <3>2, <3>3, <3>6 DEF Dated, SameContext, SameIds, SameList
        <4>2. Touched(x) \subseteq Touched(mq)
          BY <1>0, <2>1, <2>2, <3>2, <3>6, <3>7, TouchedBy, TouchedFacts DEF SameContext, SameList
        <4> QED
          BY <1>0, <3>6, <4>1, <4>2, BaseSame
      <3>9. One(x) /\ Sending(x)
        BY <1>0, <3>6, <3>7 DEF Flow, One, Sending, SameList
      <3>10. Stopping(x) /\ Awaited(x)
        BY <1>0, <2>1, <2>2, <3>2, <3>6, <3>7 DEF Flow, Stopping, Awaited, SameList
      <3>11. Asked(x, C)
        BY <1>0, <2>1, <2>2, <3>2, <3>6, <3>7 DEF Flow, Asked, MayGo, SameList
      <3>12. Object(x, w, C)
        BY <3>8, <3>9, <3>10, <3>11 DEF Object, Flow
      <3>13. PICK r : r = Sync(x, native, ok)
        OBVIOUS
      <3>14. Outcome(x, r, w, C)
        BY <3>12, <3>13, SyncKeeps
      <3>15. InterruptAdvances(p, ok) = r
        <4>1. PICK y : y = [mq EXCEPT !.interrupts = P]
          OBVIOUS
        <4>2. InterruptAdvances(p, ok) = Sync([y EXCEPT !.interruption = j], native, ok)
          BY <1>2, <2>1, <2>5, <3>1, <3>3, <4>1 DEF InterruptAdvances
        <4>3. x = [y EXCEPT !.interruption = j]
          BY <3>5, <4>1
        <4> QED
          BY <3>13, <4>2, <4>3
      <3>16. Outcome(mq, r, w, C)
        BY <3>6, <3>14 DEF Outcome, Standing, SentAsked, Onward, SameContext
      <3> QED
        BY <3>15, <3>16
    <2> QED
      BY <2>4, <2>5
  <1> QED
    BY <1>1, <1>2

(* They have failed: consent for the message is withdrawn. *)
LEMMA FailsKeeps ==
    ASSUME NEW w, NEW C, NEW p \in mq.interrupts, Object(mq, w, C), Pumped(mq)
    PROVE  LET r == InterruptFails(p, TRUE) IN
           /\ Outcome(mq, r, w, IF Owns(p) THEN C \ {mq.interruption.id} ELSE C)
           /\ r.generation = mq.generation
  <1>0. Base(mq, w) /\ Flow(mq, C) /\ mq \in Queue /\ Dated(mq) /\ Distinct(mq.items)
    BY DEF Object, Base, Home
  <1>1. PICK P : P = mq.interrupts \ {p}
    OBVIOUS
  <1>2. P \in SUBSET [serial : Nat, generation : Nat, at : {"cancel", "state"}]
    BY <1>0, <1>1, FieldTypes
  <1>3. PICK y : y = [mq EXCEPT !.interrupts = P]
    OBVIOUS
  <1>4. /\ y \in Queue /\ SameContext(mq, y) /\ SameStore(mq, y) /\ SameList(mq, y)
        /\ y.dispatches = mq.dispatches /\ y.serial = mq.serial /\ y.interrupts = P
        /\ y.interruption = mq.interruption
    BY ONLY <1>0, <1>2, <1>3 DEF Queue, SameContext, SameStore, SameList
  <1>5. CASE ~Owns(p)
    <2>1. y = InterruptFails(p, TRUE)
      BY <1>1, <1>3, <1>5 DEF InterruptFails
    <2>2. Outcome(mq, y, w, C)
      BY <1>1, <1>3, <1>5, StrangerKeeps
    <2> QED
      BY <1>4, <1>5, <2>1, <2>2 DEF SameContext
  <1>6. CASE Owns(p)
    <2>1. PICK id : id = mq.interruption.id
      OBVIOUS
    <2>2. mq.interruption # None
      BY <1>6 DEF Owns
    <2>3. PICK s : s = WithStatus(y, id, "queued")
      OBVIOUS
    <2>4. Restated(y, s, id, "queued")
      BY <1>0, <1>4, <2>3, WithStatusFacts DEF Statuses, SameList
    <2>5. PICK n : n = [s EXCEPT !.interruption = None]
      OBVIOUS
    <2>6. s \in Queue
      BY <2>4 DEF Restated
    <2>7. /\ n \in Queue /\ SameContext(s, n) /\ SameStore(s, n) /\ SameList(s, n)
          /\ n.dispatches = s.dispatches /\ n.serial = s.serial /\ n.interrupts = s.interrupts
          /\ n.interruption = None
      BY ONLY <2>5, <2>6 DEF Queue, SameContext, SameStore, SameList
    <2>8. PICK h : h = Hold(n)
      OBVIOUS
    <2>9. /\ h \in Queue /\ SameContext(n, h) /\ SameStore(n, h) /\ SameCalls(n, h)
          /\ h.items = n.items /\ h.freshSends = n.freshSends /\ h.paused = TRUE
      BY <2>7, <2>8, HoldFacts
    <2>10. /\ SameContext(mq, h) /\ SameStore(mq, h) /\ h.freshSends = mq.freshSends
           /\ h.dispatches = mq.dispatches /\ h.serial = mq.serial /\ h.interrupts = P
           /\ h.interruption = None /\ Marked(mq.items, h.items, id, "queued")
      BY <1>4, <2>4, <2>7, <2>9 DEF Restated, SameContext, SameStore, SameCalls, SameList
    <2>11. \A c : Current(h, c) <=> Current(mq, c)
      BY <2>10 DEF Current, SameContext
    <2>12. SameIds(mq.items, h.items) /\ DOMAIN h.items = DOMAIN mq.items /\ Ids(h.items) = Ids(mq.items)
      BY <2>10, SameIdsFacts DEF Marked, SameIds
    <2>13. Base(h, w)
      <3>1. Dated(h)
        BY <1>0, <1>1, <2>10 DEF Dated, SameContext
      <3>2. Touched(h) \subseteq Touched(mq)
        BY <1>0, <2>9, <2>10, <2>11, <2>12, TouchedBy, TouchedFacts DEF SameContext
      <3> QED
        BY <1>0, <2>9, <2>10, <2>12, <3>1, <3>2, BaseSame
    <2>14. One(h)
      BY <1>0, <2>10, <2>11 DEF Flow, One
    <2>15. Sending(h)
      BY <1>0, <2>1, <2>2, <2>10, <2>11, <2>12 DEF Flow, Sending, Stopping, Marked, SameIds
    <2>16. Stopping(h) /\ Awaited(h) /\ Pumped(h)
      BY <1>0, <2>1, <2>2, <2>10, <2>12 DEF Flow, Stopping, Awaited, Pumped, Marked
    <2>17. Asked(h, C \ {id})
      <3>1. ASSUME NEW k \in DOMAIN h.items, MayGo(h, k) PROVE h.items[k].id \in C \ {id}
        <4>1. mq.items[k].id # id
          BY <1>0, <2>1, <2>2, <2>9, <2>10, <2>12, <3>1 DEF MayGo, Flow, Stopping, Marked, SameIds
        <4>2. MayGo(mq, k) /\ h.items[k].id = mq.items[k].id
          BY <2>9, <2>10, <2>12, <3>1, <4>1 DEF MayGo, Marked, SameIds
        <4> QED
          BY <1>0, <2>12, <4>1, <4>2 DEF Flow, Asked
      <3> QED
        BY <1>0, <2>1, <2>2, <2>10, <2>11, <3>1 DEF Flow, Asked, Stopping
    <2>18. PICK r : r = Save(h, TRUE)
      OBVIOUS
    <2>19. Base(r, w) /\ SameContext(h, r) /\ SameCalls(h, r) /\ SameList(h, r) /\ Flow(r, C \ {id})
      BY <2>13, <2>14, <2>15, <2>16, <2>17, <2>18, SaveKeeps DEF Flow
    <2>20. Pumped(r)
      BY <2>16, <2>10, <2>19 DEF Pumped, Flow, Stopping, SameCalls
    <2>21. SentAsked(mq, r, C \ {id})
      BY <2>10, <2>19 DEF SentAsked, SameCalls
    <2>22. r.generation = mq.generation /\ r.account = mq.account /\ r.serial = mq.serial
      BY <2>10, <2>19 DEF SameContext, SameCalls
    <2>23. Outcome(mq, r, w, C \ {id})
      BY <2>19, <2>20, <2>21, <2>22, Stays DEF Object
    <2>24. r = InterruptFails(p, TRUE)
      BY <1>1, <1>3, <1>6, <2>1, <2>3, <2>5, <2>8, <2>18 DEF InterruptFails
    <2> QED
      BY <1>6, <2>1, <2>22, <2>23, <2>24
  <1> QED
    BY <1>5, <1>6

-----------------------------------------------------------------------------
(* The user's commands.                                                    *)

(* sendNow of a queued message. *)
LEMMA QueuedIsPoised ==
    ASSUME NEW w, NEW C, NEW m \in Messages, Object(mq, w, C), Has(mq, m, "queued"),
           ~ItemOf(mq, m).preparing, mq.interruption = None
    PROVE  Poised(mq, w, C \cup {m}, m)
  <1>0. Base(mq, w) /\ Flow(mq, C) /\ mq \in Queue /\ Distinct(mq.items)
    BY DEF Object, Base, Home
  <1>1. m \in Ids(mq.items)
    BY DEF Has
  <1>2. PICK j \in DOMAIN mq.items : ItemOf(mq, m) = mq.items[j] /\ mq.items[j].id = m
    BY <1>1, ItemOfFacts
  <1>3. \A k \in DOMAIN mq.items : mq.items[k].id = m => k = j
    BY <1>0, <1>2 DEF Distinct
  <1>4. mq.items[j].status = "queued" /\ ~mq.items[j].preparing
    BY <1>2 DEF Has
  <1>5. \A d \in mq.dispatches : Current(mq, d) => d.id # m
    BY <1>0, <1>2, <1>4 DEF Flow, Sending
  <1>6. Flow(mq, C \cup {m})
    BY <1>0, FlowGrants
  <1> QED
    BY <1>0, <1>1, <1>3, <1>4, <1>5, <1>6 DEF Poised, Flow, Stopping

LEMMA InterruptingKeeps ==
    ASSUME NEW w, NEW C, NEW m \in Messages, NEW ok \in BOOLEAN, Poised(mq, w, C, m)
    PROVE  LET r == Interrupting(m, ok) IN
           /\ Object(r, w, C) /\ Pumped(r) /\ SameContext(mq, r) /\ r.dispatches = mq.dispatches
  <1>0. /\ Base(mq, w) /\ One(mq) /\ Sending(mq) /\ Asked(mq, C) /\ Distinct(mq.items)
        /\ mq.interruption = None /\ m \in C /\ mq \in Queue /\ Dated(mq) /\ m \in Ids(mq.items)
    BY DEF Poised, Base, Home
  <1>1. PICK s : s = WithStatus([mq EXCEPT !.freshSends = mq.freshSends \ {m}], m, "stopping")
    OBVIOUS
  <1>2. /\ s \in Queue /\ SameContext(mq, s) /\ SameStore(mq, s) /\ SameCalls(mq, s)
        /\ s.paused = mq.paused /\ s.freshSends = mq.freshSends \ {m}
        /\ Marked(mq.items, s.items, m, "stopping")
    BY <1>0, <1>1, UnfreshFacts DEF Statuses
  <1>3. Distinct(s.items) /\ Ids(s.items) = Ids(mq.items) /\ DOMAIN s.items = DOMAIN mq.items
    BY <1>0, <1>2, SameIdsFacts DEF Marked, SameIds
  <1>4. CASE ~Saves(s, ok)
    <2>1. PICK p : p = WithStatus(s, m, "queued")
      OBVIOUS
    <2>2. Restated(s, p, m, "queued")
      BY <1>2, <1>3, <2>1, WithStatusFacts DEF Statuses
    <2>3. PICK r : r = Hold(p)
      OBVIOUS
    <2>4. /\ r \in Queue /\ SameContext(p, r) /\ SameStore(p, r) /\ SameCalls(p, r)
          /\ r.items = p.items /\ r.freshSends = p.freshSends /\ r.paused = TRUE
      BY <2>2, <2>3, HoldFacts DEF Restated
    <2>5. SameContext(mq, r) /\ SameStore(mq, r) /\ SameCalls(mq, r) /\ r.freshSends \subseteq mq.freshSends
      BY <1>2, <2>2, <2>4 DEF Restated, SameContext, SameStore, SameCalls
    <2>6. Marked(mq.items, r.items, m, "queued")
      BY <1>2, <2>2, <2>4 DEF Restated, Marked, SameIds
    <2>7. Object(r, w, C)
      BY <2>4, <2>5, <2>6, BackInQueue
    <2>8. r = Interrupting(m, ok)
      BY <1>1, <1>4, <2>1, <2>3 DEF Interrupting
    <2>9. Pumped(r)
      BY <1>0, <2>5, <2>7 DEF Pumped, Object, Flow, Stopping, SameCalls
    <2> QED
      BY <2>5, <2>7, <2>8, <2>9 DEF SameCalls
  <1>5. CASE Saves(s, ok)
    <2>1. PICK p : p = Save(s, ok)
      OBVIOUS
    <2>2. Base(s, w)
      <3>1. Dated(s)
        BY <1>0, <1>2 DEF Dated, SameContext, SameCalls
      <3>2. Touched(s) \subseteq Touched(mq)
        BY <1>0, <1>2, <1>3, TouchedBy, TouchedFacts DEF SameCalls, SameContext, Current
      <3> QED
        BY <1>0, <1>2, <3>1, <3>2, BaseSame DEF Marked
    <2>3. Base(p, w) /\ SameContext(s, p) /\ SameCalls(s, p) /\ SameList(s, p)
      BY <2>1, <2>2, SaveKeeps
    <2>4. PICK n : n = mq.serial + 1
      OBVIOUS
    <2>5. mq.serial \in Nat /\ n \in Nat /\ n \in 1..n /\ mq.generation \in Nat
      BY <1>0, <2>4, FieldTypes
    <2>6. PICK i : i = [serial |-> n, id |-> m, ready |-> FALSE]
      OBVIOUS
    <2>7. i \in Interruption /\ i # None /\ i.serial = n /\ i.id = m /\ i.ready = FALSE
      <3>1. i \in Interruption /\ i.serial = n /\ i.id = m /\ i.ready = FALSE
        BY ONLY <2>5, <2>6, m \in Messages DEF Interruption
      <3> QED
        BY <3>1, QueueAssumption DEF Interruption
    <2>8. PICK c : c = [serial |-> n, generation |-> mq.generation, at |-> "cancel"]
      OBVIOUS
    <2>9. /\ c \in [serial : Nat, generation : Nat, at : {"cancel", "state"}]
          /\ c.serial = n /\ c.generation = mq.generation
      BY ONLY <2>5, <2>8
    <2>10. PICK P : P = mq.interrupts \cup {c}
      OBVIOUS
    <2>11. P \in SUBSET [serial : Nat, generation : Nat, at : {"cancel", "state"}]
      BY <1>0, <2>9, <2>10, FieldTypes
    <2>12. p \in Queue /\ p.interrupts = mq.interrupts
      BY <1>2, <2>3 DEF Base, SameCalls
    <2>13. PICK r : r = [p EXCEPT !.serial = n, !.interruption = i, !.interrupts = P]
      OBVIOUS
    <2>14. r = Interrupting(m, ok)
      BY <1>1, <1>5, <2>1, <2>4, <2>6, <2>8, <2>10, <2>12, <2>13 DEF Interrupting
    <2>15. /\ r \in Queue /\ SameContext(p, r) /\ SameStore(p, r) /\ SameList(p, r)
           /\ r.dispatches = p.dispatches /\ r.serial = n /\ r.interruption = i /\ r.interrupts = P
      BY ONLY <2>5, <2>7, <2>11, <2>12, <2>13 DEF Queue, SameContext, SameStore, SameList
    <2>16. /\ SameContext(mq, r) /\ r.dispatches = mq.dispatches /\ r.items = s.items
           /\ r.paused = mq.paused /\ r.freshSends = mq.freshSends \ {m}
      BY <1>2, <2>3, <2>15 DEF SameContext, SameCalls, SameList
    <2>17. \A x : Current(r, x) <=> Current(mq, x)
      BY <2>16 DEF Current, SameContext
    <2>18. Base(r, w)
      <3>1. Dated(r)
        <4>1. \A x \in 1..mq.serial : x \in 1..n
          BY <2>4, <2>5
        <4>2. c.generation <= r.generation /\ c.serial \in 1..n
          BY <2>5, <2>9, <2>16 DEF SameContext
        <4> QED
          BY <1>0, <2>5, <2>7, <2>10, <2>15, <2>16, <4>1, <4>2 DEF Dated, SameContext
      <3>2. SameIds(p.items, r.items) /\ Ids(r.items) = Ids(p.items)
        BY <2>15 DEF SameIds, SameList
      <3>3. m \in Touched(p)
        BY <1>0, <1>3, <2>3, <2>12, TouchedFacts DEF SameList
      <3>4. \A x : Current(r, x) <=> Current(p, x)
        BY <2>15 DEF Current, SameContext
      <3>5. Touched(r) \subseteq Touched(p)
        BY <2>7, <2>12, <2>15, <3>2, <3>3, <3>4, TouchedBy, TouchedFacts DEF SameContext, SameList
      <3> QED
        BY <2>3, <2>15, <3>1, <3>2, <3>5, BaseSame
    <2>19. One(r)
      BY <1>0, <2>16, <2>17 DEF One
    <2>20. Sending(r)
      BY <1>0, <1>2, <1>3, <2>16, <2>17 DEF Sending, Poised, Marked, SameIds
    <2>21. Stopping(r)
      BY <1>0, <1>2, <1>3, <2>7, <2>15, <2>16, <2>17 DEF Stopping, Poised, Marked, SameIds
    <2>22. Awaited(r)
      BY <2>7, <2>9, <2>10, <2>15, <2>17 DEF Awaited, Current
    <2>23. Asked(r, C)
      <3>1. ASSUME NEW k \in DOMAIN r.items, MayGo(r, k) PROVE r.items[k].id \in C
        <4>1. mq.items[k].id # m
          BY <1>2, <1>3, <2>16, <3>1 DEF MayGo, Marked
        <4>2. MayGo(mq, k) /\ r.items[k].id = mq.items[k].id
          BY <1>2, <1>3, <2>16, <3>1, <4>1 DEF MayGo, Marked, SameIds
        <4> QED
          BY <1>0, <1>3, <2>16, <4>2 DEF Asked
      <3> QED
        BY <1>0, <2>7, <2>15, <2>16, <2>17, <3>1 DEF Asked
    <2>24. Pumped(r)
      BY <2>7, <2>15 DEF Pumped
    <2> QED
      BY <2>14, <2>16, <2>18, <2>19, <2>20, <2>21, <2>22, <2>23, <2>24 DEF Object, Flow
  <1> QED
    BY <1>4, <1>5

(* remove of a message that is not being sent; the ledger v no longer owes *)
(* what has left the list.                                                 *)
LEMMA RemovedKeeps ==
    ASSUME NEW w, NEW v, NEW C, NEW m \in Messages, NEW ok \in BOOLEAN, Object(mq, w, C), Pumped(mq),
           m \in Ids(mq.items), ~Has(mq, m, "sending"),
           v.owner = w.owner, v.taken = w.taken, v.rows = w.rows,
           v.owed = w.owed \ (Ids(mq.items) \ Ids(Removed(m, ok).items))
    PROVE  Outcome(mq, Removed(m, ok), v, C \ {m})
  <1>0. Base(mq, w) /\ Flow(mq, C) /\ mq \in Queue /\ Dated(mq) /\ Distinct(mq.items)
    BY DEF Object, Base, Home
  <1>1. PICK r : r = Removed(m, ok)
    OBVIOUS
  <1>2. Base(mq, v)
    BY <1>0, LedgerMoves
  <1>3. \A d \in mq.dispatches : Current(mq, d) => d.id # m
    <2>1. PICK j \in DOMAIN mq.items : ItemOf(mq, m) = mq.items[j] /\ mq.items[j].id = m
      BY ItemOfFacts
    <2>2. mq.items[j].status # "sending"
      BY <2>1 DEF Has
    <2> QED
      BY <1>0, <2>1, <2>2 DEF Flow, Sending
  <1>4. \A d \in mq.dispatches : Current(mq, d) /\ d.at = "persist" => d.id \in C \ {m}
    BY <1>0, <1>3 DEF Flow, Asked
  <1>5. CASE ~Saves(mq, ok)
    <2>1. r = PauseThread(mq, ok)
      BY <1>1, <1>5 DEF Removed
    <2>2. Object(mq, v, C)
      BY <1>0, <1>2 DEF Object
    <2> QED
      BY <1>1, <1>4, <2>1, <2>2, PauseKeeps
  <1>6. CASE Saves(mq, ok)
    <2>1. PICK X : X = mq.freshSends \ {m}
      OBVIOUS
    <2>2. PICK x : x = [mq EXCEPT !.freshSends = X]
      OBVIOUS
    <2>3. /\ x \in Queue /\ SameContext(mq, x) /\ SameStore(mq, x) /\ SameCalls(mq, x)
          /\ x.items = mq.items /\ x.freshSends = X /\ x.paused = mq.paused
      <3>1. X \subseteq Messages
        BY <1>0, <2>1, FieldTypes
      <3> QED
        BY ONLY <1>0, <2>2, <3>1 DEF Queue, SameContext, SameStore, SameCalls
    <2>4. PICK d : d = Without(x, {m})
      OBVIOUS
    <2>5. /\ d \in Queue /\ SameContext(x, d) /\ SameStore(x, d) /\ SameCalls(x, d)
          /\ d.paused = x.paused /\ d.freshSends = x.freshSends
          /\ Ids(d.items) = Ids(x.items) \ {m} /\ Distinct(d.items)
          /\ \A n \in DOMAIN d.items : \E k \in DOMAIN x.items : d.items[n] = x.items[k]
      <3>1. PICK S : S = {m}
        OBVIOUS
      <3>2. x \in Queue /\ d = Without(x, S)
        BY <2>3, <2>4, <3>1
      <3>3. /\ d \in Queue /\ SameContext(x, d) /\ SameStore(x, d) /\ SameCalls(x, d)
            /\ d.paused = x.paused /\ d.freshSends = x.freshSends
            /\ Ids(d.items) = Ids(x.items) \ S /\ (Distinct(x.items) => Distinct(d.items))
            /\ \A n \in DOMAIN d.items : \E k \in DOMAIN x.items : d.items[n] = x.items[k]
        BY ONLY <3>2, WithoutFacts
      <3> QED
        BY <1>0, <2>3, <3>1, <3>3
    <2>6. /\ SameContext(mq, d) /\ SameStore(mq, d) /\ SameCalls(mq, d) /\ d.paused = mq.paused
          /\ d.freshSends \subseteq mq.freshSends /\ Ids(d.items) = Ids(mq.items) \ {m}
          /\ \A n \in DOMAIN d.items : \E k \in DOMAIN mq.items : d.items[n] = mq.items[k]
      BY <2>1, <2>3, <2>5 DEF SameContext, SameStore, SameCalls
    <2>7. PICK i : i = mq.interruption
      OBVIOUS
    <2>8. PICK j : j = [i EXCEPT !.id = None]
      OBVIOUS
    <2>9. PICK e : e = IF i # None /\ i.id = m THEN Hold([d EXCEPT !.interruption = j]) ELSE d
      OBVIOUS
    <2>10. r = Cleanup(Save(e, ok), {m})
      BY <1>1, <1>6, <2>1, <2>2, <2>4, <2>7, <2>8, <2>9 DEF Removed
    <2>11. i # None => /\ i \in Interruption /\ j \in Interruption /\ j.serial = i.serial
                       /\ j.ready = i.ready /\ j.id = None /\ j # None
      <3>1. i # None => i \in Interruption
        BY <1>0, <2>7, FieldTypes
      <3>2. i # None => j \in Interruption /\ j.serial = i.serial /\ j.ready = i.ready /\ j.id = None
        BY ONLY <2>8, <3>1 DEF Interruption
      <3> QED
        BY <3>1, <3>2, QueueAssumption DEF Interruption
    <2>12. PICK l : l = IF i # None /\ i.id = m THEN j ELSE i
      OBVIOUS
    <2>13. /\ e \in Queue /\ SameContext(mq, e) /\ SameStore(mq, e) /\ e.items = d.items
           /\ e.freshSends = d.freshSends /\ (mq.paused => e.paused)
           /\ e.dispatches = mq.dispatches /\ e.interrupts = mq.interrupts /\ e.serial = mq.serial
           /\ e.interruption = l
      <3>1. CASE i # None /\ i.id = m
        <4>1. PICK y : y = [d EXCEPT !.interruption = j]
          OBVIOUS
        <4>2. /\ y \in Queue /\ SameContext(d, y) /\ SameStore(d, y) /\ SameList(d, y)
              /\ y.dispatches = d.dispatches /\ y.interrupts = d.interrupts /\ y.serial = d.serial
              /\ y.interruption = j
          BY ONLY <2>5, <2>11, <3>1, <4>1 DEF Queue, SameContext, SameStore, SameList
        <4>3. /\ e \in Queue /\ SameContext(y, e) /\ SameStore(y, e) /\ SameCalls(y, e)
              /\ e.items = y.items /\ e.freshSends = y.freshSends /\ e.paused = TRUE
          BY <2>9, <3>1, <4>1, <4>2, HoldFacts
        <4> QED
          BY <2>6, <2>12, <3>1, <4>2, <4>3 DEF SameContext, SameStore, SameCalls, SameList
      <3>2. CASE ~(i # None /\ i.id = m)
        BY <2>5, <2>6, <2>7, <2>9, <2>12, <3>2 DEF SameCalls
      <3> QED
        BY <3>1, <3>2
    <2>14. \A c : Current(e, c) <=> Current(mq, c)
      BY <2>13 DEF Current, SameContext
    <2>15. Ids(r.items) = Ids(mq.items) \ {m}
      <3>1. Save(e, ok).items = e.items /\ Save(e, ok) \in Queue
        BY <2>13, SaveFacts DEF SameList
      <3>2. r.items = Save(e, ok).items
        BY <2>10, <3>1 DEF Cleanup, Queue
      <3> QED
        BY <2>6, <2>13, <3>1, <3>2
    <2>16. m \notin OwedTo(v, mq.account)
      BY <1>1, <2>15 DEF OwedTo
    <2>17. Base(e, v)
      <3>1. Dated(e)
        BY <1>0, <2>7, <2>11, <2>12, <2>13 DEF Dated, SameContext
      <3>2. Seen(e, v)
        BY <1>2, <2>13 DEF Base, Seen, SameContext
      <3>3. l # None => l.id \in Touched(mq) \cup {None}
        BY <1>0, <2>7, <2>11, <2>12, TouchedFacts
      <3>4. Touched(e) \subseteq Touched(mq)
        BY <1>0, <2>6, <2>13, <2>14, <3>3, TouchedBy, TouchedFacts DEF SameContext
      <3> QED
        BY <1>2, <2>5, <2>6, <2>13, <2>16, <3>1, <3>2, <3>4, BaseStays DEF SameContext
    <2>18. Flow(e, C \ {m})
      <3>1. \A n \in DOMAIN e.items : \E k \in DOMAIN mq.items :
                e.items[n] = mq.items[k] /\ mq.items[k].id # m
        BY <2>6, <2>13 DEF Ids
      <3>2. One(e)
        BY <1>0, <2>13, <2>14 DEF Flow, One
      <3>3. Sending(e)
        BY <1>0, <2>6, <2>13, <2>14, <3>1 DEF Flow, Sending
      <3>4. Stopping(e)
        <4>1. CASE i # None /\ i.id = m
          <5>1. \A n \in DOMAIN e.items : e.items[n].status # "stopping"
            BY <1>0, <2>7, <3>1, <4>1 DEF Flow, Stopping
          <5>2. \A n \in DOMAIN e.items : e.items[n].id # None
            BY <2>13, FieldTypes, ItemTypes, QueueAssumption
          <5>3. None \notin e.freshSends /\ \A c \in e.dispatches : c.id # None
            BY <2>13, FieldTypes, CallTypes, QueueAssumption
          <5> QED
            BY <2>11, <2>12, <2>13, <4>1, <5>1, <5>2, <5>3 DEF Stopping
        <4>2. CASE ~(i # None /\ i.id = m)
          BY <1>0, <2>6, <2>7, <2>12, <2>13, <2>14, <3>1, <4>2 DEF Flow, Stopping
        <4> QED
          BY <4>1, <4>2
      <3>5. Awaited(e)
        <4>1. l # None => i # None /\ l.serial = i.serial /\ l.ready = i.ready
          BY <2>11, <2>12
        <4> QED
          BY <1>0, <2>7, <2>13, <2>14, <4>1 DEF Flow, Awaited
      <3>6. Asked(e, C \ {m})
        <4>1. ASSUME NEW n \in DOMAIN e.items, MayGo(e, n) PROVE e.items[n].id \in C \ {m}
          <5>1. PICK k \in DOMAIN mq.items : e.items[n] = mq.items[k] /\ mq.items[k].id # m
            BY <3>1
          <5>2. MayGo(mq, k)
            BY <2>6, <2>13, <4>1, <5>1 DEF MayGo
          <5> QED
            BY <1>0, <5>1, <5>2 DEF Flow, Asked
        <4>2. l # None => l.id \in (C \ {m}) \cup {None}
          BY <1>0, <2>7, <2>11, <2>12 DEF Flow, Asked
        <4> QED
          BY <1>4, <2>13, <2>14, <4>1, <4>2 DEF Asked
      <3> QED
        BY <3>2, <3>3, <3>4, <3>5, <3>6 DEF Flow
    <2>19. Pumped(e)
      <3>1. CASE i # None /\ i.id = m
        <4>1. \A n \in DOMAIN e.items : e.items[n].id # m
          BY <2>6, <2>13 DEF Ids
        <4>2. \A n \in DOMAIN e.items : e.items[n].status # "stopping"
          BY <1>0, <2>6, <2>7, <2>13, <3>1, <4>1 DEF Flow, Stopping
        <4> QED
          BY <4>2 DEF Pumped
      <3>2. CASE ~(i # None /\ i.id = m)
        BY <2>6, <2>7, <2>12, <2>13, <2>14, <3>2 DEF Pumped, Idle, SameContext
      <3> QED
        BY <3>1, <3>2
    <2>20. Saves(e, ok) /\ {m} \cap Ids(e.items) = {}
      BY <1>6, <2>6, <2>13 DEF Saves, SameContext
    <2>21. Base(r, v) /\ SameContext(e, r) /\ SameCalls(e, r) /\ SameList(e, r) /\ Flow(r, C \ {m})
      BY <2>10, <2>17, <2>18, <2>20, ErasedKeeps
    <2>22. Pumped(r)
      BY <2>19, <2>21 DEF Pumped, Idle, Current, SameContext, SameCalls, SameList
    <2>23. SentAsked(mq, r, C \ {m})
      BY <2>13, <2>21 DEF SentAsked, SameCalls
    <2>24. r.generation = mq.generation /\ r.account = mq.account /\ r.serial = mq.serial
      BY <2>13, <2>21 DEF SameContext, SameCalls
    <2> QED
      BY <1>1, <2>21, <2>22, <2>23, <2>24, Stays DEF Object
  <1> QED
    BY <1>5, <1>6

(* forget drops the whole list. *)
LEMMA ForgottenKeeps ==
    ASSUME NEW w, NEW v, NEW C, NEW D, NEW ok \in BOOLEAN, Object(mq, w, C),
           v.owner = w.owner, v.taken = w.taken, v.rows = w.rows, v.owed = w.owed \ Ids(mq.items),
           \A d \in mq.dispatches : Current(mq, d) /\ d.at = "persist" => d.id \in D
    PROVE  LET r == Forgotten(ok) IN Outcome(mq, r, v, D) /\ r.generation = mq.generation
  <1>0. Base(mq, w) /\ Flow(mq, C) /\ mq \in Queue /\ Dated(mq) /\ Distinct(mq.items)
    BY DEF Object, Base, Home
  <1>1. Base(mq, v)
    BY <1>0, LedgerMoves
  <1>2. PICK S : S = Ids(mq.items)
    OBVIOUS
  <1>3. PICK x : x = Without(mq, S)
    OBVIOUS
  <1>4. S \cap OwedTo(v, mq.account) = {}
    BY <1>2 DEF OwedTo
  <1>5. Base(x, v) /\ SameContext(mq, x) /\ SameCalls(mq, x) /\ Ids(x.items) = {}
    BY <1>1, <1>2, <1>3, <1>4, WithoutKeeps
  <1>6. PICK d : d = [x EXCEPT !.freshSends = {}, !.paused = FALSE, !.interruption = None]
    OBVIOUS
  <1>7. x \in Queue /\ Dated(x) /\ DOMAIN x.items = {}
    BY <1>5 DEF Base, Ids
  <1>8. /\ d \in Queue /\ SameContext(x, d) /\ SameStore(x, d) /\ d.items = x.items
        /\ d.freshSends = {} /\ d.interruption = None /\ d.dispatches = x.dispatches
        /\ d.interrupts = x.interrupts /\ d.serial = x.serial
    BY ONLY <1>6, <1>7 DEF Queue, SameContext, SameStore
  <1>9. /\ SameContext(mq, d) /\ d.dispatches = mq.dispatches /\ d.serial = mq.serial
        /\ Ids(d.items) = {} /\ DOMAIN d.items = {}
    BY <1>5, <1>7, <1>8 DEF SameContext, SameCalls
  <1>10. \A c : Current(d, c) <=> Current(mq, c)
    BY <1>9 DEF Current, SameContext
  <1>11. Base(d, v)
    <2>1. Dated(d) /\ SameIds(x.items, d.items)
      BY <1>7, <1>8 DEF Dated, SameContext, SameIds
    <2>2. Touched(d) \subseteq Touched(x)
      BY <1>7, <1>8, TouchedBy, TouchedFacts DEF SameContext, Current
    <2> QED
      BY <1>5, <1>8, <2>1, <2>2, BaseSame
  <1>12. Flow(d, D)
    <2>1. One(d)
      BY <1>0, <1>9, <1>10 DEF Flow, One
    <2>2. Sending(d) /\ Stopping(d) /\ Awaited(d)
      BY <1>8, <1>9 DEF Sending, Stopping, Awaited
    <2>3. Asked(d, D)
      BY <1>8, <1>9, <1>10 DEF Asked
    <2> QED
      BY <2>1, <2>2, <2>3 DEF Flow
  <1>13. PICK r : r = IF Saves(d, ok) THEN Cleanup(Save(d, ok), S) ELSE d
    OBVIOUS
  <1>14. S \cap Ids(d.items) = {}
    BY <1>9
  <1>15. Base(r, v) /\ SameContext(d, r) /\ SameCalls(d, r) /\ SameList(d, r) /\ Flow(r, D)
    BY <1>11, <1>12, <1>13, <1>14, ErasedKeeps
  <1>16. Pumped(r) /\ SentAsked(mq, r, D)
    BY <1>9, <1>15 DEF Pumped, SentAsked, SameList, SameCalls
  <1>17. r.generation = mq.generation /\ r.account = mq.account /\ r.serial = mq.serial
    BY <1>9, <1>15 DEF SameContext, SameCalls
  <1>18. r = Forgotten(ok)
    BY <1>2, <1>3, <1>6, <1>13 DEF Forgotten
  <1>19. Outcome(mq, r, v, D)
    BY <1>15, <1>16, <1>17, Stays DEF Object
  <1> QED
    BY <1>17, <1>18, <1>19

-----------------------------------------------------------------------------
(* Reading the outbox back.                                                *)

LEMMA TailFacts ==
    ASSUME NEW s \in Seq(QueuedMessage), s # <<>>
    PROVE  /\ Head(s) \in QueuedMessage /\ Tail(s) \in Seq(QueuedMessage)
           /\ Ids(s) = {Head(s).id} \cup Ids(Tail(s))
           /\ Distinct(s) => Distinct(Tail(s)) /\ Head(s).id \notin Ids(Tail(s))
           /\ Plain(s) => Plain(Tail(s)) /\ Head(s).status = "queued"
  <1>1. /\ Len(s) \in Nat /\ Len(s) # 0 /\ DOMAIN s = 1..Len(s) /\ Head(s) = s[1] /\ 1 \in DOMAIN s
        /\ s[1] \in QueuedMessage
    OBVIOUS
  <1>2. PICK t : t = Tail(s)
    OBVIOUS
  <1>3. /\ t \in Seq(QueuedMessage) /\ DOMAIN t = 1..(Len(s) - 1)
        /\ \A i \in DOMAIN t : t[i] = s[i + 1]
    BY <1>2
  <1>4. \A i \in DOMAIN t : i + 1 \in DOMAIN s /\ i + 1 # 1
    BY <1>1, <1>3
  <1>5. \A i \in DOMAIN s : i = 1 \/ (i - 1 \in DOMAIN t /\ t[i - 1] = s[i])
    <2>1. ASSUME NEW i \in DOMAIN s, i # 1 PROVE i - 1 \in DOMAIN t /\ t[i - 1] = s[i]
      <3>1. i \in Nat /\ i - 1 \in DOMAIN t /\ (i - 1) + 1 = i
        BY <1>1, <1>3, <2>1
      <3> QED
        BY <1>3, <3>1
    <2> QED
      BY <2>1
  <1>6. Ids(s) = {s[1].id} \cup Ids(t)
    BY <1>1, <1>3, <1>4, <1>5 DEF Ids
  <1>7. ASSUME Distinct(s) PROVE Distinct(t) /\ s[1].id \notin Ids(t)
    <2>1. ASSUME NEW i \in DOMAIN t, NEW j \in DOMAIN t, t[i].id = t[j].id PROVE i = j
      <3>1. i + 1 = j + 1
        BY <1>3, <1>4, <1>7, <2>1 DEF Distinct
      <3> QED
        BY <1>1, <1>3, <3>1
    <2>2. ASSUME NEW i \in DOMAIN t, t[i].id = s[1].id PROVE FALSE
      BY <1>1, <1>3, <1>4, <1>7, <2>2 DEF Distinct
    <2> QED
      BY <2>1, <2>2 DEF Distinct, Ids
  <1>8. Plain(s) => Plain(t) /\ s[1].status = "queued"
    BY <1>1, <1>3, <1>4 DEF Plain
  <1> QED
    BY <1>1, <1>2, <1>3, <1>6, <1>7, <1>8

(* The item that Append adds is the only new one. *)
LEMMA AppendedFacts ==
    ASSUME NEW s \in Seq(QueuedMessage), NEW x \in QueuedMessage
    PROVE  LET z == Append(s, x) IN
           /\ z \in Seq(QueuedMessage) /\ Ids(z) = Ids(s) \cup {x.id}
           /\ Distinct(s) /\ x.id \notin Ids(s) => Distinct(z)
           /\ \A n \in DOMAIN z : z[n] = x \/ \E k \in DOMAIN s : z[n] = s[k]
  <1>1. PICK z : z = Append(s, x)
    OBVIOUS
  <1>2. PICK n : n = Len(s) + 1
    OBVIOUS
  <1>3. /\ z \in Seq(QueuedMessage) /\ DOMAIN z = DOMAIN s \cup {n} /\ n \notin DOMAIN s
        /\ \A i \in DOMAIN s : z[i] = s[i]
        /\ z[n] = x
    BY <1>1, <1>2, AppendFacts
  <1>4. Ids(z) = Ids(s) \cup {x.id}
    BY <1>3 DEF Ids
  <1>5. ASSUME Distinct(s), x.id \notin Ids(s) PROVE Distinct(z)
    BY <1>3, <1>5 DEF Distinct, Ids
  <1> QED
    BY <1>1, <1>3, <1>4, <1>5

(* A restore of another context ends. *)
LEMMA LateRestoreKeeps ==
    ASSUME NEW q, NEW w, NEW C, NEW c \in q.restores, Object(q, w, C), Pumped(q), ~Current(q, c)
    PROVE  LET r == [q EXCEPT !.restores = q.restores \ {c}] IN
           Outcome(q, r, w, C) /\ r.generation = q.generation
  <1>0. /\ Base(q, w) /\ Flow(q, C) /\ q \in Queue /\ Dated(q) /\ Seen(q, w) /\ Home(q, w) /\ Known(q, w)
        /\ Reading(q) /\ Durable(q, w)
    BY DEF Object, Base
  <1>1. PICK X : X = q.restores \ {c}
    OBVIOUS
  <1>2. X \subseteq [generation : Nat, account : Accounts, rest : Seq(QueuedMessage)]
    BY <1>0, <1>1, FieldTypes
  <1>3. PICK r : r = [q EXCEPT !.restores = X]
    OBVIOUS
  <1>4. /\ r \in Queue /\ r.account = q.account /\ r.runtime = q.runtime /\ r.generation = q.generation
        /\ r.state = q.state /\ r.loading = q.loading /\ r.restores = X /\ r.partial = q.partial
        /\ SameStore(q, r) /\ SameCalls(q, r) /\ SameList(q, r)
    BY ONLY <1>0, <1>2, <1>3 DEF Queue, SameStore, SameCalls, SameList
  <1>5. \A x : Current(r, x) <=> Current(q, x)
    BY <1>4 DEF Current
  <1>6. Touched(r) = Touched(q)
    BY <1>4, <1>5 DEF Touched, InFlight, SameCalls, SameList
  <1>7. Dated(r) /\ Seen(r, w) /\ Known(r, w)
    BY <1>0, <1>1, <1>4, <1>6 DEF Dated, Seen, Known, SameCalls
  <1>8. Home(r, w)
    BY <1>0, <1>1, <1>4 DEF Home, SameStore, SameList
  <1>9. Reading(r)
    BY <1>0, <1>1, <1>4, <1>5, <1>6 DEF Reading
  <1>10. Durable(r, w)
    BY <1>0, <1>1, <1>4, <1>5 DEF Durable, SameStore, SameList
  <1>11. Flow(r, C)
    BY <1>0, <1>4, FlowLess DEF SameCalls, SameList
  <1>12. Pumped(r)
    BY <1>1, <1>4, <1>5 DEF Pumped, Idle, SameCalls, SameList
  <1>13. SentAsked(q, r, C)
    BY <1>4 DEF SentAsked, SameCalls
  <1>14. Object(r, w, C)
    BY <1>4, <1>7, <1>8, <1>9, <1>10, <1>11 DEF Object, Base
  <1>15. Outcome(q, r, w, C)
    BY <1>4, <1>12, <1>13, <1>14, Stays DEF SameCalls
  <1> QED
    BY <1>1, <1>3, <1>4, <1>15

(* A message has been read back: it joins the list, which is held.  R are  *)
(* the restores still to come.                                             *)
LEMMA ReadBack ==
    ASSUME NEW q, NEW r \in Queue, NEW w, NEW C, NEW c \in q.restores, Object(q, w, C), Current(q, c),
           <<c.account, Head(c.rest).id>> \in q.payloads,
           r.account = q.account, r.runtime = q.runtime, r.generation = q.generation, r.state = q.state,
           SameStore(q, r), SameCalls(q, r), r.freshSends = q.freshSends, r.paused,
           r.items = Append(q.items, Head(c.rest)),
           \/ /\ Tail(c.rest) # <<>> /\ r.loading = q.loading /\ r.partial = q.partial
              /\ r.restores = (q.restores \ {c}) \cup {[c EXCEPT !.rest = Tail(c.rest)]}
           \/ /\ Tail(c.rest) = <<>> /\ ~r.loading /\ ~r.partial
              /\ r.restores = q.restores \ {c}
    PROVE  Object(r, w, C)
  <1>0. /\ Base(q, w) /\ Flow(q, C) /\ q \in Queue /\ Dated(q) /\ Seen(q, w) /\ Home(q, w) /\ Known(q, w)
        /\ Reading(q) /\ Durable(q, w)
    BY DEF Object, Base
  <1>1. PICK x : x = Head(c.rest)
    OBVIOUS
  <1>2. PICK t : t = Tail(c.rest)
    OBVIOUS
  <1>3. /\ c \in [generation : Nat, account : Accounts, rest : Seq(QueuedMessage)]
        /\ c.rest \in Seq(QueuedMessage) /\ c.rest # <<>> /\ q.loading /\ q.partial /\ q.account = c.account
        /\ Distinct(c.rest) /\ Ids(c.rest) \cap Touched(q) = {} /\ Plain(c.rest)
        /\ \A id \in Ids(c.rest) : Belongs(w, id, c.account)
    BY <1>0, FieldTypes, CallTypes DEF Reading, Home
  <1>4. /\ x \in QueuedMessage /\ t \in Seq(QueuedMessage) /\ Ids(c.rest) = {x.id} \cup Ids(t)
        /\ Distinct(t) /\ x.id \notin Ids(t) /\ Plain(t) /\ x.status = "queued"
    BY <1>1, <1>2, <1>3, TailFacts
  <1>5. Ids(q.items) \subseteq Touched(q) /\ q.freshSends \subseteq Touched(q) /\ x.id \notin Touched(q)
    BY <1>0, <1>3, <1>4, TouchedFacts
  <1>6. /\ Ids(r.items) = Ids(q.items) \cup {x.id} /\ Distinct(r.items)
        /\ \A n \in DOMAIN r.items : r.items[n] = x \/ \E k \in DOMAIN q.items : r.items[n] = q.items[k]
    <2>1. q.items \in Seq(QueuedMessage) /\ Distinct(q.items) /\ x.id \notin Ids(q.items)
      BY <1>0, <1>5, FieldTypes DEF Home
    <2> QED
      BY <1>1, <1>4, <2>1, AppendedFacts
  <1>7. \A y : Current(r, y) <=> Current(q, y)
    BY DEF Current
  <1>8. Touched(r) = Touched(q) \cup {x.id}
    BY <1>6, <1>7 DEF Touched, InFlight, SameCalls
  <1>9. Belongs(w, x.id, q.account) /\ <<q.account, x.id>> \in q.payloads
    BY <1>1, <1>3, <1>4
  <1>10. q.account \in Accounts /\ q.account # None
    BY <1>3, QueueAssumption
  <1>11. Seen(r, w)
    BY <1>0 DEF Seen
  <1>12. Known(r, w)
    BY <1>0, <1>8, <1>9 DEF Known, Belongs
  <1>13. \A y \in q.restores : Current(q, y) => y = c
    BY <1>0 DEF Reading
  <1>14. Base(r, w)
    <2>1. CASE /\ t # <<>> /\ r.loading = q.loading /\ r.partial = q.partial
               /\ r.restores = (q.restores \ {c}) \cup {[c EXCEPT !.rest = t]}
      <3>1. PICK e : e = [c EXCEPT !.rest = t]
        OBVIOUS
      <3>2. e.generation = c.generation /\ e.account = c.account /\ e.rest = t
        BY <1>3, <3>1
      <3>3. r.restores = (q.restores \ {c}) \cup {e} /\ Current(q, e)
        BY <2>1, <3>1, <3>2 DEF Current
      <3>4. Dated(r)
        BY <1>0, <3>2, <3>3 DEF Dated, SameCalls
      <3>5. Home(r, w)
        <4>1. \A y \in r.restores : Plain(y.rest) /\ \A id \in Ids(y.rest) : Belongs(w, id, y.account)
          BY <1>0, <1>3, <1>4, <3>2, <3>3 DEF Home
        <4> QED
          BY <1>0, <1>6, <1>9, <1>10, <4>1 DEF Home, SameStore
      <3>6. Reading(r)
        <4>1. e.rest # <<>> /\ Distinct(e.rest) /\ Ids(e.rest) \cap Touched(r) = {}
          BY <1>3, <1>4, <1>8, <2>1, <3>2
        <4>2. \A y \in r.restores : Current(r, y) => y = e
          BY <1>7, <1>13, <3>3
        <4>3. \A y \in r.restores : y.rest # <<>>
          BY <1>0, <3>3, <4>1 DEF Reading
        <4> QED
          BY <1>3, <1>7, <2>1, <3>2, <3>3, <4>1, <4>2, <4>3 DEF Reading
      <3>7. Durable(r, w)
        <4>1. \A y \in r.restores : Current(r, y) => y = e
          BY <1>7, <1>13, <3>3
        <4>2. ~q.clobbered => OwedTo(w, q.account) \subseteq Ids(q.items) \cup Ids(c.rest)
          BY <1>0 DEF Durable
        <4> QED
          BY <1>0, <1>3, <1>4, <1>6, <2>1, <3>2, <4>1, <4>2 DEF Durable, SameStore
      <3> QED
        BY <1>11, <1>12, <3>4, <3>5, <3>6, <3>7 DEF Base
    <2>2. CASE t = <<>> /\ ~r.loading /\ ~r.partial /\ r.restores = q.restores \ {c}
      <3>1. Ids(t) = {}
        BY <2>2 DEF Ids
      <3>2. Dated(r)
        BY <1>0, <2>2 DEF Dated, SameCalls
      <3>3. Home(r, w)
        BY <1>0, <1>6, <1>9, <1>10, <2>2 DEF Home, SameStore
      <3>4. \A y \in r.restores : ~Current(r, y)
        BY <1>7, <1>13, <2>2
      <3>5. Reading(r)
        BY <1>0, <2>2, <3>4 DEF Reading
      <3>6. Durable(r, w)
        <4>1. ~q.clobbered => OwedTo(w, q.account) \subseteq Ids(q.items) \cup Ids(c.rest)
          BY <1>0 DEF Durable
        <4> QED
          BY <1>0, <1>4, <1>6, <3>1, <3>4, <4>1 DEF Durable, SameStore
      <3> QED
        BY <1>11, <1>12, <3>2, <3>3, <3>5, <3>6 DEF Base
    <2> QED
      BY <1>2, <2>1, <2>2
  <1>15. One(r)
    BY <1>0, <1>7 DEF Flow, One, SameCalls
  <1>16. Sending(r)
    <2>1. \A d \in q.dispatches : Current(q, d) => d.id # x.id
      BY <1>0, <1>5, TouchedFacts
    <2> QED
      BY <1>0, <1>6, <1>7, <2>1 DEF Flow, Sending, SameCalls
  <1>17. Stopping(r)
    <2>1. q.interruption # None => q.interruption.id # x.id
      <3>1. x.id # None
        BY <1>4, QueueAssumption DEF QueuedMessage
      <3> QED
        BY <1>0, <1>5, <3>1, TouchedFacts
    <2>2. ASSUME NEW n \in DOMAIN r.items, r.items[n].status = "stopping"
          PROVE  q.interruption # None /\ q.interruption.id = r.items[n].id
      <3>1. PICK k \in DOMAIN q.items : r.items[n] = q.items[k]
        BY <1>4, <1>6, <2>2
      <3> QED
        BY <1>0, <2>2, <3>1 DEF Flow, Stopping
    <2>3. ASSUME NEW n \in DOMAIN r.items, q.interruption # None, r.items[n].id = q.interruption.id
          PROVE  r.items[n].status = "stopping" /\ ~r.items[n].preparing
      <3>1. PICK k \in DOMAIN q.items : r.items[n] = q.items[k]
        BY <1>6, <2>1, <2>3
      <3> QED
        BY <1>0, <2>3, <3>1 DEF Flow, Stopping
    <2> QED
      BY <1>0, <1>7, <2>2, <2>3 DEF Flow, Stopping, SameCalls
  <1>18. Awaited(r)
    BY <1>0, <1>7 DEF Flow, Awaited, SameCalls
  <1>19. Asked(r, C)
    <2>1. ASSUME NEW n \in DOMAIN r.items, MayGo(r, n) PROVE r.items[n].id \in C
      <3>1. r.items[n].id \in q.freshSends
        BY <2>1 DEF MayGo
      <3>2. r.items[n] # x
        BY <1>5, <3>1
      <3>3. PICK k \in DOMAIN q.items : r.items[n] = q.items[k]
        BY <1>6, <3>2
      <3>4. MayGo(q, k)
        BY <2>1, <3>1, <3>3 DEF MayGo
      <3> QED
        BY <1>0, <3>3, <3>4 DEF Flow, Asked
    <2> QED
      BY <1>0, <1>7, <2>1 DEF Flow, Asked, SameCalls
  <1> QED
    BY <1>14, <1>15, <1>16, <1>17, <1>18, <1>19 DEF Object, Flow

(* A payload of the outbox has been read. *)
LEMMA RestoredKeeps ==
    ASSUME NEW w, NEW C, NEW c \in mq.restores, NEW ok \in BOOLEAN, Object(mq, w, C), Pumped(mq), Honest(w),
           <<c.account, Head(c.rest).id>> \in mq.payloads
    PROVE  Outcome(mq, Restored(c, ok), w, C)
  <1>0. Base(mq, w) /\ Flow(mq, C) /\ mq \in Queue /\ Seen(mq, w) /\ Reading(mq)
    BY DEF Object, Base
  <1>1. CASE ~Current(mq, c)
    BY <1>1, LateRestoreKeeps DEF Restored
  <1>2. CASE Current(mq, c)
    <2>1. /\ c \in [generation : Nat, account : Accounts, rest : Seq(QueuedMessage)]
          /\ c.rest \in Seq(QueuedMessage) /\ c.rest # <<>>
      BY <1>0, FieldTypes, CallTypes DEF Reading
    <2>2. Head(c.rest) \in QueuedMessage /\ Tail(c.rest) \in Seq(QueuedMessage)
      BY <2>1, TailFacts
    <2>3. PICK z : z = Append(mq.items, Head(c.rest))
      OBVIOUS
    <2>4. PICK X : X = mq.restores \ {c}
      OBVIOUS
    <2>5. /\ z \in Seq(QueuedMessage)
          /\ X \subseteq [generation : Nat, account : Accounts, rest : Seq(QueuedMessage)]
      BY <1>0, <2>2, <2>3, <2>4, FieldTypes, AppendedFacts
    <2>6. PICK q : q = [mq EXCEPT !.items = z, !.paused = TRUE, !.restores = X]
      OBVIOUS
    <2>7. /\ q \in Queue /\ q.account = mq.account /\ q.runtime = mq.runtime
          /\ q.generation = mq.generation /\ q.state = mq.state /\ q.loading = mq.loading
          /\ q.partial = mq.partial /\ SameStore(mq, q) /\ SameCalls(mq, q)
          /\ q.freshSends = mq.freshSends /\ q.paused /\ q.items = z /\ q.restores = X
      BY ONLY <1>0, <2>5, <2>6 DEF Queue, SameStore, SameCalls
    <2>8. CASE Tail(c.rest) # <<>>
      <3>1. PICK e : e = [c EXCEPT !.rest = Tail(c.rest)]
        OBVIOUS
      <3>2. e \in [generation : Nat, account : Accounts, rest : Seq(QueuedMessage)] /\ Current(mq, e)
        <4>1. e \in [generation : Nat, account : Accounts, rest : Seq(QueuedMessage)]
              /\ e.generation = c.generation
          BY <2>1, <2>2, <3>1
        <4> QED
          BY <1>2, <4>1 DEF Current
      <3>3. PICK Y : Y = X \cup {e}
        OBVIOUS
      <3>4. Y \subseteq [generation : Nat, account : Accounts, rest : Seq(QueuedMessage)]
        BY <2>5, <3>2, <3>3
      <3>5. PICK r : r = [q EXCEPT !.restores = Y]
        OBVIOUS
      <3>6. /\ r \in Queue /\ r.account = q.account /\ r.runtime = q.runtime
            /\ r.generation = q.generation /\ r.state = q.state /\ r.loading = q.loading
            /\ r.partial = q.partial /\ SameStore(q, r) /\ SameCalls(q, r) /\ SameList(q, r)
            /\ r.restores = Y
        BY ONLY <2>7, <3>4, <3>5 DEF Queue, SameStore, SameCalls, SameList
      <3>7. r = Restored(c, ok)
        BY <1>2, <2>3, <2>4, <2>6, <2>7, <2>8, <3>1, <3>3, <3>5 DEF Restored
      <3>8. SameStore(mq, r) /\ SameCalls(mq, r)
        BY <2>7, <3>6 DEF SameStore, SameCalls
      <3>9. r.restores = (mq.restores \ {c}) \cup {[c EXCEPT !.rest = Tail(c.rest)]}
        BY <2>4, <3>1, <3>3, <3>6
      <3>10. Object(r, w, C)
        BY <1>2, <2>3, <2>7, <2>8, <3>6, <3>8, <3>9, ReadBack DEF SameList
      <3>11. Pumped(r)
        <4>1. e \in r.restores /\ Current(r, e)
          BY <2>7, <3>2, <3>3, <3>6 DEF Current
        <4> QED
          BY <4>1 DEF Pumped
      <3>12. SentAsked(mq, r, C)
        BY <3>8 DEF SentAsked, SameCalls
      <3> QED
        BY <2>7, <3>6, <3>7, <3>8, <3>10, <3>11, <3>12, Stays DEF SameCalls
    <2>9. CASE Tail(c.rest) = <<>>
      <3>1. PICK r : r = [q EXCEPT !.loading = FALSE, !.partial = FALSE]
        OBVIOUS
      <3>2. /\ r \in Queue /\ r.account = q.account /\ r.runtime = q.runtime
            /\ r.generation = q.generation /\ r.state = q.state /\ ~r.loading /\ ~r.partial
            /\ SameStore(q, r) /\ SameCalls(q, r) /\ SameList(q, r) /\ r.restores = X
        BY ONLY <2>7, <3>1 DEF Queue, SameStore, SameCalls, SameList
      <3>3. SameStore(mq, r) /\ SameCalls(mq, r)
        BY <2>7, <3>2 DEF SameStore, SameCalls
      <3>4. Object(r, w, C)
        BY <1>2, <2>3, <2>4, <2>7, <2>9, <3>2, <3>3, ReadBack DEF SameList
      <3>5. Restored(c, ok) = Sync(r, mq.state, ok)
        BY <1>2, <2>3, <2>4, <2>6, <2>9, <3>1 DEF Restored
      <3>6. mq.state \in ClientState /\ mq.state.rows \subseteq w.rows
        BY <1>0, FieldTypes DEF Seen
      <3>7. Outcome(r, Restored(c, ok), w, C)
        BY <3>4, <3>5, <3>6, SyncKeeps
      <3> QED
        BY <2>7, <3>2, <3>3, <3>7 DEF Outcome, Standing, SentAsked, Onward, SameCalls
    <2> QED
      BY <2>8, <2>9
  <1> QED
    BY <1>1, <1>2

(* It cannot be read: the object forgets the list, storage keeps it. *)
LEMMA RestoreFailedKeeps ==
    ASSUME NEW w, NEW C, NEW c \in mq.restores, Object(mq, w, C), Pumped(mq), Honest(w)
    PROVE  Outcome(mq, RestoreFailed(c), w, C) /\ RestoreFailed(c).generation = mq.generation
  <1>0. /\ Base(mq, w) /\ Flow(mq, C) /\ mq \in Queue /\ Dated(mq) /\ Seen(mq, w) /\ Home(mq, w)
        /\ Known(mq, w) /\ Reading(mq) /\ Durable(mq, w)
    BY DEF Object, Base
  <1>1. PICK X : X = mq.restores \ {c}
    OBVIOUS
  <1>2. X \subseteq [generation : Nat, account : Accounts, rest : Seq(QueuedMessage)]
    BY <1>0, <1>1, FieldTypes
  <1>3. CASE ~Current(mq, c)
    <2>1. RestoreFailed(c) = [mq EXCEPT !.restores = mq.restores \ {c}]
      BY <1>3 DEF RestoreFailed
    <2> QED
      BY <1>3, <2>1, LateRestoreKeeps
  <1>4. CASE Current(mq, c)
    <2>1. PICK r : r = [mq EXCEPT !.restores = X, !.items = <<>>, !.loading = FALSE]
      OBVIOUS
    <2>2. /\ r \in Queue /\ r.account = mq.account /\ r.runtime = mq.runtime
          /\ r.generation = mq.generation /\ r.state = mq.state /\ ~r.loading
          /\ r.partial = mq.partial /\ SameStore(mq, r) /\ SameCalls(mq, r)
          /\ r.freshSends = mq.freshSends /\ r.paused = mq.paused /\ r.items = <<>> /\ r.restores = X
      <3>1. <<>> \in Seq(QueuedMessage)
        OBVIOUS
      <3> QED
        BY ONLY <1>0, <1>2, <2>1, <3>1 DEF Queue, SameStore, SameCalls
    <2>3. \A y : Current(r, y) <=> Current(mq, y)
      BY <2>2 DEF Current
    <2>4. Ids(r.items) = {} /\ DOMAIN r.items = {}
      BY <2>2 DEF Ids
    <2>5. \A y \in r.restores : ~Current(r, y)
      BY <1>0, <1>1, <1>4, <2>2, <2>3 DEF Reading
    <2>6. Touched(r) \subseteq Touched(mq)
      BY <1>0, <2>2, <2>3, <2>4, TouchedBy, TouchedFacts DEF SameCalls
    <2>7. Dated(r) /\ Seen(r, w) /\ Known(r, w)
      BY <1>0, <1>1, <2>2, <2>6 DEF Dated, Seen, Known, SameCalls
    <2>8. Home(r, w)
      BY <1>0, <1>1, <2>2, <2>4 DEF Home, SameStore, Distinct
    <2>9. Reading(r)
      BY <1>0, <1>1, <2>2, <2>5 DEF Reading
    <2>10. mq.partial
      BY <1>0, <1>4 DEF Reading
    <2>11. Durable(r, w)
      BY <1>0, <2>2, <2>5, <2>10 DEF Durable, SameStore
    <2>12. Flow(r, C)
      BY <1>0, <2>2, <2>4, FlowLess DEF SameCalls
    <2>13. Object(r, w, C)
      BY <2>2, <2>7, <2>8, <2>9, <2>11, <2>12 DEF Object, Base
    <2>14. mq.state \in ClientState /\ mq.state.rows \subseteq w.rows /\ ~ContextChanged(r, mq.state)
      BY <1>0, <2>2, FieldTypes DEF Seen, ContextChanged
    <2>15. RestoreFailed(c) = Sync(r, mq.state, TRUE)
      <3>1. PICK q : q = [mq EXCEPT !.restores = X]
        OBVIOUS
      <3>2. RestoreFailed(c) = Sync([q EXCEPT !.items = <<>>, !.loading = FALSE], mq.state, TRUE)
        BY <1>1, <1>4, <3>1 DEF RestoreFailed
      <3>3. r = [q EXCEPT !.items = <<>>, !.loading = FALSE]
        BY <2>1, <3>1
      <3> QED
        BY <3>2, <3>3
    <2>16. Outcome(r, RestoreFailed(c), w, C) /\ RestoreFailed(c).generation = r.generation
      BY <2>13, <2>14, <2>15, SyncKeeps
    <2> QED
      BY <2>2, <2>16 DEF Outcome, Standing, SentAsked, Onward, SameCalls
  <1> QED
    BY <1>3, <1>4

-----------------------------------------------------------------------------
(* Submitting a message.                                                   *)

(* reserve lists and saves the message, and from then on owes it. *)
LEMMA ReservedKeeps ==
    ASSUME NEW w, NEW v, NEW C, NEW m \in Messages, Object(mq, w, C), Pumped(mq), ~mq.loading,
           m \notin w.taken, mq.account \in Accounts, w.owner[m] = mq.account,
           v.owner = w.owner, v.taken = w.taken \cup {m}, v.rows = w.rows, v.owed \subseteq w.owed \cup {m}
    PROVE  Outcome(mq, Reserved(m), v, C) /\ Reserved(m).generation = mq.generation
  <1>0. /\ Base(mq, w) /\ Flow(mq, C) /\ mq \in Queue /\ Dated(mq) /\ Seen(mq, w) /\ Home(mq, w)
        /\ Known(mq, w) /\ Reading(mq) /\ Durable(mq, w)
    BY DEF Object, Base
  <1>1. PICK i : i = [id |-> m, revision |-> mq.state.revision, preparing |-> TRUE, status |-> "sending"]
    OBVIOUS
  <1>2. i \in QueuedMessage /\ i.id = m /\ i.preparing = TRUE /\ i.status = "sending"
    <2>1. mq.state.revision \in 0..MaxTrouble
      BY <1>0, FieldTypes DEF ClientState
    <2> QED
      BY ONLY <1>1, <2>1, m \in Messages DEF QueuedMessage
  <1>3. PICK z : z = Append(mq.items, i)
    OBVIOUS
  <1>4. PICK P : P = mq.payloads \cup {<<mq.account, m>>}
    OBVIOUS
  <1>5. m \notin Touched(mq)
    BY <1>0 DEF Known
  <1>6. Ids(mq.items) \subseteq Touched(mq) /\ m \notin Ids(mq.items)
    BY <1>0, <1>5, TouchedFacts
  <1>7. /\ z \in Seq(QueuedMessage) /\ Ids(z) = Ids(mq.items) \cup {m} /\ Distinct(z)
        /\ \A n \in DOMAIN z : z[n] = i \/ \E k \in DOMAIN mq.items : z[n] = mq.items[k]
    <2>1. mq.items \in Seq(QueuedMessage) /\ Distinct(mq.items)
      BY <1>0, FieldTypes DEF Home
    <2> QED
      BY <1>2, <1>3, <1>6, <2>1, AppendedFacts
  <1>8. P \subseteq Accounts \X Messages /\ mq.payloads \subseteq P /\ <<mq.account, m>> \in P
    BY <1>0, <1>4, FieldTypes
  <1>9. PICK x : x = [mq EXCEPT !.items = z, !.payloads = P]
    OBVIOUS
  <1>10. /\ x \in Queue /\ SameContext(mq, x) /\ SameCalls(mq, x) /\ x.saved = mq.saved
         /\ x.clobbered = mq.clobbered /\ x.payloads = P /\ x.items = z /\ x.paused = mq.paused
         /\ x.freshSends = mq.freshSends
    BY ONLY <1>0, <1>7, <1>8, <1>9 DEF Queue, SameContext, SameCalls
  <1>11. PICK r : r = Save(x, TRUE)
    OBVIOUS
  <1>12. Saves(x, TRUE)
    BY <1>10, QueueAssumption DEF Saves, SameContext
  <1>13. /\ r \in Queue /\ SameContext(x, r) /\ SameCalls(x, r) /\ SameList(x, r)
         /\ r.payloads = P /\ SameIds(x.items, r.saved[x.account]) /\ Plain(r.saved[x.account])
         /\ \A a \in Accounts : a # x.account => r.saved[a] = x.saved[a]
         /\ ~r.clobbered => ~x.clobbered /\ ~x.partial
    BY <1>10, <1>11, <1>12, SaveFacts
  <1>14. /\ SameContext(mq, r) /\ SameCalls(mq, r) /\ r.items = z /\ r.paused = mq.paused
         /\ r.freshSends = mq.freshSends /\ Ids(r.saved[mq.account]) = Ids(z)
         /\ Distinct(r.saved[mq.account]) /\ Plain(r.saved[mq.account])
         /\ \A a \in Accounts : a # mq.account => r.saved[a] = mq.saved[a]
         /\ ~r.clobbered => ~mq.clobbered /\ ~mq.partial
    BY <1>7, <1>10, <1>13, SameIdsFacts DEF SameContext, SameCalls, SameList
  <1>15. \A c : Current(r, c) <=> Current(mq, c)
    BY <1>14 DEF Current, SameContext
  <1>16. Touched(r) = Touched(mq) \cup {m}
    BY <1>7, <1>14, <1>15 DEF Touched, InFlight, SameCalls
  <1>17. \A c \in mq.restores : ~Current(mq, c)
    BY <1>0 DEF Reading
  <1>18. Dated(r) /\ Seen(r, v) /\ Known(r, v)
    BY <1>0, <1>14, <1>16 DEF Dated, Seen, Known, SameContext, SameCalls
  <1>19. Home(r, v)
    <2>1. \A id, a : Belongs(w, id, a) => Belongs(v, id, a)
      BY DEF Belongs
    <2>2. Belongs(v, m, mq.account)
      BY DEF Belongs
    <2>3. \A id \in Ids(z) : Belongs(v, id, mq.account) /\ <<mq.account, id>> \in P
      BY <1>0, <1>7, <1>8, <2>1, <2>2 DEF Home
    <2>4. ASSUME NEW a \in Accounts
          PROVE  /\ Distinct(r.saved[a]) /\ Plain(r.saved[a])
                 /\ \A id \in Ids(r.saved[a]) : Belongs(v, id, a) /\ <<a, id>> \in P
      <3>1. CASE a = mq.account
        BY <1>14, <2>3, <3>1
      <3>2. CASE a # mq.account
        BY <1>0, <1>8, <1>14, <2>1, <3>2 DEF Home
      <3> QED
        BY <3>1, <3>2
    <2>5. \A c \in r.restores : Plain(c.rest) /\ \A id \in Ids(c.rest) : Belongs(v, id, c.account)
      BY <1>0, <1>14, <2>1 DEF Home, SameContext
    <2> QED
      BY <1>7, <1>13, <1>14, <2>3, <2>4, <2>5, QueueAssumption DEF Home, SameContext
  <1>20. Reading(r)
    BY <1>0, <1>14, <1>15, <1>17 DEF Reading, SameContext
  <1>21. Durable(r, v)
    <2>1. SUFFICES ASSUME ~r.clobbered
          PROVE  /\ \A a \in Accounts : OwedTo(v, a) \subseteq Ids(r.saved[a])
                 /\ OwedTo(v, r.account) \subseteq Ids(r.items)
      BY <1>14, <1>15, <1>17 DEF Durable, SameContext
    <2>2. ~mq.clobbered /\ ~mq.partial /\ mq.account # None
      BY <1>14, <2>1, QueueAssumption
    <2>3. OwedTo(v, mq.account) \subseteq Ids(z)
      BY <1>0, <1>7, <2>2 DEF Durable, OwedTo
    <2>4. ASSUME NEW a \in Accounts PROVE OwedTo(v, a) \subseteq Ids(r.saved[a])
      <3>1. CASE a = mq.account
        BY <1>14, <2>3, <3>1
      <3>2. CASE a # mq.account
        <4>1. OwedTo(v, a) \subseteq OwedTo(w, a)
          BY <3>2 DEF OwedTo
        <4> QED
          BY <1>0, <1>14, <2>2, <3>2, <4>1 DEF Durable
      <3> QED
        BY <3>1, <3>2
    <2> QED
      BY <1>14, <2>3, <2>4 DEF SameContext
  <1>22. One(r)
    BY <1>0, <1>14, <1>15 DEF Flow, One, SameCalls
  <1>23. Sending(r)
    <2>1. \A d \in mq.dispatches : Current(mq, d) => d.id # m
      BY <1>0, <1>5, TouchedFacts
    <2> QED
      BY <1>0, <1>2, <1>7, <1>14, <1>15, <2>1 DEF Flow, Sending, SameCalls
  <1>24. Stopping(r)
    <2>1. mq.interruption # None => mq.interruption.id # m
      BY <1>0, <1>5, TouchedFacts, QueueAssumption
    <2>2. ASSUME NEW n \in DOMAIN z, z[n].status = "stopping"
          PROVE  mq.interruption # None /\ mq.interruption.id = z[n].id
      <3>1. PICK k \in DOMAIN mq.items : z[n] = mq.items[k]
        BY <1>2, <1>7, <2>2
      <3> QED
        BY <1>0, <2>2, <3>1 DEF Flow, Stopping
    <2>3. ASSUME NEW n \in DOMAIN z, mq.interruption # None, z[n].id = mq.interruption.id
          PROVE  z[n].status = "stopping" /\ ~z[n].preparing
      <3>1. PICK k \in DOMAIN mq.items : z[n] = mq.items[k]
        BY <1>2, <1>7, <2>1, <2>3
      <3> QED
        BY <1>0, <2>3, <3>1 DEF Flow, Stopping
    <2> QED
      BY <1>0, <1>14, <1>15, <2>2, <2>3 DEF Flow, Stopping, SameCalls
  <1>25. Awaited(r)
    BY <1>0, <1>14, <1>15 DEF Flow, Awaited, SameCalls
  <1>26. Asked(r, C)
    <2>1. ASSUME NEW n \in DOMAIN z, MayGo(r, n) PROVE z[n].id \in C
      <3>1. z[n] # i
        BY <1>2, <1>14, <2>1 DEF MayGo
      <3>2. PICK k \in DOMAIN mq.items : z[n] = mq.items[k]
        BY <1>7, <3>1
      <3>3. MayGo(mq, k)
        BY <1>14, <2>1, <3>2 DEF MayGo
      <3> QED
        BY <1>0, <3>2, <3>3 DEF Flow, Asked
    <2> QED
      BY <1>0, <1>14, <1>15, <2>1 DEF Flow, Asked, SameCalls
  <1>27. Pumped(r)
    <2>1. Idle(r) <=> Idle(mq)
      BY <1>14, <1>15 DEF Idle, SameContext, SameCalls
    <2>2. \A n \in DOMAIN z : z[n].status = "stopping" => \E k \in DOMAIN mq.items : mq.items[k].status = "stopping"
      BY <1>2, <1>7
    <2> QED
      BY <1>14, <1>15, <2>1, <2>2 DEF Pumped, SameContext, SameCalls
  <1>28. Object(r, v, C)
    BY <1>13, <1>18, <1>19, <1>20, <1>21, <1>22, <1>23, <1>24, <1>25, <1>26 DEF Object, Base, Flow
  <1>29. SentAsked(mq, r, C)
    BY <1>14 DEF SentAsked, SameCalls
  <1>30. r = Reserved(m)
    BY <1>1, <1>3, <1>4, <1>9, <1>11 DEF Reserved
  <1>31. r.generation = mq.generation /\ r.account = mq.account /\ r.serial = mq.serial
    BY <1>14 DEF SameContext, SameCalls
  <1>32. Outcome(mq, r, v, C)
    BY <1>27, <1>28, <1>29, <1>31, Stays
  <1> QED
    BY <1>30, <1>31, <1>32

(* A reservation that is active is not being sent, nor to be sent now. *)
LEMMA ActiveFacts ==
    ASSUME NEW w, NEW C, NEW m \in Messages, Object(mq, w, C), Active(m)
    PROVE  /\ ItemOf(mq, m) \in QueuedMessage /\ ItemOf(mq, m).id = m /\ m \in Ids(mq.items)
           /\ \A k \in DOMAIN mq.items : mq.items[k].id = m => mq.items[k] = ItemOf(mq, m)
           /\ ItemOf(mq, m).preparing
           /\ \A d \in mq.dispatches : Current(mq, d) => d.id # m
           /\ mq.interruption # None => mq.interruption.id # m
  <1>0. Flow(mq, C) /\ mq \in Queue /\ Distinct(mq.items)
    BY DEF Object, Base, Home
  <1>1. m \in Ids(mq.items) /\ ItemOf(mq, m).preparing
    BY DEF Active, Has
  <1>2. PICK j \in DOMAIN mq.items : ItemOf(mq, m) = mq.items[j] /\ mq.items[j].id = m
    BY <1>1, ItemOfFacts
  <1>3. mq.items[j] \in QueuedMessage /\ mq.items[j].preparing
    BY <1>0, <1>1, <1>2, FieldTypes, ItemTypes
  <1>4. \A k \in DOMAIN mq.items : mq.items[k].id = m => k = j
    BY <1>0, <1>2 DEF Distinct
  <1>5. \A d \in mq.dispatches : Current(mq, d) => d.id # m
    BY <1>0, <1>2, <1>3 DEF Flow, Sending
  <1>6. mq.interruption # None => mq.interruption.id # m
    BY <1>0, <1>2, <1>3 DEF Flow, Stopping
  <1> QED
    BY <1>1, <1>2, <1>3, <1>4, <1>5, <1>6

(* failPreparation *)
LEMMA PreparationFailsKeeps ==
    ASSUME NEW w, NEW C, NEW m \in Messages, NEW ok \in BOOLEAN, Object(mq, w, C), Pumped(mq), Active(m)
    PROVE  Outcome(mq, Save(WithStatus(mq, m, "queued"), ok), w, C)
  <1>0. Base(mq, w) /\ Flow(mq, C) /\ mq \in Queue /\ Dated(mq) /\ Distinct(mq.items)
    BY DEF Object, Base, Home
  <1>1. PICK e : e = WithStatus(mq, m, "queued")
    OBVIOUS
  <1>2. Restated(mq, e, m, "queued")
    BY <1>0, <1>1, WithStatusFacts DEF Statuses
  <1>3. /\ e \in Queue /\ SameContext(mq, e) /\ SameStore(mq, e) /\ SameCalls(mq, e)
        /\ e.paused = mq.paused /\ e.freshSends = mq.freshSends
        /\ Marked(mq.items, e.items, m, "queued")
    BY <1>2 DEF Restated
  <1>4. SameIds(mq.items, e.items) /\ DOMAIN e.items = DOMAIN mq.items /\ Ids(e.items) = Ids(mq.items)
    BY <1>3, SameIdsFacts DEF Marked, SameIds
  <1>5. \A c : Current(e, c) <=> Current(mq, c)
    BY <1>3 DEF Current, SameContext
  <1>6. /\ \A k \in DOMAIN mq.items : mq.items[k].id = m => mq.items[k].preparing
        /\ \A d \in mq.dispatches : Current(mq, d) => d.id # m
        /\ mq.interruption # None => mq.interruption.id # m
    BY ActiveFacts
  <1>7. Base(e, w)
    <2>1. Dated(e)
      BY <1>0, <1>3 DEF Dated, SameContext, SameCalls
    <2>2. Touched(e) \subseteq Touched(mq)
      BY <1>0, <1>3, <1>4, <1>5, TouchedBy, TouchedFacts DEF SameCalls, SameContext
    <2> QED
      BY <1>0, <1>3, <1>4, <2>1, <2>2, BaseSame
  <1>8. One(e)
    BY <1>0, <1>3, <1>5 DEF Flow, One, SameCalls
  <1>9. Sending(e)
    BY <1>0, <1>3, <1>4, <1>5, <1>6 DEF Flow, Sending, SameCalls, Marked, SameIds
  <1>10. Stopping(e)
    BY <1>0, <1>3, <1>4, <1>5, <1>6 DEF Flow, Stopping, SameCalls, Marked, SameIds
  <1>11. Awaited(e)
    BY <1>0, <1>3, <1>5 DEF Flow, Awaited, SameCalls
  <1>12. Asked(e, C)
    <2>1. ASSUME NEW k \in DOMAIN e.items, MayGo(e, k) PROVE e.items[k].id \in C
      <3>1. mq.items[k].id # m
        BY <1>3, <1>4, <1>6, <2>1 DEF MayGo, Marked
      <3>2. MayGo(mq, k) /\ e.items[k].id = mq.items[k].id
        BY <1>3, <1>4, <2>1, <3>1 DEF MayGo, Marked, SameIds
      <3> QED
        BY <1>0, <1>4, <3>2 DEF Flow, Asked
    <2> QED
      BY <1>0, <1>3, <1>5, <2>1 DEF Flow, Asked, SameCalls
  <1>13. Pumped(e)
    <2>1. Idle(e) <=> Idle(mq)
      BY <1>3, <1>5 DEF Idle, SameContext, SameCalls
    <2>2. \A k \in DOMAIN e.items : e.items[k].status = "stopping" => mq.items[k].status = "stopping"
      BY <1>3, <1>4 DEF Marked
    <2> QED
      BY <1>3, <1>4, <1>5, <2>1, <2>2 DEF Pumped, SameContext, SameCalls
  <1>14. PICK r : r = Save(e, ok)
    OBVIOUS
  <1>15. Base(r, w) /\ SameContext(e, r) /\ SameCalls(e, r) /\ SameList(e, r) /\ Flow(r, C)
    BY <1>7, <1>8, <1>9, <1>10, <1>11, <1>12, <1>14, SaveKeeps DEF Flow
  <1>16. Pumped(r)
    BY <1>13, <1>15 DEF Pumped, Idle, Current, SameContext, SameCalls, SameList
  <1>17. SentAsked(mq, r, C)
    BY <1>3, <1>15 DEF SentAsked, SameCalls
  <1>18. r.generation = mq.generation /\ r.account = mq.account /\ r.serial = mq.serial
    BY <1>3, <1>15 DEF SameContext, SameCalls
  <1> QED
    BY <1>1, <1>14, <1>15, <1>16, <1>17, <1>18, Stays DEF Object

(* bindPreparation *)
LEMMA BindKeeps ==
    ASSUME NEW w, NEW C, NEW ok \in BOOLEAN, Object(mq, w, C), Pumped(mq)
    PROVE  Outcome(mq, Save(mq, ok), w, C)
  <1>1. PICK r : r = Save(mq, ok)
    OBVIOUS
  <1>2. Base(r, w) /\ SameContext(mq, r) /\ SameCalls(mq, r) /\ SameList(mq, r) /\ Flow(r, C)
    BY <1>1, SaveKeeps DEF Object
  <1>3. Pumped(r)
    BY <1>2 DEF Pumped, Idle, Current, SameContext, SameCalls, SameList
  <1>4. SentAsked(mq, r, C)
    BY <1>2 DEF SentAsked, SameCalls
  <1>5. r.generation = mq.generation /\ r.account = mq.account /\ r.serial = mq.serial
    BY <1>2 DEF SameContext, SameCalls
  <1> QED
    BY <1>1, <1>2, <1>3, <1>4, <1>5, Stays DEF Object

(* ready *)
Prepared(m) == [ItemOf(mq, m) EXCEPT !.preparing = FALSE, !.status = "queued", !.revision = mq.state.revision]
Freshened(p, m) == [p EXCEPT !.freshSends = IF mq.paused THEN @ \cup {m} ELSE @]

LEMMA ReadyKeeps ==
    ASSUME NEW w, NEW C, NEW m \in Messages, Object(mq, w, C), Active(m), NEW i, NEW p, NEW x,
           i = Prepared(m), p = Save(Put(mq, i), TRUE), x = Freshened(p, m)
    PROVE  LET r == Pump(x, TRUE) IN
           Outcome(mq, r, w, C \cup {m}) /\ r.generation = mq.generation
  <1>0. Base(mq, w) /\ Flow(mq, C) /\ mq \in Queue /\ Dated(mq) /\ Distinct(mq.items)
    BY DEF Object, Base, Home
  <1>1. /\ ItemOf(mq, m) \in QueuedMessage /\ ItemOf(mq, m).id = m /\ m \in Ids(mq.items)
        /\ \A d \in mq.dispatches : Current(mq, d) => d.id # m
        /\ mq.interruption # None => mq.interruption.id # m
    BY ActiveFacts
  <1>2. i \in QueuedMessage /\ i.id = m /\ i.preparing = FALSE /\ i.status = "queued"
    <2>1. PICK o : o = ItemOf(mq, m)
      OBVIOUS
    <2>2. PICK n : n = mq.state.revision
      OBVIOUS
    <2>3. n \in 0..MaxTrouble
      BY <1>0, <2>2, FieldTypes DEF ClientState
    <2>4. o \in QueuedMessage /\ o.id = m
      BY <1>1, <2>1
    <2>5. i = [o EXCEPT !.preparing = FALSE, !.status = "queued", !.revision = n]
      BY <2>1, <2>2 DEF Prepared
    <2> QED
      BY ONLY <2>3, <2>4, <2>5 DEF QueuedMessage
  <1>3. PICK e : e = Put(mq, i)
    OBVIOUS
  <1>4. /\ e \in Queue /\ SameContext(mq, e) /\ SameStore(mq, e) /\ SameCalls(mq, e)
        /\ e.paused = mq.paused /\ e.freshSends = mq.freshSends /\ SameIds(mq.items, e.items)
        /\ \A k \in DOMAIN mq.items : e.items[k] = IF mq.items[k].id = m THEN i ELSE mq.items[k]
    <2>1. /\ e \in Queue /\ SameContext(mq, e) /\ SameStore(mq, e) /\ SameCalls(mq, e)
          /\ e.paused = mq.paused /\ e.freshSends = mq.freshSends /\ SameIds(mq.items, e.items)
          /\ \A k \in DOMAIN mq.items : e.items[k] = IF mq.items[k].id = i.id THEN i ELSE mq.items[k]
      BY ONLY <1>0, <1>2, <1>3, PutFacts
    <2> QED
      BY ONLY <1>2, <2>1
  <1>5. DOMAIN e.items = DOMAIN mq.items /\ Ids(e.items) = Ids(mq.items)
    BY <1>4, SameIdsFacts DEF SameIds
  <1>6. Base(e, w)
    <2>1. Dated(e)
      BY <1>0, <1>4 DEF Dated, SameContext, SameCalls
    <2>2. Touched(e) \subseteq Touched(mq)
      BY <1>0, <1>4, <1>5, TouchedBy, TouchedFacts DEF SameCalls, SameContext, Current
    <2> QED
      BY <1>0, <1>4, <2>1, <2>2, BaseSame
  <1>7. Base(p, w) /\ SameContext(e, p) /\ SameCalls(e, p) /\ SameList(e, p) /\ p \in Queue
    BY <1>3, <1>6, SaveKeeps DEF Base
  <1>8. PICK F : F = IF mq.paused THEN p.freshSends \cup {m} ELSE p.freshSends
    OBVIOUS
  <1>9. F \subseteq Messages /\ F \subseteq mq.freshSends \cup {m} /\ mq.freshSends \subseteq F
        /\ (mq.paused => m \in F)
    BY <1>4, <1>7, <1>8, FieldTypes DEF SameList
  <1>10. x = [p EXCEPT !.freshSends = F]
    BY <1>8 DEF Freshened
  <1>11. /\ x \in Queue /\ SameContext(p, x) /\ SameStore(p, x) /\ SameCalls(p, x)
         /\ x.items = p.items /\ x.paused = p.paused /\ x.freshSends = F
    BY ONLY <1>7, <1>9, <1>10 DEF Queue, SameContext, SameStore, SameCalls
  <1>12. /\ SameContext(mq, x) /\ SameCalls(mq, x) /\ x.items = e.items /\ x.paused = mq.paused
    BY <1>4, <1>7, <1>11 DEF SameContext, SameCalls, SameList
  <1>13. \A c : Current(x, c) <=> Current(mq, c)
    BY <1>12 DEF Current, SameContext
  <1>14. Base(x, w)
    <2>1. Dated(x) /\ SameIds(p.items, x.items)
      BY <1>7, <1>11 DEF Base, Dated, SameContext, SameCalls, SameIds
    <2>2. m \in Touched(p) /\ p.freshSends \subseteq Touched(p)
      BY <1>1, <1>5, <1>7, TouchedFacts DEF SameList
    <2>3. F \subseteq Touched(p)
      BY <1>8, <2>2
    <2>4. Touched(x) \subseteq Touched(p)
      BY ONLY <1>7, <1>11, <2>3, TouchedBy, TouchedFacts DEF SameCalls, SameContext, Current
    <2> QED
      BY <1>7, <1>11, <2>1, <2>4, BaseSame
  <1>15. \A k \in DOMAIN x.items :
            /\ k \in DOMAIN mq.items /\ x.items[k].id = mq.items[k].id
            /\ x.items[k] = IF mq.items[k].id = m THEN i ELSE mq.items[k]
    BY <1>4, <1>5, <1>12 DEF SameIds
  <1>16. One(x)
    BY <1>0, <1>12, <1>13 DEF Flow, One, SameCalls
  <1>17. Sending(x)
    <2>1. ASSUME NEW d \in x.dispatches, Current(x, d)
          PROVE  /\ \A k \in DOMAIN x.items : x.items[k].id = d.id =>
                      x.items[k].status = "sending" /\ ~x.items[k].preparing
                 /\ d.id \notin x.freshSends
      <3>1. d \in mq.dispatches /\ Current(mq, d) /\ d.id # m
        BY ONLY <1>1, <1>12, <1>13, <2>1 DEF SameCalls
      <3>2. /\ \A k \in DOMAIN mq.items : mq.items[k].id = d.id =>
                  mq.items[k].status = "sending" /\ ~mq.items[k].preparing
            /\ d.id \notin mq.freshSends
        BY ONLY <1>0, <3>1 DEF Flow, Sending
      <3> QED
        BY ONLY <1>9, <1>11, <1>15, <3>1, <3>2
    <2> QED
      BY ONLY <2>1 DEF Sending
  <1>18. Stopping(x)
    <2>1. x.interruption = mq.interruption /\ x.dispatches = mq.dispatches
      BY ONLY <1>12 DEF SameCalls
    <2>2. Stopping(mq)
      BY ONLY <1>0 DEF Flow
    <2>3. ASSUME NEW k \in DOMAIN x.items, x.items[k].status = "stopping"
          PROVE  x.interruption # None /\ x.interruption.id = x.items[k].id
      BY ONLY <1>2, <1>15, <2>1, <2>2, <2>3 DEF Stopping
    <2>4. ASSUME NEW k \in DOMAIN x.items, x.interruption # None, x.items[k].id = x.interruption.id
          PROVE  x.items[k].status = "stopping" /\ ~x.items[k].preparing
      BY ONLY <1>1, <1>15, <2>1, <2>2, <2>4 DEF Stopping
    <2> QED
      BY ONLY <1>1, <1>9, <1>11, <1>13, <2>1, <2>2, <2>3, <2>4 DEF Stopping
  <1>19. Awaited(x)
    BY <1>0, <1>12, <1>13 DEF Flow, Awaited, SameCalls
  <1>20. Asked(x, C \cup {m})
    <2>1. ASSUME NEW k \in DOMAIN x.items, MayGo(x, k), x.items[k].id # m PROVE x.items[k].id \in C
      <3>1. MayGo(mq, k)
        BY <1>9, <1>11, <1>12, <1>15, <2>1 DEF MayGo
      <3> QED
        BY <1>0, <1>15, <3>1 DEF Flow, Asked
    <2> QED
      BY <1>0, <1>12, <1>13, <2>1 DEF Flow, Asked, SameCalls
  <1>21. Object(x, w, C \cup {m})
    BY <1>14, <1>16, <1>17, <1>18, <1>19, <1>20 DEF Object, Flow
  <1>22. PICK r : r = Pump(x, TRUE)
    OBVIOUS
  <1>23. Sent(x, r, w, C \cup {m}) /\ Pumped(r)
    BY <1>21, <1>22, PumpKeeps
  <1>24. r.generation = mq.generation /\ r.account = mq.account /\ r.serial = mq.serial
    BY <1>12, <1>23 DEF Sent, SameContext, SameCalls
  <1>25. SentAsked(mq, r, C \cup {m})
    BY <1>12, <1>23 DEF Sent, SentAsked, SameCalls
  <1>26. Outcome(mq, r, w, C \cup {m})
    BY <1>23, <1>24, <1>25, Stays DEF Sent
  <1> QED
    BY <1>22, <1>24, <1>26

-----------------------------------------------------------------------------
(* The steps.                                                              *)

(* Consent is used up by what is sent; all of it had been granted.         *)
LEMMA Remembered ==
    ASSUME IInv, NEW G, Remember(G), NEW v, Outcome(mq, mq', v, G), G \subseteq Messages
    PROVE  Object(mq', v, consent') /\ Pumped(mq') /\ unasked' = {} /\ consent' \subseteq Messages
  <1>0. PICK D : D = Standing(mq, mq', G)
    OBVIOUS
  <1>1. PICK S : S = {d.id : d \in {e \in mq'.dispatches : e.at = "prompt" /\ e.reply = "none" /\ e \notin mq.dispatches}}
    OBVIOUS
  <1>2. consent' = D \ S /\ unasked' = unasked \cup (S \ D)
    BY <1>0, <1>1 DEF Remember, Standing
  <1>3. PICK r : r = mq'
    OBVIOUS
  <1>4. Object(r, v, D) /\ SentAsked(mq, r, D) /\ Pumped(r)
    BY <1>0, <1>3 DEF Outcome
  <1>5. \A id \in S : \E d \in r.dispatches : d.id = id /\ Current(r, d) /\ d.at = "prompt" /\ id \in D
    BY <1>1, <1>3, <1>4 DEF SentAsked
  <1>6. Base(r, v) /\ One(r) /\ Sending(r) /\ Stopping(r) /\ Awaited(r) /\ Asked(r, D)
    BY <1>4 DEF Object, Flow
  <1>7. Asked(r, D \ S)
    <2>1. ASSUME NEW k \in DOMAIN r.items, MayGo(r, k) PROVE r.items[k].id \in D \ S
      <3>1. r.items[k].id \in D
        BY <1>6, <2>1 DEF Asked
      <3>2. r.items[k].id \notin S
        BY <1>5, <1>6, <2>1 DEF Sending, MayGo
      <3> QED
        BY <3>1, <3>2
    <2>2. r.interruption # None => r.interruption.id \in (D \ S) \cup {None}
      BY <1>5, <1>6 DEF Asked, Stopping
    <2>3. ASSUME NEW d \in r.dispatches, Current(r, d), d.at = "persist" PROVE d.id \in D \ S
      <3>1. d.id \in D
        BY <1>6, <2>3 DEF Asked
      <3>2. d.id \notin S
        BY <1>5, <1>6, <2>3 DEF One
      <3> QED
        BY <3>1, <3>2
    <2> QED
      BY <2>1, <2>2, <2>3 DEF Asked
  <1>8. S \subseteq D /\ D \subseteq Messages
    BY <1>0, <1>5 DEF Standing
  <1>9. unasked = {}
    BY DEF IInv
  <1>10. Object(r, v, D \ S)
    BY <1>6, <1>7 DEF Object, Flow
  <1>11. consent' \subseteq Messages /\ unasked' = {}
    BY <1>2, <1>8, <1>9
  <1>12. Object(mq', v, consent')
    BY <1>2, <1>3, <1>10
  <1> QED
    BY <1>3, <1>4, <1>11, <1>12

(* Submissions keep their account while the queue's context stays. *)
LEMMA SubmittedStays ==
    ASSUME Submitted, Onward(mq, mq'), mq.generation \in Nat, mq'.generation \in Nat,
           submissions \in [Messages -> Submission], UNCHANGED owner,
           \A m \in Messages : submissions'[m] = submissions[m] \/ submissions'[m].at \in {"refused"}
                \/ (submissions'[m].at \in {"reserved", "done"} /\ submissions[m].at \in {"payload", "reserved", "done"})
    PROVE  Submitted'
  <1>1. ASSUME NEW m \in Messages
        PROVE  /\ submissions'[m].at \in {"payload", "reserved", "done"} => owner[m] \in Accounts
               /\ submissions'[m].at = "payload" =>
                    /\ submissions'[m].generation <= mq'.generation
                    /\ submissions'[m].generation = mq'.generation => owner[m] = mq'.account
    <2>1. submissions[m].generation \in Nat
      BY DEF Submission
    <2>2. CASE submissions'[m] = submissions[m]
      BY <2>1, <2>2 DEF Submitted, Onward
    <2>3. CASE submissions'[m].at = "refused"
      BY <2>3
    <2>4. CASE submissions'[m].at \in {"reserved", "done"} /\ submissions[m].at \in {"payload", "reserved", "done"}
      BY <2>4 DEF Submitted
    <2> QED
      BY <2>2, <2>3, <2>4
  <1> QED
    BY <1>1 DEF Submitted

LEMMA LedgerFacts ==
    /\ Ledger.owner = owner /\ Ledger.taken = Taken /\ Ledger.rows = native.rows
    /\ Ledger.owed = Taken \ (gone \cup native.rows) /\ Honest(Ledger)
  BY DEF Ledger, Honest

LEMMA SameLedger ==
    ASSUME UNCHANGED <<submissions, owner, gone>>, native'.rows = native.rows
    PROVE  Ledger' = Ledger
  BY DEF Ledger, Taken

(* What the parts of a step add up to. *)
LEMMA Closing ==
    ASSUME IInv, Object(mq', Ledger', consent'), Pumped(mq'), unasked' = {}, consent' \subseteq Messages,
           native' \in ClientState, faults' \in Nat, submissions' \in [Messages -> Submission],
           owner' \in [Messages -> Accounts \cup {None}], gone' \subseteq Messages,
           mq'.generation <= MaxGeneration, mq'.serial <= MaxInterrupts, Submitted'
    PROVE  IInv'
  BY DEF IInv, World, Bounded

LEMMA Parts ==
    ASSUME IInv
    PROVE  /\ World /\ Bounded /\ Submitted /\ Object(mq, Ledger, consent) /\ Pumped(mq)
           /\ mq \in Queue /\ mq.generation \in Nat /\ mq.serial \in Nat
           /\ native \in ClientState /\ faults \in Nat /\ submissions \in [Messages -> Submission]
           /\ owner \in [Messages -> Accounts \cup {None}] /\ consent \subseteq Messages
           /\ gone \subseteq Messages /\ unasked = {}
           /\ Ids(mq.items) \subseteq Messages
  <1>1. mq \in Queue
    BY DEF IInv, Object, Base
  <1>2. mq.generation \in Nat /\ mq.serial \in Nat /\ Ids(mq.items) \subseteq Messages
    BY <1>1, FieldTypes, ItemTypes
  <1> QED
    BY <1>1, <1>2 DEF IInv, World

LEMMA NextNat ==
    ASSUME Object(mq', Ledger', consent')
    PROVE  mq'.generation \in Nat
  BY FieldTypes DEF Object, Base

(* A step of the object that uses the consent G. *)
LEMMA ObjectStep ==
    ASSUME IInv, NEW G, G \subseteq Messages, Remember(G), Outcome(mq, mq', Ledger', G),
           mq'.generation <= MaxGeneration, native' \in ClientState, faults' \in Nat,
           gone' \subseteq Messages, UNCHANGED owner, submissions' \in [Messages -> Submission],
           \A m \in Messages : submissions'[m] = submissions[m] \/ submissions'[m].at \in {"refused"}
                \/ (submissions'[m].at \in {"reserved", "done"} /\ submissions[m].at \in {"payload", "reserved", "done"})
    PROVE  IInv'
  <1>1. Object(mq', Ledger', consent') /\ Pumped(mq') /\ unasked' = {} /\ consent' \subseteq Messages
    BY Remembered
  <1>2. mq'.generation \in Nat
    BY <1>1, NextNat
  <1>3. Onward(mq, mq')
    BY DEF Outcome
  <1>4. Submitted'
    BY <1>2, <1>3, Parts, SubmittedStays
  <1>5. mq'.serial <= MaxInterrupts
    BY <1>3, Parts DEF Onward, Bounded
  <1>6. owner' \in [Messages -> Accounts \cup {None}]
    BY Parts
  <1> QED
    BY <1>1, <1>4, <1>5, <1>6, Closing

(* A step that neither grants nor uses consent. *)
LEMMA PlainStep ==
    ASSUME IInv, Object(mq', Ledger', consent), Pumped(mq'), Onward(mq, mq'),
           mq'.generation = mq.generation, native' \in ClientState, faults' \in Nat,
           UNCHANGED history, submissions' \in [Messages -> Submission],
           \A m \in Messages : submissions'[m] = submissions[m] \/ submissions'[m].at \in {"refused"}
                \/ (submissions'[m].at \in {"reserved", "done"} /\ submissions[m].at \in {"payload", "reserved", "done"})
    PROVE  IInv'
  <1>0. UNCHANGED <<consent, unasked, owner, gone>>
    BY DEF history
  <1>1. Submitted'
    BY <1>0, Parts, SubmittedStays
  <1>2. mq'.serial <= MaxInterrupts /\ mq'.generation <= MaxGeneration
    BY Parts DEF Onward, Bounded
  <1> QED
    BY <1>0, <1>1, <1>2, Parts, Closing

(* Every step's counter of failures. *)
LEMMA FaultTypes ==
    ASSUME faults \in Nat, NEW ok \in BOOLEAN, faults' = IF ok THEN faults ELSE faults + 1
    PROVE  faults' \in Nat
  OBVIOUS

LEMMA NativeContextKeeps == IInv /\ NativeContext => IInv'
  <1> SUFFICES ASSUME IInv, NativeContext PROVE IInv'
    OBVIOUS
  <1>1. PICK a \in Accounts \cup {None} :
            native' = [native EXCEPT !.account = a, !.runtime = native.runtime + 1, !.session = "absent"]
    BY DEF NativeContext
  <1>2. native' \in ClientState /\ native'.rows = native.rows
    <2>1. PICK n : n = native.runtime + 1
      OBVIOUS
    <2>2. n \in 0..MaxTrouble
      <3>1. native.runtime \in Nat /\ native.revision \in Nat /\ faults \in Nat /\ MaxTrouble \in Nat
        BY Parts, QueueAssumption DEF ClientState
      <3> QED
        BY <2>1, <3>1 DEF NativeContext, MayFail
    <2>3. native' = [native EXCEPT !.account = a, !.runtime = n, !.session = "absent"] /\ native \in ClientState
      BY <1>1, <2>1, Parts
    <2> QED
      BY <2>2, <2>3 DEF ClientState
  <1>3. UNCHANGED <<submissions, consent, unasked, owner, gone, faults>>
    BY DEF NativeContext, history
  <1>4. Ledger' = Ledger
    BY <1>2, <1>3, SameLedger
  <1> DEFINE Failing(d) == d.reply \in {"none", "running"} /\ d.at = "prompt"
             Moved(d) == IF Failing(d) THEN [d EXCEPT !.reply = "error"] ELSE d
  <1>5. PICK X : X = {Moved(d) : d \in mq.dispatches}
    OBVIOUS
  <1>6. mq' = [mq EXCEPT !.dispatches = X]
    BY <1>5 DEF NativeContext
  <1>7. \A d \in mq.dispatches : /\ Moved(d) \in Calls /\ Moved(d).id = d.id
                                 /\ Moved(d).generation = d.generation /\ Moved(d).at = d.at
    <2>1. \A d \in mq.dispatches : d \in Calls
      BY Parts, FieldTypes
    <2> QED
      BY <2>1 DEF Calls
  <1> HIDE DEF Moved
  <1>8. X \in SUBSET Calls
    BY <1>5, <1>7
  <1>9. Advance(mq, X)
    <2>1. \A d \in mq.dispatches : Current(mq, Moved(d)) <=> Current(mq, d)
      BY <1>7 DEF Current
    <2>2. One(mq)
      BY Parts DEF Object, Flow
    <2>3. \A e, f \in X : Current(mq, e) /\ Current(mq, f) => e = f
      BY <1>5, <2>1, <2>2 DEF One
    <2>4. \A e \in X : \E d \in mq.dispatches :
            /\ e.id = d.id /\ e.generation = d.generation
            /\ e.at = "persist" => d.at = "persist"
      BY <1>5, <1>7
    <2>5. \A d \in mq.dispatches : Current(mq, d) => \E e \in X : Current(mq, e)
      BY <1>5, <2>1
    <2> QED
      BY <2>3, <2>4, <2>5 DEF Advance
  <1>10. PICK r : r = [mq EXCEPT !.dispatches = X]
    OBVIOUS
  <1>11. Object(r, Ledger, consent) /\ Pumped(r) /\ SameContext(mq, r) /\ r.serial = mq.serial
    BY <1>8, <1>9, <1>10, Parts, CallsMove
  <1>12. Onward(mq, r) /\ r.generation = mq.generation
    BY <1>11, Parts DEF Onward, SameContext
  <1> QED
    BY <1>2, <1>3, <1>4, <1>6, <1>10, <1>11, <1>12, Parts, PlainStep DEF history

LEMMA NativeSessionKeeps == IInv /\ NativeSession => IInv'
  <1> SUFFICES ASSUME IInv, NativeSession PROVE IInv'
    OBVIOUS
  <1>1. UNCHANGED <<mq, submissions, consent, unasked, owner, gone, faults>>
    BY DEF NativeSession, history
  <1>2. native' \in ClientState /\ native'.rows = native.rows
    <2>1. CASE native' = [native EXCEPT !.session = "idle"]
      BY <2>1, Parts DEF ClientState
    <2>2. CASE MayFail /\ native' = [native EXCEPT !.revision = native.revision + 1]
      <3>1. PICK n : n = native.revision + 1
        OBVIOUS
      <3>2. n \in 0..MaxTrouble
        <4>1. native.runtime \in Nat /\ native.revision \in Nat /\ faults \in Nat /\ MaxTrouble \in Nat
          BY Parts, QueueAssumption DEF ClientState
        <4> QED
          BY <2>2, <3>1, <4>1 DEF MayFail
      <3> QED
        BY <2>2, <3>1, <3>2, Parts DEF ClientState
    <2> QED
      BY <2>1, <2>2 DEF NativeSession
  <1>3. Ledger' = Ledger
    BY <1>1, <1>2, SameLedger
  <1>4. Onward(mq, mq') /\ mq'.generation = mq.generation
    BY <1>1, Parts DEF Onward
  <1>5. Object(mq', Ledger', consent) /\ Pumped(mq')
    BY <1>1, <1>3, Parts
  <1> QED
    BY <1>1, <1>2, <1>4, <1>5, Parts, PlainStep DEF history

LEMMA NativePromptKeeps == ASSUME NEW d \in mq.dispatches, IInv, NativePrompt(d) PROVE IInv'
  <1>1. UNCHANGED <<submissions, consent, unasked, owner, gone, faults>> /\ d.at = "prompt"
    BY DEF NativePrompt, history
  <1>2. d \in Calls
    BY Parts, FieldTypes
  <1>3. /\ \E e \in {"running", "end_turn", "cancelled", "error"} : mq' = Replace(d, {[d EXCEPT !.reply = e]})
        /\ native' \in ClientState /\ native.rows \subseteq native'.rows
    <2>1. CASE (\E e \in {"end_turn", "cancelled", "error"} : mq' = Replace(d, {[d EXCEPT !.reply = e]}))
               /\ UNCHANGED native
      BY <2>1, Parts
    <2>2. CASE /\ mq' = Replace(d, {[d EXCEPT !.reply = "running"]})
               /\ native' = [native EXCEPT !.rows = native.rows \cup {d.id}, !.session = "running"]
      BY <1>2, <2>2, Parts DEF ClientState, Calls
    <2>3. CASE (\E e \in {"end_turn", "cancelled", "error"} : mq' = Replace(d, {[d EXCEPT !.reply = e]}))
               /\ native' = [native EXCEPT !.session = "idle"]
      BY <2>3, Parts DEF ClientState
    <2> QED
      BY <2>1, <2>2, <2>3 DEF NativePrompt
  <1>4. PICK t \in {"running", "end_turn", "cancelled", "error"} : mq' = Replace(d, {[d EXCEPT !.reply = t]})
    BY <1>3
  <1>5. PICK e : e = [d EXCEPT !.reply = t]
    OBVIOUS
  <1>6. e \in Calls /\ e.id = d.id /\ e.generation = d.generation /\ e.at = d.at
    BY ONLY <1>2, <1>5, t \in {"running", "end_turn", "cancelled", "error"} DEF Calls
  <1>7. PICK E : E = {e}
    OBVIOUS
  <1>8. E \in SUBSET Calls /\ Later(mq, d, E)
    BY <1>6, <1>7 DEF Later
  <1>9. PICK r : r = [mq EXCEPT !.dispatches = (mq.dispatches \ {d}) \cup E]
    OBVIOUS
  <1>10. mq' = r
    BY <1>4, <1>5, <1>7, <1>9 DEF Replace
  <1>11. Object(r, Ledger, consent) /\ Pumped(r) /\ SameContext(mq, r) /\ r.serial = mq.serial
    BY <1>8, <1>9, Parts, OneCallMoves
  <1>12. PICK v : v = Ledger'
    OBVIOUS
  <1>13. v.owner = Ledger.owner /\ v.taken = Ledger.taken /\ Ledger.rows \subseteq v.rows /\ v.owed \subseteq Ledger.owed
    BY <1>1, <1>3, <1>12 DEF Ledger, Taken
  <1>14. Object(r, v, consent)
    BY <1>11, <1>13, LedgerMoves DEF Object
  <1>15. Onward(mq, r) /\ r.generation = mq.generation
    BY <1>11, Parts DEF Onward, SameContext
  <1> QED
    BY <1>1, <1>3, <1>10, <1>11, <1>12, <1>14, <1>15, Parts, PlainStep DEF history

LEMMA StateChangedKeeps == IInv /\ StateChanged => IInv'
  <1> SUFFICES ASSUME IInv, StateChanged PROVE IInv'
    OBVIOUS
  <1>1. UNCHANGED <<native, submissions, owner, gone>> /\ Remember(consent)
    BY DEF StateChanged
  <1>2. PICK ok \in BOOLEAN : /\ mq' = Sync(mq, native, ok) /\ mq'.generation <= MaxGeneration
                              /\ faults' = IF ok THEN faults ELSE faults + 1
    BY DEF StateChanged, Applies
  <1>3. Ledger' = Ledger
    BY <1>1, SameLedger
  <1>4. Outcome(mq, mq', Ledger, consent)
    BY <1>2, Parts, LedgerFacts, SyncKeeps
  <1>5. faults' \in Nat
    BY <1>2, Parts, FaultTypes
  <1> QED
    BY <1>1, <1>2, <1>3, <1>4, <1>5, Parts, ObjectStep

LEMMA DisposeKeeps == IInv /\ Dispose => IInv'
  <1> SUFFICES ASSUME IInv, Dispose PROVE IInv'
    OBVIOUS
  <1>1. UNCHANGED <<native, submissions, owner, gone, faults>> /\ Remember({}) /\ mq.generation < MaxGeneration
    BY DEF Dispose
  <1>2. Ledger' = Ledger
    BY <1>1, SameLedger
  <1>3. SignedOut \in ClientState /\ SignedOut.account = None /\ SignedOut.rows = {}
    BY QueueAssumption DEF SignedOut, ClientState
  <1>4. PICK g : g = mq.generation + 1
    OBVIOUS
  <1>5. g \in Nat /\ g <= MaxGeneration /\ 0 \in 0..MaxTrouble /\ mq.generation <= g /\ g # mq.generation
    BY <1>1, <1>4, Parts, QueueAssumption
  <1>6. PICK r : r = mq'
    OBVIOUS
  <1>7. r = [Reset(mq, None, 0) EXCEPT !.state = SignedOut, !.loading = FALSE]
    BY <1>6 DEF Dispose
  <1>8. /\ r \in Queue /\ r.generation = g /\ r.account = None /\ r.items = <<>> /\ r.freshSends = {}
        /\ r.interruption = None /\ r.dispatches = mq.dispatches /\ r.interrupts = mq.interrupts
        /\ r.serial = mq.serial /\ SameStore(mq, r) /\ r.state = SignedOut /\ r.restores = mq.restores
    <2>0. mq \in Queue
      BY Parts
    <2>1. PICK x : x = [mq EXCEPT !.generation = g, !.account = None, !.runtime = 0]
      OBVIOUS
    <2>2. /\ x \in Queue /\ x.generation = g /\ x.account = None
          /\ x.dispatches = mq.dispatches /\ x.interrupts = mq.interrupts
          /\ x.serial = mq.serial /\ SameStore(mq, x) /\ x.restores = mq.restores
      BY ONLY <1>5, <2>0, <2>1 DEF Queue, SameStore
    <2>3. PICK y : y = [x EXCEPT !.items = <<>>, !.paused = FALSE, !.freshSends = {}]
      OBVIOUS
    <2>4. /\ y \in Queue /\ y.generation = g /\ y.account = None /\ y.items = <<>> /\ y.freshSends = {}
          /\ y.dispatches = mq.dispatches /\ y.interrupts = mq.interrupts
          /\ y.serial = mq.serial /\ SameStore(mq, y) /\ y.restores = mq.restores
      <3>1. <<>> \in Seq(QueuedMessage) /\ {} \subseteq Messages /\ FALSE \in BOOLEAN
        OBVIOUS
      <3> QED
        BY ONLY <2>2, <2>3, <3>1 DEF Queue, SameStore
    <2>5. PICK s : s = SignedOut
      OBVIOUS
    <2>6. r = [y EXCEPT !.interruption = None, !.partial = FALSE, !.state = s, !.loading = FALSE]
      BY <1>4, <1>7, <2>1, <2>3, <2>5 DEF Reset
    <2>7. s \in ClientState
      BY <1>3, <2>5
    <2>8. /\ r \in Queue /\ r.generation = g /\ r.account = None /\ r.items = <<>> /\ r.freshSends = {}
          /\ r.interruption = None /\ r.dispatches = mq.dispatches /\ r.interrupts = mq.interrupts
          /\ r.serial = mq.serial /\ SameStore(mq, r) /\ r.state = s /\ r.restores = mq.restores
      BY ONLY <2>4, <2>6, <2>7 DEF Queue, SameStore
    <2> QED
      BY <2>5, <2>8
  <1>9. Seen(r, Ledger)
    BY <1>3, <1>8 DEF Seen
  <1>10. Object(r, Ledger, {}) /\ Pumped(r)
    BY <1>4, <1>8, <1>9, Parts, NewContext DEF Object
  <1>11. Onward(mq, r) /\ SentAsked(mq, r, {}) /\ Standing(mq, r, {}) = {}
    BY <1>5, <1>8 DEF Onward, SentAsked, Standing
  <1>12. Outcome(mq, mq', Ledger', {}) /\ mq'.generation <= MaxGeneration
    BY <1>2, <1>5, <1>6, <1>8, <1>10, <1>11 DEF Outcome
  <1> QED
    BY <1>1, <1>12, Parts, ObjectStep

LEMMA RestoreKeeps == ASSUME NEW c \in mq.restores, IInv, Restore(c) PROVE IInv'
  <1>1. UNCHANGED <<native, submissions, owner, gone>> /\ Remember(consent)
    BY DEF Restore
  <1>2. Ledger' = Ledger
    BY <1>1, SameLedger
  <1>3. Outcome(mq, mq', Ledger, consent) /\ mq'.generation <= MaxGeneration /\ faults' \in Nat
    <2>1. CASE <<c.account, Head(c.rest).id>> \in mq.payloads /\ Applies(LAMBDA ok : Restored(c, ok))
      <3>1. PICK ok \in BOOLEAN : /\ mq' = Restored(c, ok) /\ mq'.generation <= MaxGeneration
                                  /\ faults' = IF ok THEN faults ELSE faults + 1
        BY <2>1 DEF Applies
      <3> QED
        BY <2>1, <3>1, Parts, LedgerFacts, FaultTypes, RestoredKeeps
    <2>2. CASE mq' = RestoreFailed(c) /\ faults' = faults + 1
      <3>1. Outcome(mq, mq', Ledger, consent) /\ mq'.generation = mq.generation
        BY <2>2, Parts, LedgerFacts, RestoreFailedKeeps
      <3> QED
        BY <2>2, <3>1, Parts DEF Bounded
    <2> QED
      BY <2>1, <2>2 DEF Restore
  <1> QED
    BY <1>1, <1>2, <1>3, Parts, ObjectStep

-----------------------------------------------------------------------------
(* Submitting a message.                                                   *)

LEMMA Moving ==
    ASSUME NEW m \in Messages, NEW at \in {"none", "payload", "reserved", "refused", "done"}, NEW g \in Nat,
           submissions \in [Messages -> Submission], MoveTo(m, at, g)
    PROVE  /\ submissions' \in [Messages -> Submission]
           /\ submissions'[m] = [at |-> at, generation |-> g] /\ submissions'[m].at = at
           /\ submissions'[m].generation = g
           /\ \A n \in Messages : n # m => submissions'[n] = submissions[n]
  <1>1. submissions' = [submissions EXCEPT ![m] = [at |-> at, generation |-> g]]
    BY DEF MoveTo
  <1>2. [at |-> at, generation |-> g] \in Submission
    BY DEF Submission
  <1> QED
    BY <1>1, <1>2

(* Who owns a message that is not reserved yet does not matter.            *)
LEMMA OwnerMoves ==
    ASSUME NEW q, NEW w, NEW v, Base(q, w), v.taken = w.taken, v.rows = w.rows, v.owed = w.owed,
           w.owed \subseteq w.taken, \A id \in w.taken : v.owner[id] = w.owner[id]
    PROVE  Base(q, v)
  <1>1. \A id, a : Belongs(w, id, a) => Belongs(v, id, a)
    BY DEF Belongs
  <1>2. \A a : OwedTo(v, a) = OwedTo(w, a)
    BY DEF OwedTo
  <1>3. Home(q, v)
    BY <1>1 DEF Base, Home
  <1>4. Durable(q, v)
    BY <1>2 DEF Base, Durable
  <1>5. Seen(q, v) /\ Known(q, v)
    BY DEF Base, Seen, Known
  <1> QED
    BY <1>3, <1>4, <1>5 DEF Base

LEMMA ReserveDurableKeeps == ASSUME NEW m \in Messages, IInv, ReserveDurable(m) PROVE IInv'
  <1>1. /\ UNCHANGED <<mq, native, consent, unasked, gone, faults>> /\ submissions[m].at = "none"
        /\ mq.account # None /\ MoveTo(m, "payload", mq.generation)
        /\ owner' = [owner EXCEPT ![m] = mq.account]
    BY DEF ReserveDurable
  <1>2. /\ submissions' \in [Messages -> Submission] /\ submissions'[m].at = "payload"
        /\ submissions'[m].generation = mq.generation
        /\ \A n \in Messages : n # m => submissions'[n] = submissions[n]
    BY <1>1, Parts, Moving
  <1>3. mq.account \in Accounts
    BY <1>1, Parts, FieldTypes
  <1>4. /\ owner' \in [Messages -> Accounts \cup {None}] /\ owner'[m] = mq.account
        /\ \A n \in Messages : n # m => owner'[n] = owner[n]
    BY <1>1, <1>3, Parts
  <1>5. Taken' = Taken /\ m \notin Taken /\ Taken \subseteq Messages
    BY <1>1, <1>2 DEF Taken
  <1>6. PICK v : v = Ledger'
    OBVIOUS
  <1>7. /\ v.taken = Ledger.taken /\ v.rows = Ledger.rows /\ v.owed = Ledger.owed
        /\ Ledger.owed \subseteq Ledger.taken /\ \A id \in Ledger.taken : v.owner[id] = Ledger.owner[id]
    BY <1>1, <1>4, <1>5, <1>6 DEF Ledger
  <1>8. Object(mq, v, consent)
    BY <1>7, Parts, OwnerMoves DEF Object
  <1>9. Submitted'
    <2>1. \A n \in Messages : n # m =>
            /\ submissions'[n].at \in {"payload", "reserved", "done"} => owner'[n] \in Accounts
            /\ submissions'[n].at = "payload" =>
                 /\ submissions'[n].generation <= mq'.generation
                 /\ submissions'[n].generation = mq'.generation => owner'[n] = mq'.account
      BY <1>1, <1>2, <1>4, Parts DEF Submitted
    <2>2. mq.generation <= mq.generation
      BY Parts
    <2> QED
      BY <1>1, <1>2, <1>3, <1>4, <2>1, <2>2 DEF Submitted
  <1> QED
    BY <1>1, <1>2, <1>4, <1>6, <1>8, <1>9, Parts, Closing DEF Bounded

LEMMA ReserveKeeps == ASSUME NEW m \in Messages, IInv, Reserve(m) PROVE IInv'
  <1>1. UNCHANGED <<native, consent, unasked, owner, gone, faults>> /\ submissions[m].at = "payload"
    BY DEF Reserve, history
  <1>2. m \notin Taken
    BY <1>1 DEF Taken
  <1>3. CASE /\ Current(mq, submissions[m]) /\ ~mq.loading
             /\ mq' = Reserved(m) /\ MoveTo(m, "reserved", 0)
    <2>1. /\ submissions' \in [Messages -> Submission] /\ submissions'[m].at = "reserved"
          /\ \A n \in Messages : n # m => submissions'[n] = submissions[n]
      BY <1>3, Parts, Moving
    <2>2. owner[m] \in Accounts /\ owner[m] = mq.account
      BY <1>1, <1>3, Parts DEF Submitted, Current
    <2>3. Taken' = Taken \cup {m}
      BY <2>1 DEF Taken
    <2>4. PICK v : v = Ledger'
      OBVIOUS
    <2>5. /\ v.owner = Ledger.owner /\ v.taken = Ledger.taken \cup {m} /\ v.rows = Ledger.rows
          /\ v.owed \subseteq Ledger.owed \cup {m}
      BY <1>1, <2>3, <2>4 DEF Ledger
    <2>6. Outcome(mq, mq', v, consent) /\ mq'.generation = mq.generation
      BY <1>2, <1>3, <2>2, <2>5, Parts, LedgerFacts, ReservedKeeps
    <2>7. Object(mq', v, consent) /\ Pumped(mq') /\ Onward(mq, mq')
      BY <2>6 DEF Outcome, Standing
    <2> QED
      BY <1>1, <2>1, <2>4, <2>6, <2>7, Parts, PlainStep DEF history
  <1>4. CASE MoveTo(m, "refused", 0) /\ UNCHANGED mq
    <2>1. /\ submissions' \in [Messages -> Submission] /\ submissions'[m].at = "refused"
          /\ \A n \in Messages : n # m => submissions'[n] = submissions[n]
      BY <1>4, Parts, Moving
    <2>2. Taken' = Taken
      BY <1>1, <2>1 DEF Taken
    <2>3. Ledger' = Ledger
      BY <1>1, <2>2 DEF Ledger
    <2>4. Onward(mq, mq')
      BY <1>4, Parts DEF Onward
    <2>5. Object(mq', Ledger', consent) /\ Pumped(mq')
      BY <1>4, <2>3, Parts
    <2> QED
      BY <1>1, <1>4, <2>1, <2>4, <2>5, Parts, PlainStep DEF history
  <1> QED
    BY <1>3, <1>4 DEF Reserve

(* An outcome in the same context, when consent does not change.           *)
LEMMA OutcomeStep ==
    ASSUME IInv, Outcome(mq, mq', Ledger, consent), mq'.generation = mq.generation, Ledger' = Ledger,
           native' \in ClientState, faults' \in Nat, UNCHANGED history,
           submissions' \in [Messages -> Submission],
           \A m \in Messages : submissions'[m] = submissions[m] \/ submissions'[m].at \in {"refused"}
                \/ (submissions'[m].at \in {"reserved", "done"} /\ submissions[m].at \in {"payload", "reserved", "done"})
    PROVE  IInv'
  <1>1. Object(mq', Ledger', consent) /\ Pumped(mq') /\ Onward(mq, mq')
    BY DEF Outcome, Standing
  <1> QED
    BY <1>1, PlainStep

LEMMA BindPreparationKeeps == ASSUME NEW m \in Messages, IInv, BindPreparation(m) PROVE IInv'
  <1>1. UNCHANGED <<native, submissions, history>> /\ UNCHANGED <<consent, unasked, owner, gone>>
    BY DEF BindPreparation, history
  <1>2. PICK ok \in BOOLEAN : /\ mq' = Save(mq, ok)
                              /\ faults' = IF ok THEN faults ELSE faults + 1
    BY DEF BindPreparation, Applies
  <1>3. Ledger' = Ledger
    BY <1>1, SameLedger
  <1>4. Outcome(mq, mq', Ledger, consent)
    BY <1>2, Parts, BindKeeps
  <1>5. mq'.generation = mq.generation
    BY <1>2, Parts, SaveFacts DEF SameContext
  <1> QED
    BY <1>1, <1>2, <1>3, <1>4, <1>5, Parts, FaultTypes, OutcomeStep

LEMMA FailPreparationKeeps == ASSUME NEW m \in Messages, IInv, FailPreparation(m) PROVE IInv'
  <1>1. /\ UNCHANGED <<native, history>> /\ UNCHANGED <<consent, unasked, owner, gone>>
        /\ submissions[m].at = "reserved" /\ MoveTo(m, "done", 0)
    BY DEF FailPreparation, history
  <1>2. PICK ok \in BOOLEAN : /\ mq' = IF Active(m) THEN Save(WithStatus(mq, m, "queued"), ok) ELSE mq
                              /\ faults' = IF ok THEN faults ELSE faults + 1
    BY DEF FailPreparation, Applies
  <1>3. /\ submissions' \in [Messages -> Submission] /\ submissions'[m].at = "done"
        /\ \A n \in Messages : n # m => submissions'[n] = submissions[n]
    BY <1>1, Parts, Moving
  <1>4. Taken' = Taken
    BY <1>1, <1>3 DEF Taken
  <1>5. Ledger' = Ledger
    BY <1>1, <1>4 DEF Ledger
  <1>6. Outcome(mq, mq', Ledger, consent) /\ mq'.generation = mq.generation
    <2>1. CASE Active(m)
      <3>1. Distinct(mq.items)
        BY Parts DEF Object, Base, Home
      <3>2. PICK s : s = WithStatus(mq, m, "queued")
        OBVIOUS
      <3>3. s \in Queue /\ s.generation = mq.generation
        BY <3>1, <3>2, Parts, WithStatusFacts DEF Restated, SameContext, Statuses
      <3>4. Save(s, ok).generation = s.generation
        BY <3>3, SaveFacts DEF SameContext
      <3> QED
        BY <1>2, <2>1, <3>2, <3>3, <3>4, Parts, PreparationFailsKeeps
    <2>2. CASE ~Active(m)
      <3>1. mq' = mq /\ SentAsked(mq, mq, consent)
        BY <1>2, <2>2 DEF SentAsked
      <3> QED
        BY <3>1, Parts, Stays
    <2> QED
      BY <2>1, <2>2
  <1> QED
    BY <1>1, <1>2, <1>3, <1>5, <1>6, Parts, FaultTypes, OutcomeStep

LEMMA ReadyStepKeeps == ASSUME NEW m \in Messages, IInv, Ready(m) PROVE IInv'
  <1>1. /\ UNCHANGED <<native, owner, gone, faults>> /\ submissions[m].at = "reserved" /\ Active(m)
        /\ MoveTo(m, "done", 0) /\ Remember(consent \cup {m})
        /\ mq' = Pump(Freshened(Save(Put(mq, Prepared(m)), TRUE), m), TRUE)
    BY DEF Ready, Prepared, Freshened
  <1>2. /\ submissions' \in [Messages -> Submission] /\ submissions'[m].at = "done"
        /\ \A n \in Messages : n # m => submissions'[n] = submissions[n]
    BY <1>1, Parts, Moving
  <1>3. Taken' = Taken
    BY <1>1, <1>2 DEF Taken
  <1>4. Ledger' = Ledger
    BY <1>1, <1>3 DEF Ledger
  <1>5. Outcome(mq, mq', Ledger, consent \cup {m}) /\ mq'.generation = mq.generation
    <2>1. PICK j : j = Prepared(m)
      OBVIOUS
    <2>2. PICK r : r = Save(Put(mq, j), TRUE)
      OBVIOUS
    <2>3. PICK x : x = Freshened(r, m)
      OBVIOUS
    <2>4. mq' = Pump(x, TRUE)
      BY <1>1, <2>1, <2>2, <2>3
    <2>5. Object(mq, Ledger, consent) /\ Active(m)
      BY <1>1, Parts
    <2>6. Outcome(mq, Pump(x, TRUE), Ledger, consent \cup {m}) /\ Pump(x, TRUE).generation = mq.generation
      BY <2>1, <2>2, <2>3, <2>5, ReadyKeeps
    <2> QED
      BY <2>4, <2>6
  <1>6. consent \cup {m} \subseteq Messages
    BY Parts
  <1>7. mq'.generation <= MaxGeneration
    BY <1>5, Parts DEF Bounded
  <1> QED
    BY <1>1, <1>2, <1>4, <1>5, <1>6, <1>7, Parts, ObjectStep

-----------------------------------------------------------------------------
(* The user's commands.                                                    *)

LEMMA UninterruptedIsPumped ==
    ASSUME NEW r, NEW w, NEW C, Object(r, w, C), r.interruption = None
    PROVE  Pumped(r)
  BY DEF Object, Flow, Stopping, Pumped

LEMMA RemoveMessageKeeps == ASSUME NEW m \in Messages, IInv, RemoveMessage(m) PROVE IInv'
  <1>1. /\ m \in Ids(mq.items) /\ ~Has(mq, m, "sending") /\ Remember(consent \ {m})
        /\ gone' = gone \cup (Ids(mq.items) \ Ids(mq'.items))
        /\ UNCHANGED <<native, submissions, owner>>
    BY DEF RemoveMessage
  <1>2. PICK ok \in BOOLEAN : /\ mq' = Removed(m, ok) /\ mq'.generation <= MaxGeneration
                              /\ faults' = IF ok THEN faults ELSE faults + 1
    BY DEF RemoveMessage, Applies
  <1>3. PICK v : v = Ledger'
    OBVIOUS
  <1>4. /\ v.owner = Ledger.owner /\ v.taken = Ledger.taken /\ v.rows = Ledger.rows
        /\ v.owed = Ledger.owed \ (Ids(mq.items) \ Ids(Removed(m, ok).items))
    BY <1>1, <1>2, <1>3 DEF Ledger, Taken
  <1>5. Outcome(mq, Removed(m, ok), v, consent \ {m})
    BY <1>1, <1>4, Parts, RemovedKeeps
  <1>6. consent \ {m} \subseteq Messages /\ gone' \subseteq Messages
    BY <1>1, Parts
  <1> QED
    BY <1>1, <1>2, <1>3, <1>5, <1>6, Parts, FaultTypes, ObjectStep

(* A message whose dispatch waits to be committed is one that is wanted.   *)
LEMMA DispatchingFacts ==
    ASSUME IInv
    PROVE  \A d \in mq.dispatches : Current(mq, d) /\ d.at = "persist" => d.id \in consent \cap Dispatching
  BY Parts DEF Object, Flow, Asked, Dispatching

LEMMA ForgetKeeps == IInv /\ Forget => IInv'
  <1> SUFFICES ASSUME IInv, Forget PROVE IInv'
    OBVIOUS
  <1>1. /\ native' = [native EXCEPT !.session = "absent"]
        /\ gone' = gone \cup Ids(mq.items) /\ Remember(consent \cap Dispatching)
        /\ UNCHANGED <<submissions, owner>>
    BY DEF Forget
  <1>2. PICK ok \in BOOLEAN : /\ mq' = Forgotten(ok) /\ mq'.generation <= MaxGeneration
                              /\ faults' = IF ok THEN faults ELSE faults + 1
    BY DEF Forget, Applies
  <1>3. native' \in ClientState /\ native'.rows = native.rows
    BY <1>1, Parts DEF ClientState
  <1>4. PICK v : v = Ledger'
    OBVIOUS
  <1>5. /\ v.owner = Ledger.owner /\ v.taken = Ledger.taken /\ v.rows = Ledger.rows
        /\ v.owed = Ledger.owed \ Ids(mq.items)
    BY <1>1, <1>3, <1>4 DEF Ledger, Taken
  <1>6. PICK D : D = consent \cap Dispatching
    OBVIOUS
  <1>7. Outcome(mq, Forgotten(ok), v, D)
    BY <1>5, <1>6, Parts, DispatchingFacts, ForgottenKeeps
  <1>8. D \subseteq Messages /\ gone' \subseteq Messages
    BY <1>1, <1>6, Parts
  <1> QED
    BY <1>1, <1>2, <1>3, <1>4, <1>6, <1>7, <1>8, Parts, FaultTypes, ObjectStep

LEMMA PauseStepKeeps == IInv /\ Pause => IInv'
  <1> SUFFICES ASSUME IInv, Pause PROVE IInv'
    OBVIOUS
  <1>1. Remember(consent \cap Dispatching) /\ UNCHANGED <<native, submissions, owner, gone>>
    BY DEF Pause
  <1>2. PICK ok \in BOOLEAN : /\ mq' = PauseThread(mq, ok) /\ mq'.generation <= MaxGeneration
                              /\ faults' = IF ok THEN faults ELSE faults + 1
    BY DEF Pause, Applies
  <1>3. Ledger' = Ledger
    BY <1>1, SameLedger
  <1>4. PICK D : D = consent \cap Dispatching
    OBVIOUS
  <1>5. Outcome(mq, mq', Ledger, D)
    BY <1>2, <1>4, Parts, DispatchingFacts, PauseKeeps
  <1>6. D \subseteq Messages
    BY <1>4, Parts
  <1> QED
    BY <1>1, <1>2, <1>3, <1>4, <1>5, <1>6, Parts, FaultTypes, ObjectStep

LEMMA SendNowKeeps == ASSUME NEW m \in Messages, IInv, SendNow(m) PROVE IInv'
  <1>1. /\ Has(mq, m, "queued") /\ ~ItemOf(mq, m).preparing /\ mq.interruption = None
        /\ mq'.serial <= MaxInterrupts /\ Remember(consent \cup {m})
        /\ UNCHANGED <<native, submissions, owner, gone>>
    BY DEF SendNow
  <1>2. PICK ok \in BOOLEAN :
            /\ mq' = IF RevisionChanged(mq, m) THEN HoldForRevision(mq, m, ok)
                     ELSE IF Idle(mq) THEN Dispatch(mq, m, ok) ELSE Interrupting(m, ok)
            /\ mq'.generation <= MaxGeneration
            /\ faults' = IF ok THEN faults ELSE faults + 1
    BY DEF SendNow, Applies
  <1>3. Ledger' = Ledger
    BY <1>1, SameLedger
  <1>4. PICK G : G = consent \cup {m}
    OBVIOUS
  <1>5. Poised(mq, Ledger, G, m) /\ G \subseteq Messages
    BY <1>1, <1>4, Parts, QueuedIsPoised
  <1>6. faults' \in Nat
    BY <1>2, Parts, FaultTypes
  <1>7. PICK r : r = mq'
    OBVIOUS
  <1>8. CASE RevisionChanged(mq, m) \/ Idle(mq)
    <2>1. CASE RevisionChanged(mq, m)
      <3>1. Object(r, Ledger, G) /\ SameContext(mq, r) /\ SameCalls(mq, r)
        BY <1>2, <1>5, <1>7, <2>1, HoldForRevisionKeeps
      <3>2. Pumped(r) /\ SentAsked(mq, r, G) /\ r.generation = mq.generation /\ r.account = mq.account
            /\ r.serial = mq.serial
        BY <1>1, <3>1, UninterruptedIsPumped DEF SameContext, SameCalls, SentAsked
      <3> QED
        BY <1>1, <1>2, <1>3, <1>4, <1>5, <1>6, <1>7, <3>1, <3>2, Stays, Parts, ObjectStep
    <2>2. CASE ~RevisionChanged(mq, m) /\ Idle(mq)
      <3>1. Object(r, Ledger, G) /\ SameContext(mq, r) /\ SentAsked(mq, r, G) /\ r.serial = mq.serial
            /\ r.interruption = None
        BY <1>2, <1>5, <1>7, <2>2, DispatchKeeps
      <3>2. Pumped(r) /\ r.generation = mq.generation /\ r.account = mq.account
        BY <3>1, UninterruptedIsPumped DEF SameContext
      <3> QED
        BY <1>1, <1>2, <1>3, <1>4, <1>5, <1>6, <1>7, <3>1, <3>2, Stays, Parts, ObjectStep
    <2> QED
      BY <1>8, <2>1, <2>2
  <1>9. CASE ~RevisionChanged(mq, m) /\ ~Idle(mq)
    <2>1. Object(r, Ledger, G) /\ Pumped(r) /\ SameContext(mq, r) /\ r.dispatches = mq.dispatches
      BY <1>2, <1>5, <1>7, <1>9, InterruptingKeeps
    <2>2. mq'.generation = mq.generation /\ mq'.account = mq.account /\ mq'.dispatches = mq.dispatches
      BY <1>7, <2>1 DEF SameContext
    <2>3. consent' = G /\ unasked' = {}
      BY <1>1, <1>4, <2>2, Parts DEF Remember
    <2>4. Submitted'
      BY <1>1, <2>2, Parts DEF Submitted
    <2> QED
      BY <1>1, <1>2, <1>3, <1>5, <1>6, <1>7, <2>1, <2>3, <2>4, Parts, Closing
  <1> QED
    BY <1>8, <1>9

-----------------------------------------------------------------------------
(* What the calls of the object come back with.                            *)

LEMMA InterruptStepKeeps == ASSUME NEW p \in mq.interrupts, IInv, Interrupt(p) PROVE IInv'
  <1>1. UNCHANGED <<native, submissions, owner, gone>>
    BY DEF Interrupt
  <1>2. Ledger' = Ledger
    BY <1>1, SameLedger
  <1>3. CASE Applies(LAMBDA ok : InterruptAdvances(p, ok)) /\ Remember(consent)
    <2>1. PICK ok \in BOOLEAN : /\ mq' = InterruptAdvances(p, ok) /\ mq'.generation <= MaxGeneration
                                /\ faults' = IF ok THEN faults ELSE faults + 1
      BY <1>3 DEF Applies
    <2>2. Outcome(mq, mq', Ledger, consent)
      BY <2>1, Parts, LedgerFacts, AdvancesKeeps
    <2> QED
      BY <1>1, <1>2, <1>3, <2>1, <2>2, Parts, FaultTypes, ObjectStep
  <1>4. CASE /\ mq' = InterruptFails(p, TRUE) /\ faults' = faults + 1
             /\ Remember(IF Owns(p) THEN consent \ {mq.interruption.id} ELSE consent)
    <2>1. PICK G : G = IF Owns(p) THEN consent \ {mq.interruption.id} ELSE consent
      OBVIOUS
    <2>2. Outcome(mq, mq', Ledger, G) /\ mq'.generation = mq.generation
      BY <1>4, <2>1, Parts, FailsKeeps
    <2>3. G \subseteq Messages
      BY <2>1, Parts
    <2>4. mq'.generation <= MaxGeneration
      BY <2>2, Parts DEF Bounded
    <2>5. faults' \in Nat
      BY <1>4, Parts
    <2> QED
      BY <1>1, <1>2, <1>4, <2>1, <2>2, <2>3, <2>4, <2>5, Parts, ObjectStep
  <1> QED
    BY <1>3, <1>4 DEF Interrupt

(* A call that moves on, or is dropped, in a context that stays.           *)
LEMMA CallStep ==
    ASSUME NEW d \in mq.dispatches, IInv, NEW E \in SUBSET Calls, Later(mq, d, E), mq' = Replace(d, E),
           \A e \in E : e.at = "prompt" /\ e.reply = "none" => e.id \in consent /\ Current(mq, e)
    PROVE  Outcome(mq, mq', Ledger, consent) /\ mq'.generation = mq.generation
  <1>1. PICK r : r = [mq EXCEPT !.dispatches = (mq.dispatches \ {d}) \cup E]
    OBVIOUS
  <1>2. mq' = r
    BY <1>1 DEF Replace
  <1>3. /\ Object(r, Ledger, consent) /\ Pumped(r) /\ SameContext(mq, r) /\ r.serial = mq.serial
        /\ r.dispatches = (mq.dispatches \ {d}) \cup E
    BY <1>1, Parts, OneCallMoves
  <1>4. SentAsked(mq, r, consent)
    BY <1>3 DEF SentAsked, SameContext, Current
  <1>5. r.generation = mq.generation /\ r.account = mq.account
    BY <1>3 DEF SameContext
  <1> QED
    BY <1>2, <1>3, <1>4, <1>5, Stays

LEMMA DispatchReturnsKeeps == ASSUME NEW d \in mq.dispatches, IInv, DispatchReturns(d) PROVE IInv'
  <1>1. UNCHANGED <<native, submissions, owner, gone>> /\ Remember(consent)
    BY DEF DispatchReturns
  <1>2. Ledger' = Ledger
    BY <1>1, SameLedger
  <1>3. d \in Calls
    BY Parts, FieldTypes
  <1>4. Outcome(mq, mq', Ledger, consent) /\ mq'.generation <= MaxGeneration /\ faults' \in Nat
    <2>1. CASE ~Current(mq, d) /\ mq' = Replace(d, {}) /\ UNCHANGED faults
      <3>1. Later(mq, d, {})
        BY <2>1 DEF Later
      <3>2. {} \in SUBSET Calls /\ \A e \in {} : e.at = "prompt" /\ e.reply = "none" => e.id \in consent /\ Current(mq, e)
        OBVIOUS
      <3>3. Outcome(mq, mq', Ledger, consent) /\ mq'.generation = mq.generation
        BY <2>1, <3>1, <3>2, CallStep
      <3> QED
        BY <2>1, <3>3, Parts DEF Bounded
    <2>2. CASE /\ Current(mq, d) /\ d.at # "state" /\ UNCHANGED faults
               /\ mq' = Replace(d, {[d EXCEPT !.at = IF d.at = "persist" THEN "prompt" ELSE "state"]})
      <3>1. PICK e : e = [d EXCEPT !.at = IF d.at = "persist" THEN "prompt" ELSE "state"]
        OBVIOUS
      <3>2. /\ e \in Calls /\ e.id = d.id /\ e.generation = d.generation
            /\ e.at = IF d.at = "persist" THEN "prompt" ELSE "state"
        BY ONLY <1>3, <3>1 DEF Calls
      <3>3. PICK E : E = {e}
        OBVIOUS
      <3>4. E \in SUBSET Calls /\ Later(mq, d, E)
        BY <3>2, <3>3 DEF Later
      <3>5. d.at = "persist" => d.id \in consent
        BY <2>2, DispatchingFacts
      <3>6. \A f \in E : f.at = "prompt" /\ f.reply = "none" => f.id \in consent /\ Current(mq, f)
        BY <2>2, <3>2, <3>3, <3>5 DEF Current
      <3>7. Outcome(mq, mq', Ledger, consent) /\ mq'.generation = mq.generation
        BY <2>2, <3>1, <3>3, <3>4, <3>6, CallStep
      <3> QED
        BY <2>2, <3>7, Parts DEF Bounded
    <2>3. CASE Current(mq, d) /\ \E errorRow \in BOOLEAN : Applies(LAMBDA ok : Returned(d, errorRow, ok))
      <3>1. PICK errorRow \in BOOLEAN, ok \in BOOLEAN :
                /\ mq' = Returned(d, errorRow, ok) /\ mq'.generation <= MaxGeneration
                /\ faults' = IF ok THEN faults ELSE faults + 1
        BY <2>3 DEF Applies
      <3> QED
        BY <2>3, <3>1, Parts, LedgerFacts, FaultTypes, ReturnedKeeps
    <2>4. CASE Current(mq, d) /\ Applies(LAMBDA ok : Failed(d, ok))
      <3>1. PICK ok \in BOOLEAN : /\ mq' = Failed(d, ok) /\ mq'.generation <= MaxGeneration
                                  /\ faults' = IF ok THEN faults ELSE faults + 1
        BY <2>4 DEF Applies
      <3> QED
        BY <2>4, <3>1, Parts, FaultTypes, FailedKeeps
    <2>5. CASE Current(mq, d) /\ mq' = Failed(d, TRUE) /\ faults' = faults + 1
      <3>1. Outcome(mq, mq', Ledger, consent) /\ mq'.generation = mq.generation
        BY <2>5, Parts, FailedKeeps
      <3>2. faults' \in Nat
        BY <2>5, Parts
      <3> QED
        BY <3>1, <3>2, Parts DEF Bounded
    <2> QED
      BY <2>1, <2>2, <2>3, <2>4, <2>5 DEF DispatchReturns
  <1> QED
    BY <1>1, <1>2, <1>4, Parts, ObjectStep

-----------------------------------------------------------------------------
(* The invariant holds of every state.                                     *)

LEMMA InitKeeps == Init => IInv
  <1> SUFFICES ASSUME Init PROVE IInv
    OBVIOUS
  <1> DEFINE Stored(left) ==
                [k \in DOMAIN left |-> [id |-> left[k], revision |-> 0, preparing |-> FALSE, status |-> "queued"]]
  <1>1. PICK a \in Accounts, n \in 0..MaxMessages : \E left \in [1..n -> Messages] :
        /\ IsInjective(left)
        /\ native = [SignedOut EXCEPT !.account = a, !.session = "idle"]
        /\ mq = [account |-> None, runtime |-> 0, generation |-> 0, state |-> SignedOut,
                 items |-> <<>>, paused |-> FALSE, freshSends |-> {}, interruption |-> None,
                 loading |-> FALSE, dispatches |-> {}, interrupts |-> {}, restores |-> {}, serial |-> 0,
                 saved |-> [b \in Accounts |-> IF b = a THEN Stored(left) ELSE <<>>],
                 payloads |-> {a} \X Range(left), partial |-> FALSE, clobbered |-> FALSE]
        /\ submissions = [m \in Messages |->
                [at |-> IF m \in Range(left) THEN "done" ELSE "none", generation |-> 0]]
        /\ owner = [m \in Messages |-> IF m \in Range(left) THEN a ELSE None]
        /\ consent = {} /\ unasked = {} /\ gone = {} /\ faults = 0
    BY DEF Init
  <1>2. PICK left \in [1..n -> Messages] :
        /\ IsInjective(left)
        /\ native = [SignedOut EXCEPT !.account = a, !.session = "idle"]
        /\ mq = [account |-> None, runtime |-> 0, generation |-> 0, state |-> SignedOut,
                 items |-> <<>>, paused |-> FALSE, freshSends |-> {}, interruption |-> None,
                 loading |-> FALSE, dispatches |-> {}, interrupts |-> {}, restores |-> {}, serial |-> 0,
                 saved |-> [b \in Accounts |-> IF b = a THEN Stored(left) ELSE <<>>],
                 payloads |-> {a} \X Range(left), partial |-> FALSE, clobbered |-> FALSE]
        /\ submissions = [m \in Messages |->
                [at |-> IF m \in Range(left) THEN "done" ELSE "none", generation |-> 0]]
        /\ owner = [m \in Messages |-> IF m \in Range(left) THEN a ELSE None]
        /\ consent = {} /\ unasked = {} /\ gone = {} /\ faults = 0
    BY <1>1
  <1>3. PICK s : s = Stored(left)
    OBVIOUS
  <1>4. PICK R : R = Range(left)
    OBVIOUS
  <1>5. DOMAIN left = 1..n /\ n \in Nat /\ 0 \in 0..MaxTrouble /\ 0 <= MaxGeneration /\ 0 <= MaxInterrupts
    BY QueueAssumption
  <1>6. \A k \in 1..n : left[k] \in Messages /\ left[k] \in R
    BY <1>4, <1>5 DEF Range
  <1>7. R \subseteq Messages /\ \A m \in R : \E k \in 1..n : m = left[k]
    BY <1>4, <1>5 DEF Range
  <1>8. /\ s \in Seq(QueuedMessage) /\ DOMAIN s = 1..n
        /\ \A k \in 1..n : s[k].id = left[k] /\ s[k].status = "queued"
    <2>1. \A k \in 1..n : [id |-> left[k], revision |-> 0, preparing |-> FALSE, status |-> "queued"] \in QueuedMessage
      BY <1>5, <1>6 DEF QueuedMessage
    <2>2. s \in [1..n -> QueuedMessage]
      BY <1>3, <1>5, <2>1
    <2> QED
      BY <1>3, <1>5, <2>2
  <1>9. Ids(s) = R /\ Plain(s) /\ Distinct(s)
    <2>1. Ids(s) = R
      BY <1>6, <1>7, <1>8 DEF Ids
    <2>2. Plain(s)
      BY <1>8 DEF Plain
    <2>3. \A j, k \in 1..n : left[j] = left[k] => j = k
      BY <1>2, <1>5 DEF IsInjective
    <2> QED
      BY <1>8, <2>1, <2>2, <2>3 DEF Distinct
  <1>10. Ids(<<>>) = {} /\ Plain(<<>>) /\ Distinct(<<>>) /\ <<>> \in Seq(QueuedMessage)
    BY DEF Ids, Plain, Distinct
  <1> HIDE DEF Stored
  <1>11. PICK z : z = SignedOut
    OBVIOUS
  <1>12. z \in ClientState /\ z.account = None /\ z.rows = {}
    BY <1>5, <1>11 DEF SignedOut, ClientState
  <1>13. native \in ClientState /\ native.rows = {}
    BY <1>2, <1>11, <1>12 DEF ClientState
  <1>14. PICK f : f = [b \in Accounts |-> IF b = a THEN s ELSE <<>>]
    OBVIOUS
  <1>15. /\ f \in [Accounts -> Seq(QueuedMessage)]
         /\ f[a] = s /\ \A b \in Accounts : b # a => f[b] = <<>>
    BY <1>8, <1>10, <1>14
  <1>16. PICK P : P = {a} \X R
    OBVIOUS
  <1>17. P \subseteq Accounts \X Messages
    BY <1>7, <1>16
  <1>18. mq = [account |-> None, runtime |-> 0, generation |-> 0, state |-> z,
                 items |-> <<>>, paused |-> FALSE, freshSends |-> {}, interruption |-> None,
                 loading |-> FALSE, dispatches |-> {}, interrupts |-> {}, restores |-> {}, serial |-> 0,
                 saved |-> f, payloads |-> P, partial |-> FALSE, clobbered |-> FALSE]
    BY <1>2, <1>3, <1>4, <1>11, <1>14, <1>16
  <1>19. /\ mq.account = None /\ mq.state = z /\ mq.items = <<>> /\ mq.freshSends = {}
         /\ mq.interruption = None /\ mq.dispatches = {} /\ mq.interrupts = {} /\ mq.restores = {}
         /\ mq.saved = f /\ mq.payloads = P /\ mq.generation = 0 /\ mq.serial = 0 /\ mq.loading = FALSE
    BY ONLY <1>18
  <1>20. mq \in Queue
    BY ONLY <1>5, <1>10, <1>12, <1>15, <1>17, <1>18 DEF Queue
  <1>21. Taken = R
    <2>1. \A m \in Messages : submissions[m].at = IF m \in R THEN "done" ELSE "none"
      BY <1>2, <1>4
    <2> QED
      BY <1>7, <2>1 DEF Taken
  <1>22. /\ owner = [m \in Messages |-> IF m \in R THEN a ELSE None] /\ gone = {}
         /\ \A m \in R : owner[m] = a
    BY <1>2, <1>4, <1>7
  <1>23. PICK w : w = Ledger
    OBVIOUS
  <1>24. w.taken = R /\ w.rows = {} /\ w.owed = R /\ w.owner = owner
    BY <1>13, <1>21, <1>22, <1>23 DEF Ledger
  <1>25. Dated(mq) /\ Reading(mq)
    BY ONLY <1>19 DEF Dated, Reading
  <1>26. Seen(mq, w)
    BY ONLY <1>12, <1>19, <1>24 DEF Seen
  <1>27. Home(mq, w)
    <2>1. \A b \in Accounts : Distinct(f[b]) /\ Plain(f[b])
      BY ONLY <1>9, <1>10, <1>15
    <2>2. \A b \in Accounts : \A id \in Ids(f[b]) : b = a /\ id \in R
      BY ONLY <1>9, <1>10, <1>15
    <2>3. \A b \in Accounts : \A id \in Ids(f[b]) : Belongs(w, id, b) /\ <<b, id>> \in P
      BY ONLY <1>16, <1>22, <1>24, <2>2 DEF Belongs
    <2> QED
      BY ONLY <1>10, <1>19, <2>1, <2>3 DEF Home
  <1>28. Known(mq, w)
    <2>1. None \notin Messages
      BY QueueAssumption
    <2> QED
      BY ONLY <1>10, <1>19, <2>1 DEF Known, Touched, InFlight
  <1>29. Durable(mq, w)
    <2>1. \A b \in Accounts : OwedTo(w, b) \subseteq Ids(f[b])
      BY ONLY <1>9, <1>15, <1>22, <1>24, a \in Accounts DEF OwedTo
    <2> QED
      BY ONLY <1>19, <2>1 DEF Durable
  <1>30. Flow(mq, consent) /\ Pumped(mq)
    BY ONLY <1>19 DEF Flow, One, Sending, Stopping, Awaited, Asked, MayGo, Pumped
  <1>31. Object(mq, Ledger, consent)
    BY <1>20, <1>23, <1>25, <1>26, <1>27, <1>28, <1>29, <1>30 DEF Object, Base
  <1>32. World
    <2>1. submissions \in [Messages -> Submission]
      BY <1>2 DEF Submission
    <2>2. owner \in [Messages -> Accounts \cup {None}]
      BY <1>22
    <2> QED
      BY <1>2, <1>13, <2>1, <2>2 DEF World
  <1>33. Submitted
    <2>1. \A m \in Messages : submissions[m].at = IF m \in R THEN "done" ELSE "none"
      BY <1>2, <1>4
    <2> QED
      BY <1>22, <2>1 DEF Submitted
  <1>34. Bounded
    BY <1>5, <1>19 DEF Bounded
  <1> QED
    BY <1>2, <1>30, <1>31, <1>32, <1>33, <1>34 DEF IInv

LEMMA StutterKeeps == IInv /\ UNCHANGED vars => IInv'
  <1> SUFFICES ASSUME IInv, UNCHANGED vars PROVE IInv'
    OBVIOUS
  <1>1. UNCHANGED <<mq, native, submissions, consent, unasked, owner, gone, faults>>
    BY DEF vars
  <1>2. Ledger' = Ledger
    BY <1>1, SameLedger
  <1>3. Object(mq', Ledger', consent) /\ Pumped(mq') /\ Onward(mq, mq')
    BY <1>1, <1>2, Parts DEF Onward
  <1> QED
    BY <1>1, <1>3, Parts, PlainStep DEF history

LEMMA NextKeeps == IInv /\ Next => IInv'
  <1> SUFFICES ASSUME IInv, Next PROVE IInv'
    OBVIOUS
  <1>1. CASE NativeContext \/ NativeSession \/ StateChanged \/ Dispose \/ Forget \/ Pause
    BY <1>1, NativeContextKeeps, NativeSessionKeeps, StateChangedKeeps, DisposeKeeps, ForgetKeeps, PauseStepKeeps
  <1>2. CASE \E d \in mq.dispatches : NativePrompt(d) \/ DispatchReturns(d)
    BY <1>2, NativePromptKeeps, DispatchReturnsKeeps
  <1>3. CASE \E p \in mq.interrupts : Interrupt(p)
    BY <1>3, InterruptStepKeeps
  <1>4. CASE \E r \in mq.restores : Restore(r)
    BY <1>4, RestoreKeeps
  <1>5. CASE \E m \in Messages :
               \/ ReserveDurable(m) \/ Reserve(m) \/ BindPreparation(m) \/ FailPreparation(m) \/ Ready(m)
               \/ RemoveMessage(m) \/ SendNow(m)
    BY <1>5, ReserveDurableKeeps, ReserveKeeps, BindPreparationKeeps, FailPreparationKeeps, ReadyStepKeeps,
       RemoveMessageKeeps, SendNowKeeps
  <1> QED
    BY <1>1, <1>2, <1>3, <1>4, <1>5 DEF Next

(* Whatever the object's methods, the native agent and the user do, in any *)
(* order and with whatever failing, the outbox keeps its invariant         *)
(* (MessageQueue: sync, pump, dispatch, interrupt, restore).               *)
THEOREM Invariance == Spec => []IInv
  <1>1. IInv /\ [Next]_vars => IInv'
    BY NextKeeps, StutterKeeps
  <1> QED
    BY InitKeeps, <1>1, PTL DEF Spec

-----------------------------------------------------------------------------
(* What follows from it.                                                   *)

(* No failed delivery, Stop, reconnect or restored outbox is followed by a *)
(* replay: what dispatch sends has been asked for in this context and not  *)
(* been withdrawn (dispatch, pump, pause, sync).                           *)
THEOREM NothingGoesUnasked == Spec => []NothingSentUnasked
  <1>1. IInv => NothingSentUnasked
    BY DEF IInv, NothingSentUnasked
  <1> QED
    BY Invariance, <1>1, PTL

LEMMA Typing == ASSUME IInv PROVE TypeOK
  <1>0. /\ mq \in Queue /\ Dated(mq) /\ Home(mq, Ledger) /\ Bounded /\ unasked = {}
        /\ native \in ClientState /\ consent \subseteq Messages /\ gone \subseteq Messages
    BY Parts DEF Object, Base
  <1>1. PICK q : q = mq
    OBVIOUS
  <1>2. /\ q.account \in Accounts \cup {None} /\ q.generation \in Nat /\ q.state \in ClientState
        /\ q.items \in Seq(QueuedMessage) /\ q.saved \in [Accounts -> Seq(QueuedMessage)]
        /\ q.paused \in BOOLEAN /\ q.loading \in BOOLEAN /\ q.partial \in BOOLEAN /\ q.clobbered \in BOOLEAN
        /\ q.freshSends \subseteq Messages /\ q.payloads \subseteq Accounts \X Messages
        /\ q.dispatches \subseteq Calls
        /\ q.interrupts \subseteq [serial : Nat, generation : Nat, at : {"cancel", "state"}]
        /\ q.restores \subseteq [generation : Nat, account : Accounts, rest : Seq(QueuedMessage)]
        /\ q.interruption \in Interruption \cup {None} /\ q.serial \in Nat
    BY <1>0, <1>1, FieldTypes
  <1>3. Dated(q) /\ q.generation <= MaxGeneration /\ q.serial <= MaxInterrupts
    BY <1>0, <1>1 DEF Bounded
  <1>4. MaxGeneration \in Nat /\ MaxInterrupts \in Nat
    BY QueueAssumption
  <1>5. q.generation \in 0..MaxGeneration
    BY ONLY <1>2, <1>3, <1>4
  <1>6. \A items \in {q.items} \cup Range(q.saved) :
            /\ items \in Seq(QueuedMessage)
            /\ \A j, k \in DOMAIN items : items[j].id = items[k].id => j = k
    BY <1>0, <1>1, <1>2 DEF Home, Distinct, Range
  <1>7. q.dispatches \subseteq Dispatches
    <2>1. ASSUME NEW d \in q.dispatches PROVE d \in Dispatches
      <3>1. d \in Calls /\ d.generation <= q.generation
        BY <1>2, <1>3 DEF Dated
      <3>2. d.generation \in 0..MaxGeneration
        BY ONLY <1>2, <1>3, <1>4, <3>1 DEF Calls
      <3> QED
        BY ONLY <3>1, <3>2 DEF Calls, Dispatches
    <2> QED
      BY <2>1
  <1>8. q.interrupts \subseteq Interrupts
    <2>1. ASSUME NEW p \in q.interrupts PROVE p \in Interrupts
      <3>1. /\ p \in [serial : Nat, generation : Nat, at : {"cancel", "state"}]
            /\ p.generation <= q.generation /\ p.serial \in 1..q.serial
        BY <1>2, <1>3 DEF Dated
      <3>2. p.generation \in 0..MaxGeneration /\ p.serial \in 1..MaxInterrupts
        BY ONLY <1>2, <1>3, <1>4, <1>5, <3>1
      <3> QED
        BY ONLY <3>1, <3>2 DEF Interrupts
    <2> QED
      BY <2>1
  <1>9. q.restores \subseteq Restores
    <2>1. ASSUME NEW r \in q.restores PROVE r \in Restores
      <3>1. /\ r \in [generation : Nat, account : Accounts, rest : Seq(QueuedMessage)]
            /\ r.generation <= q.generation
        BY <1>2, <1>3 DEF Dated
      <3>2. r.generation \in 0..MaxGeneration
        BY ONLY <1>2, <1>3, <1>4, <3>1
      <3> QED
        BY ONLY <3>1, <3>2 DEF Restores
    <2> QED
      BY <2>1
  <1>10. q.interruption = None \/
            q.interruption \in [serial : 1..MaxInterrupts, id : Messages \cup {None}, ready : BOOLEAN]
    <2>1. CASE q.interruption # None
      <3>1. q.interruption \in Interruption /\ q.interruption.serial \in 1..q.serial
        BY <1>2, <1>3, <2>1 DEF Dated
      <3>2. q.interruption.serial \in 1..MaxInterrupts
        BY ONLY <1>2, <1>3, <1>4, <3>1
      <3> QED
        BY ONLY <3>1, <3>2 DEF Interruption
    <2> QED
      BY <2>1
  <1>11. q.freshSends \cup consent \cup unasked \cup gone \subseteq Messages
    BY <1>0, <1>2
  <1>12. {q.paused, q.loading, q.partial, q.clobbered} \subseteq BOOLEAN
    BY ONLY <1>2
  <1> QED
    BY ONLY <1>0, <1>1, <1>2, <1>5, <1>6, <1>7, <1>8, <1>9, <1>10, <1>11, <1>12 DEF TypeOK

(* Whether pump, sendNow, ready or an interruption starts it, the thread   *)
(* never has two dispatches of its context, and every field keeps its type *)
(* and its bound.                                                          *)
THEOREM OneDispatch == Spec => []OneDispatchAtATime
  <1>1. ASSUME IInv PROVE OneDispatchAtATime
    <2>1. PICK S : S = {d \in mq.dispatches : Current(mq, d)}
      OBVIOUS
    <2>2. \A d, e \in S : d = e
      BY <1>1, <2>1, Parts DEF Object, Flow, One
    <2>3. CASE S = {}
      <3>1. Cardinality(S) = 0
        BY <2>3, FS_EmptySet
      <3> QED
        BY <1>1, <2>1, <3>1, Typing DEF OneDispatchAtATime
    <2>4. CASE S # {}
      <3>1. PICK d : S = {d}
        BY <2>2, <2>4
      <3>2. Cardinality(S) = 1
        BY <3>1, FS_Singleton
      <3> QED
        BY <1>1, <2>1, <3>2, Typing DEF OneDispatchAtATime
    <2> QED
      BY <2>3, <2>4
  <1>2. IInv => OneDispatchAtATime
    BY <1>1
  <1> QED
    BY Invariance, <1>2, PTL

(* No restore, reserve or dispatch that returns after an account change    *)
(* brings a message into another account's queue or storage.               *)
THEOREM MessagesStayHome == Spec => []MessagesStayWithTheirAccount
  <1>1. ASSUME IInv PROVE MessagesStayWithTheirAccount
    <2>1. Home(mq, Ledger)
      BY <1>1, Parts DEF Object, Base
    <2> QED
      BY <2>1, LedgerFacts DEF Home, Belongs, MessagesStayWithTheirAccount
  <1>2. IInv => MessagesStayWithTheirAccount
    BY <1>1
  <1> QED
    BY Invariance, <1>2, PTL

(* Failing writes, context changes and abandoned dispatches lose nothing:  *)
(* what the transcript has not acknowledged and the user has not removed   *)
(* stays in storage with its payload, until a save replaces an outbox that *)
(* was not read back (reserveDurable, save, cleanup).                      *)
THEOREM OutboxSurvives == Spec => []OutboxIsDurable
  <1>1. ASSUME IInv PROVE OutboxIsDurable
    <2>1. Home(mq, Ledger) /\ Durable(mq, Ledger) /\ Submitted
      BY <1>1, Parts DEF Object, Base
    <2>2. ASSUME ~mq.clobbered PROVE OnlyAcknowledgementRemoves
      <3>1. ASSUME NEW m \in Messages, submissions[m].at \in {"reserved", "done"}, m \notin gone \cup native.rows
            PROVE  m \in Ids(mq.saved[owner[m]])
        <4>1. owner[m] \in Accounts
          BY <2>1, <3>1 DEF Submitted
        <4>2. m \in OwedTo(Ledger, owner[m])
          BY <3>1, LedgerFacts DEF OwedTo, Taken
        <4> QED
          BY <2>1, <2>2, <4>1, <4>2 DEF Durable
      <3> QED
        BY <3>1 DEF OnlyAcknowledgementRemoves
    <2>3. SavedPayloadsExist
      BY <2>1 DEF Home, SavedPayloadsExist
    <2> QED
      BY <2>2, <2>3 DEF OutboxIsDurable
  <1>2. IInv => OutboxIsDurable
    BY <1>1
  <1> QED
    BY Invariance, <1>2, PTL

(* A message waiting for "send now" always has what will release it ahead  *)
(* of it: an answer to cancel or getState, the end of the reply or of its  *)
(* prompt, or the rest of the outbox (sendNow, interrupt, pump).           *)
THEOREM SendNowProceeds == Spec => []SendNowIsDriven
  <1>1. ASSUME IInv PROVE SendNowIsDriven
    <2>1. Stopping(mq) /\ Awaited(mq) /\ Pumped(mq)
      BY <1>1, Parts DEF Object, Flow
    <2>2. ASSUME NEW m \in Messages, Has(mq, m, "stopping")
          PROVE  /\ mq.interruption # None /\ mq.interruption.id = m
                 /\ \/ \E p \in mq.interrupts : Owns(p)
                    \/ \E r \in mq.restores : Current(mq, r)
                    \/ mq.interruption.ready /\ ~Idle(mq)
      <3>1. PICK k \in DOMAIN mq.items : mq.items[k].id = m /\ mq.items[k].status = "stopping"
        BY <2>2, ItemOfFacts DEF Has
      <3>2. mq.interruption # None /\ mq.interruption.id = m
        BY <2>1, <3>1 DEF Stopping
      <3>3. CASE mq.interruption.ready
        BY <2>1, <3>1, <3>2, <3>3 DEF Pumped
      <3>4. CASE ~mq.interruption.ready
        BY <2>1, <3>2, <3>4 DEF Awaited, Owns
      <3> QED
        BY <3>2, <3>3, <3>4
    <2> QED
      BY <2>2 DEF SendNowIsDriven
  <1>2. IInv => SendNowIsDriven
    BY <1>1
  <1> QED
    BY Invariance, <1>2, PTL
=============================================================================
