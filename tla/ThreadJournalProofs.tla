-------------------------- MODULE ThreadJournalProofs --------------------------
(***************************************************************************)
(* One thread of the local database, for any number of processes, turns,   *)
(* requests and events: what is unfinished has a driver, what is marked    *)
(* verified is the whole of a verified response, a revision removes only   *)
(* what its user saw, and the database implements the abstract transcript. *)
(***************************************************************************)
EXTENDS ThreadJournal, FiniteSetTheorems, WellFoundedInduction, TLAPS

-----------------------------------------------------------------------------
(* The inductive invariant.                                                *)

(* A driver has a turn of its own, which has begun and runs unless another *)
(* process interrupted it; a process that revises is idle, and one that    *)
(* waits for its user is at a tool.                                        *)
Drivers ==
    /\ \A p \in Processes : Driving(p) <=> process[p].turn # 0
    /\ \A p, q \in Processes :
         process[p].turn # 0 /\ process[p].turn = process[q].turn => p = q
    /\ \A p \in Processes : process[p].at = "turn" =>
         /\ turns[process[p].turn] # "absent"
         /\ turns[process[p].turn] = "running" \/ process[p].turn \in disowned
    /\ \A p \in Processes : process[p].revise # 0 => process[p].at = "idle"
    /\ \A p \in Processes :
         process[p].lifecycle \in {"waiting_for_approval", "waiting_for_answer"} =>
            process[p].phase \in {"proposed", "tool"}

(* The tool that a driver runs has its row, unless a revision cut it after *)
(* the turn was interrupted.                                               *)
ToolRows ==
    \A p \in Processes :
        process[p].at = "turn" /\ process[p].phase \in {"proposed", "tool", "declined"} =>
            \/ process[p].turn \in disowned
            \/ \E i \in DOMAIN items : items[i].kind = "tool" /\ items[i].call = process[p].turn

(* The request a driver streams is of its turn, not verified yet, and the  *)
(* only one of the turn that may run; it does run unless another process   *)
(* interrupted the turn.                                                   *)
Streams ==
    /\ \A p \in Processes : process[p].at = "turn" /\ process[p].phase = "request" =>
         /\ process[p].request \in Requests
         /\ requests[process[p].request].turn = process[p].turn
         /\ requests[process[p].request].state # "absent"
         /\ ~requests[process[p].request].verified
         /\ \/ requests[process[p].request].state = "running"
            \/ process[p].turn \in disowned
    /\ \A p \in Processes, r \in Requests :
         process[p].at = "turn" /\ requests[r].turn = process[p].turn /\ requests[r].state = "running"
            => process[p].phase = "request" /\ process[p].request = r

(* A request belongs to a turn that has begun.                             *)
RequestsBegun ==
    \A r \in Requests :
        /\ requests[r].state # "absent" =>
             requests[r].turn # 0 /\ turns[requests[r].turn] # "absent"
        /\ requests[r].state = "absent" => requests[r].turn = 0
        /\ requests[r].state \in {"absent", "running"} => ~requests[r].verified

(* A tool's row is one of its turn, unless it was inserted again after the *)
(* turn was interrupted; a turn has at most one prompt.                    *)
Shapes ==
    /\ \A i \in DOMAIN items : items[i].kind = "tool" =>
         items[i].turn = items[i].call \/ items[i].call \in disowned
    /\ \A i \in DOMAIN items : items[i].kind = "prompt" =>
         items[i].turn # 0 /\ turns[items[i].turn] # "absent"
    /\ \A i, j \in DOMAIN items :
         items[i].kind = "prompt" /\ items[j].kind = "prompt" /\ items[i].turn = items[j].turn => i = j

(* A row bound to a request holds text of that request only, and is marked *)
(* exactly when the request is verified; a row without one is not marked.  *)
Texts ==
    \A i \in DOMAIN items :
        /\ items[i].kind \notin {"assistant", "reasoning"} =>
             items[i].request = 0 /\ items[i].text = <<>>
        /\ items[i].request = 0 => ~items[i].verified
        /\ items[i].request # 0 =>
             /\ items[i].verified <=> requests[items[i].request].verified
             /\ items[i].verified => items[i].status = "completed"
        /\ \A k \in DOMAIN items[i].text :
             /\ items[i].request \in {0, items[i].text[k]}
             /\ requests[items[i].text[k]].state # "absent"
             /\ items[i].request = 0 => requests[items[i].text[k]].turn \in disowned

(* The pieces that are stored are those that were streamed. *)
Counted ==
    \A r \in Requests : IsFiniteSet(Pieces(items, r)) /\ Cardinality(Pieces(items, r)) = said[r]

(* An open row has a running turn, or a writer that was interrupted. *)
OpenRows ==
    \A i \in DOMAIN items : items[i].status = "open" =>
        \/ items[i].turn # 0 /\ turns[items[i].turn] = "running"
        \/ items[i].by \in disowned

(* A running turn has a driver, or lost it. *)
Driven ==
    \A t \in Turns : turns[t] = "running" =>
        t \in stranded \/ \E p \in Processes : Driving(p) /\ process[p].turn = t

(* A user who saw the current revision saw the current rows. *)
Views ==
    /\ revision # 0
    /\ \A p \in Processes :
         /\ view[p].revision <= revision
         /\ view[p].revision = revision => view[p].items = items

IInv ==
    /\ TypeOK /\ Drivers /\ ToolRows /\ Streams /\ RequestsBegun
    /\ Shapes /\ Texts /\ Counted /\ OpenRows /\ Driven /\ Views

-----------------------------------------------------------------------------
(* Sequences, maxima and positions.                                        *)

LEMMA SeqFacts ==
    ASSUME NEW S, NEW s \in Seq(S)
    PROVE  /\ Len(s) \in Nat /\ DOMAIN s = 1..Len(s)
           /\ \A i \in DOMAIN s : s[i] \in S
  OBVIOUS

LEMMA FunctionIsSeq ==
    ASSUME NEW S, NEW s \in Seq(S), NEW f \in [DOMAIN s -> S]
    PROVE  f \in Seq(S) /\ DOMAIN f = DOMAIN s
  <1>1. DOMAIN s = 1..Len(s) /\ Len(s) \in Nat
    OBVIOUS
  <1> QED
    BY <1>1

LEMMA AppendFacts ==
    ASSUME NEW S, NEW s \in Seq(S), NEW x \in S
    PROVE  /\ Append(s, x) \in Seq(S)
           /\ DOMAIN Append(s, x) = DOMAIN s \cup {Len(s) + 1}
           /\ Len(s) + 1 \notin DOMAIN s
           /\ \A i \in DOMAIN s : Append(s, x)[i] = s[i]
           /\ Append(s, x)[Len(s) + 1] = x
  OBVIOUS

LEMMA Least ==
    ASSUME NEW S, S \subseteq Nat, S # {}
    PROVE  \E m \in S : \A k \in S : m <= k
  <1>1. PICK m \in S : \A k \in S : ~(<<k, m>> \in OpToRel(<, Nat))
    BY NatLessThanWellFounded, WFMin
  <1>2. \A k \in S : ~(k < m)
    BY <1>1 DEF OpToRel
  <1> QED
    BY <1>2

LEMMA Greatest ==
    ASSUME NEW n \in Nat, NEW S, S \subseteq 1..n, S # {}
    PROVE  \E m \in S : \A k \in S : k <= m
  <1> DEFINE T == {d \in Nat : \E k \in S : d = n - k}
  <1>1. T # {}
    <2>1. PICK k \in S : TRUE
      OBVIOUS
    <2>2. n - k \in Nat
      BY <2>1
    <2> QED
      BY <2>2
  <1>2. PICK d \in T : \A e \in T : d <= e
    BY <1>1, Least
  <1>3. PICK m \in S : d = n - m
    OBVIOUS
  <1>4. ASSUME NEW k \in S PROVE k <= m
    <2>1. n - k \in T
      OBVIOUS
    <2>2. n - m <= n - k
      BY <1>2, <1>3, <2>1
    <2> QED
      BY <2>2
  <1> QED
    BY <1>4

LEMMA LastOfFacts ==
    ASSUME NEW n \in Nat, NEW S, S \subseteq 1..n
    PROVE  /\ LastOf(S) \in 0..n
           /\ LastOf(S) = 0 <=> S = {}
           /\ S # {} => LastOf(S) \in S /\ \A k \in S : k <= LastOf(S)
  <1>1. CASE S = {}
    BY <1>1 DEF LastOf
  <1>2. CASE S # {}
    <2>1. \E m \in S : \A k \in S : k <= m
      BY <1>2, Greatest
    <2>2. LastOf(S) \in S /\ \A k \in S : k <= LastOf(S)
      BY <1>2, <2>1 DEF LastOf
    <2>3. LastOf(S) \in 1..n
      BY <2>2
    <2>4. LastOf(S) \in 0..n /\ LastOf(S) # 0
      BY <2>3
    <2> QED
      BY <1>2, <2>2, <2>4
  <1> QED
    BY <1>1, <1>2

(* The places of the pieces depend on the texts only. *)
LEMMA PieceAt ==
    ASSUME NEW s, NEW r, NEW w
    PROVE  w \in Pieces(s, r) <=>
             \E i \in DOMAIN s : \E k \in DOMAIN s[i].text : w = <<i, k>> /\ s[i].text[k] = r
  BY DEF Pieces

LEMMA SameTexts ==
    ASSUME NEW s, NEW z, NEW r, DOMAIN s \subseteq DOMAIN z,
           \A i \in DOMAIN s : z[i].text = s[i].text,
           \A i \in DOMAIN z \ DOMAIN s : z[i].text = <<>>
    PROVE  Pieces(z, r) = Pieces(s, r)
  <1>1. ASSUME NEW w, w \in Pieces(s, r) PROVE w \in Pieces(z, r)
    BY <1>1, PieceAt
  <1>2. ASSUME NEW w, w \in Pieces(z, r) PROVE w \in Pieces(s, r)
    <2>1. PICK i \in DOMAIN z : \E k \in DOMAIN z[i].text : w = <<i, k>> /\ z[i].text[k] = r
      BY <1>2, PieceAt
    <2>2. i \in DOMAIN s
      BY <2>1
    <2> QED
      BY <2>1, <2>2, PieceAt
  <1> QED
    BY <1>1, <1>2

(* One more piece of r, as the last of row i. *)
OnePiece(s, z, i, old, r) ==
    /\ i \in DOMAIN z /\ old \in Seq(Requests) /\ r \in Requests
    /\ DOMAIN s \subseteq DOMAIN z /\ DOMAIN z \subseteq DOMAIN s \cup {i}
    /\ \A j \in DOMAIN s : j # i => z[j].text = s[j].text
    /\ old = IF i \in DOMAIN s THEN s[i].text ELSE <<>>
    /\ z[i].text = Append(old, r)

LEMMA MorePieces ==
    ASSUME NEW s, NEW z, NEW i, NEW old, NEW r, OnePiece(s, z, i, old, r)
    PROVE  /\ Pieces(z, r) = Pieces(s, r) \cup {<<i, Len(old) + 1>>}
           /\ <<i, Len(old) + 1>> \notin Pieces(s, r)
           /\ \A q \in Requests : q # r => Pieces(z, q) = Pieces(s, q)
  <1> USE DEF OnePiece
  <1>0. /\ DOMAIN z[i].text = DOMAIN old \cup {Len(old) + 1} /\ Len(old) + 1 \notin DOMAIN old
        /\ \A k \in DOMAIN old : z[i].text[k] = old[k]
        /\ z[i].text[Len(old) + 1] = r
    BY AppendFacts
  <1>1. ASSUME NEW q, NEW w, w \in Pieces(s, q) PROVE w \in Pieces(z, q) /\ w # <<i, Len(old) + 1>>
    <2>0. PICK j \in DOMAIN s : \E k \in DOMAIN s[j].text : w = <<j, k>> /\ s[j].text[k] = q
      BY <1>1, PieceAt
    <2>1. PICK k \in DOMAIN s[j].text : w = <<j, k>> /\ s[j].text[k] = q
      BY <2>0
    <2>2. CASE j # i
      BY <2>1, <2>2, PieceAt
    <2>3. CASE j = i
      <3>1. k \in DOMAIN old /\ old[k] = q
        BY <2>1, <2>3
      <3>2. k \in DOMAIN z[i].text /\ z[i].text[k] = q /\ k # Len(old) + 1
        BY <1>0, <3>1
      <3> QED
        BY <2>1, <2>3, <3>2, PieceAt
    <2> QED
      BY <2>2, <2>3
  <1>2. ASSUME NEW q, NEW w, w \in Pieces(z, q)
        PROVE  w \in Pieces(s, q) \/ (w = <<i, Len(old) + 1>> /\ q = r)
    <2>0. PICK j \in DOMAIN z : \E k \in DOMAIN z[j].text : w = <<j, k>> /\ z[j].text[k] = q
      BY <1>2, PieceAt
    <2>1. PICK k \in DOMAIN z[j].text : w = <<j, k>> /\ z[j].text[k] = q
      BY <2>0
    <2>2. CASE j # i
      BY <2>1, <2>2, PieceAt
    <2>3. CASE j = i /\ k = Len(old) + 1
      BY <1>0, <2>1, <2>3
    <2>4. CASE j = i /\ k # Len(old) + 1
      <3>1. k \in DOMAIN old /\ old[k] = q
        BY <1>0, <2>1, <2>4
      <3>2. i \in DOMAIN s /\ old = s[i].text
        <4>1. DOMAIN (<<>>) = {}
          OBVIOUS
        <4> QED
          BY <3>1, <4>1
      <3> QED
        BY <2>1, <2>4, <3>1, <3>2, PieceAt
    <2> QED
      BY <2>2, <2>3, <2>4
  <1>3. <<i, Len(old) + 1>> \in Pieces(z, r)
    BY <1>0, PieceAt
  <1>4. Pieces(z, r) = Pieces(s, r) \cup {<<i, Len(old) + 1>>}
    BY <1>1, <1>2, <1>3
  <1>5. <<i, Len(old) + 1>> \notin Pieces(s, r)
    BY <1>1
  <1>6. \A q \in Requests : q # r => Pieces(z, q) = Pieces(s, q)
    BY <1>1, <1>2
  <1> QED
    BY <1>4, <1>5, <1>6

-----------------------------------------------------------------------------
(* The rows.                                                               *)

Kinds == {"prompt", "steering", "assistant", "reasoning", "tool", "notice"}
Statuses == {"open", "completed", "ended"}

LEMMA Typed ==
    ASSUME TypeOK
    PROVE  /\ MaxTurns \in Nat /\ MaxRequests \in Nat /\ MaxEvents \in Nat /\ MaxOpens \in Nat
           /\ Len(items) \in Nat /\ DOMAIN items = 1..Len(items)
           /\ \A i \in DOMAIN items :
                /\ items[i] \in Item /\ items[i].turn \in 0..MaxTurns /\ items[i].kind \in Kinds
                /\ items[i].status \in Statuses /\ items[i].request \in 0..MaxRequests
                /\ items[i].verified \in BOOLEAN /\ items[i].text \in Seq(Requests)
                /\ items[i].call \in 0..MaxTurns /\ items[i].by \in Turns
           /\ \A r \in Requests :
                /\ requests[r].turn \in 0..MaxTurns /\ requests[r].verified \in BOOLEAN
                /\ requests[r].state \in {"absent", "running", "completed", "failed"}
           /\ \A p \in Processes :
                /\ process[p] \in Process /\ process[p].turn \in 0..MaxTurns
                /\ process[p].request \in 0..MaxRequests /\ process[p].revise \in 0..MaxTurns
                /\ process[p].image \in BOOLEAN
  <1>1. MaxTurns \in Nat /\ MaxRequests \in Nat /\ MaxEvents \in Nat /\ MaxOpens \in Nat
    BY JournalAssumption
  <1>2. Len(items) \in Nat /\ DOMAIN items = 1..Len(items) /\ \A i \in DOMAIN items : items[i] \in Item
    BY DEF TypeOK
  <1>3. \A i \in DOMAIN items :
          /\ items[i].turn \in 0..MaxTurns /\ items[i].kind \in Kinds
          /\ items[i].status \in Statuses /\ items[i].request \in 0..MaxRequests
          /\ items[i].verified \in BOOLEAN /\ items[i].text \in Seq(Requests)
          /\ items[i].call \in 0..MaxTurns /\ items[i].by \in Turns
    BY <1>2 DEF Item, Kinds, Statuses, Users
  <1>4. \A r \in Requests :
          /\ requests[r].turn \in 0..MaxTurns /\ requests[r].verified \in BOOLEAN
          /\ requests[r].state \in {"absent", "running", "completed", "failed"}
    BY DEF TypeOK
  <1>5. \A p \in Processes : process[p] \in Process
    BY DEF TypeOK
  <1>6. \A p \in Processes :
          /\ process[p].turn \in 0..MaxTurns
          /\ process[p].request \in 0..MaxRequests /\ process[p].revise \in 0..MaxTurns
          /\ process[p].image \in BOOLEAN
    BY <1>5 DEF Process
  <1> QED
    BY <1>1, <1>2, <1>3, <1>4, <1>5, <1>6

(* A driver's turn is one of the turns. *)
LEMMA TurnOfDriver ==
    ASSUME TypeOK, Drivers, NEW p \in Processes, Driving(p)
    PROVE  process[p].turn \in Turns
  <1>1. process[p].turn \in 0..MaxTurns /\ MaxTurns \in Nat
    BY Typed
  <1>2. process[p].turn # 0
    BY DEF Drivers
  <1> QED
    BY <1>1, <1>2 DEF Turns

LEMMA NewItemFacts ==
    ASSUME NEW t \in 0..MaxTurns, NEW kind \in Kinds, NEW s \in Statuses, NEW b \in Turns
    PROVE  /\ NewItem(t, kind, s, b) \in Item
           /\ NewItem(t, kind, s, b).turn = t /\ NewItem(t, kind, s, b).kind = kind
           /\ NewItem(t, kind, s, b).status = s /\ NewItem(t, kind, s, b).by = b
           /\ NewItem(t, kind, s, b).request = 0 /\ NewItem(t, kind, s, b).verified = FALSE
           /\ NewItem(t, kind, s, b).text = <<>> /\ NewItem(t, kind, s, b).call = 0
  <1>1. 0 \in 0..MaxTurns /\ 0 \in 0..MaxRequests /\ <<>> \in Seq(Requests)
    BY JournalAssumption
  <1> QED
    BY <1>1 DEF NewItem, Item, Kinds, Statuses, Users

(* A row of a tool or of a notice is changed or inserted. *)
RowOf(t, kind, call, s, b) == [NewItem(t, kind, s, b) EXCEPT !.call = call]

LEMMA FindItemFacts ==
    ASSUME TypeOK, NEW kind, NEW call
    PROVE  /\ FindItem(kind, call) # 0 =>
                /\ FindItem(kind, call) \in DOMAIN items
                /\ items[FindItem(kind, call)].kind = kind
                /\ items[FindItem(kind, call)].call = call
           /\ FindItem(kind, call) = 0 =>
                \A i \in DOMAIN items : ~(items[i].kind = kind /\ items[i].call = call)
  <1> DEFINE S == {i \in DOMAIN items : items[i].kind = kind /\ items[i].call = call}
  <1>1. S \subseteq 1..Len(items) /\ Len(items) \in Nat
    BY Typed
  <1>2. FindItem(kind, call) = LastOf(S)
    BY DEF FindItem
  <1>3. /\ LastOf(S) = 0 <=> S = {}
        /\ S # {} => LastOf(S) \in S
    <2> HIDE DEF S
    <2> QED
      BY <1>1, LastOfFacts
  <1> QED
    BY <1>2, <1>3

(* A step that leaves the places, kinds and texts of the rows alone, may   *)
(* append a row without text, and changes the state of tools and notices.  *)
Kept(i) ==
    /\ i \in DOMAIN items'
    /\ items'[i].turn = items[i].turn /\ items'[i].kind = items[i].kind
    /\ items'[i].call = items[i].call /\ items'[i].text = items[i].text
    /\ items'[i].request = items[i].request /\ items'[i].verified = items[i].verified

Justified(i) ==
    \/ items'[i].turn # 0 /\ turns[items'[i].turn] = "running"
    \/ items'[i].by \in disowned

RowsStep ==
    /\ items' \in Seq(Item)
    /\ \A i \in DOMAIN items :
         /\ Kept(i)
         /\ items'[i].status # items[i].status => items[i].kind \in {"tool", "notice"}
         /\ items'[i].status = "open" =>
              (items[i].status = "open" /\ items'[i].by = items[i].by) \/ Justified(i)
    /\ \A i \in DOMAIN items' \ DOMAIN items :
         /\ items'[i].kind \in {"steering", "tool", "notice"}
         /\ items'[i].text = <<>> /\ items'[i].request = 0 /\ items'[i].verified = FALSE
         /\ items'[i].kind = "tool" =>
              items'[i].turn = items'[i].call \/ items'[i].call \in disowned
         /\ items'[i].status = "open" => Justified(i)

LEMMA SetExternalStep ==
    ASSUME TypeOK, NEW kind \in {"tool", "notice"}, NEW call, NEW s \in Statuses, NEW b \in Turns,
           items' = SetExternal(kind, call, s, b),
           s = "open" => \A i \in DOMAIN items : items[i].kind = kind /\ items[i].call = call =>
                           (items[i].turn # 0 /\ turns[items[i].turn] = "running") \/ b \in disowned
    PROVE  /\ RowsStep
           /\ DOMAIN items' = DOMAIN items
  <1> DEFINE i == FindItem(kind, call)
  <1>0. items \in Seq(Item)
    BY DEF TypeOK
  <1>1. CASE i = 0
    <2>1. items' = items
      BY <1>1 DEF SetExternal
    <2> QED
      BY <1>0, <2>1 DEF RowsStep, Kept
  <1>2. CASE i # 0
    <2>1. i \in DOMAIN items /\ items[i].kind = kind /\ items[i].call = call
      BY <1>2, FindItemFacts
    <2>2. items' = [items EXCEPT ![i].status = s, ![i].by = b]
      BY <1>2 DEF SetExternal
    <2>3. /\ items' \in Seq(Item) /\ DOMAIN items' = DOMAIN items
          /\ \A j \in DOMAIN items : j # i => items'[j] = items[j]
          /\ Kept(i) /\ items'[i].status = s /\ items'[i].by = b
      <3>1. PICK k \in DOMAIN items : k = i
        BY <2>1
      <3>2. items' = [items EXCEPT ![k].status = s, ![k].by = b]
        BY <2>2, <3>1
      <3> HIDE DEF i
      <3>3. DOMAIN items' = DOMAIN items /\ \A j \in DOMAIN items : j # k => items'[j] = items[j]
        BY <3>2
      <3>4. items'[k] = [items[k] EXCEPT !.status = s, !.by = b] /\ items[k] \in Item
        BY <3>2, Typed
      <3>5. /\ items'[k] \in Item
            /\ items'[k].turn = items[k].turn /\ items'[k].kind = items[k].kind
            /\ items'[k].call = items[k].call /\ items'[k].text = items[k].text
            /\ items'[k].request = items[k].request /\ items'[k].verified = items[k].verified
            /\ items'[k].status = s /\ items'[k].by = b
        BY ONLY <3>4, s \in Statuses, b \in Turns DEF Item, Statuses
      <3>6. \A j \in DOMAIN items : items'[j] \in Item
        BY <3>3, <3>5, Typed
      <3>7. items' \in [DOMAIN items -> Item]
        BY <3>2, <3>6
      <3>8. items' \in Seq(Item)
        BY <1>0, <3>7, FunctionIsSeq
      <3> QED
        BY <3>1, <3>3, <3>5, <3>8 DEF Kept
    <2>4. items'[i].status = "open" => Justified(i)
      BY <2>1, <2>3 DEF Justified, Kept
    <2> HIDE DEF i
    <2>5. \A j \in DOMAIN items : j # i => Kept(j)
      BY <2>3 DEF Kept
    <2> QED
      BY <2>1, <2>3, <2>4, <2>5 DEF RowsStep
  <1> QED
    BY <1>1, <1>2

LEMMA AppendRowStep ==
    ASSUME TypeOK, NEW row \in Item, items' = Append(items, row),
           row.kind \in {"steering", "tool", "notice"},
           row.text = <<>>, row.request = 0, row.verified = FALSE,
           row.kind = "tool" => row.turn = row.call \/ row.call \in disowned,
           row.status = "open" => (row.turn # 0 /\ turns[row.turn] = "running") \/ row.by \in disowned
    PROVE  /\ RowsStep
           /\ \E i \in DOMAIN items' : items'[i] = row
  <1>0. items \in Seq(Item)
    BY DEF TypeOK
  <1>1. /\ items' \in Seq(Item) /\ DOMAIN items' = DOMAIN items \cup {Len(items) + 1}
        /\ \A i \in DOMAIN items : items'[i] = items[i]
        /\ items'[Len(items) + 1] = row
    BY <1>0, AppendFacts
  <1>2. \A i \in DOMAIN items' \ DOMAIN items : items'[i] = row
    BY <1>1
  <1> QED
    BY <1>1, <1>2 DEF RowsStep, Kept, Justified

LEMMA PutExternalStep ==
    ASSUME TypeOK, NEW kind \in {"tool", "notice"}, NEW call \in 0..MaxTurns, NEW t \in 0..MaxTurns,
           NEW b \in Turns,
           items' = PutExternal(kind, call, t, "open", b),
           \A i \in DOMAIN items : items[i].kind = kind /\ items[i].call = call =>
               (items[i].turn # 0 /\ turns[items[i].turn] = "running") \/ b \in disowned,
           FindItem(kind, call) = 0 =>
               /\ kind = "tool" => t = call \/ call \in disowned
               /\ (t # 0 /\ turns[t] = "running") \/ b \in disowned
    PROVE  /\ RowsStep
           /\ \E i \in DOMAIN items' : items'[i].kind = kind /\ items'[i].call = call
  <1>0. "open" \in Statuses /\ kind \in Kinds
    BY DEF Statuses, Kinds
  <1>1. CASE FindItem(kind, call) # 0
    <2>1. items' = SetExternal(kind, call, "open", b)
      BY <1>1 DEF PutExternal, SetExternal
    <2>2. RowsStep
      BY <1>0, <2>1, SetExternalStep
    <2>3. FindItem(kind, call) \in DOMAIN items /\ items[FindItem(kind, call)].kind = kind
          /\ items[FindItem(kind, call)].call = call
      BY <1>1, FindItemFacts
    <2> QED
      BY <2>2, <2>3 DEF RowsStep, Kept
  <1>2. CASE FindItem(kind, call) = 0
    <2> DEFINE row == RowOf(t, kind, call, "open", b)
    <2>1. items' = Append(items, row)
      BY <1>2 DEF PutExternal, RowOf
    <2>2. /\ row \in Item /\ row.turn = t /\ row.kind = kind /\ row.status = "open" /\ row.by = b
          /\ row.request = 0 /\ row.verified = FALSE /\ row.text = <<>> /\ row.call = call
      <3>1. 0 \in 0..MaxTurns /\ 0 \in 0..MaxRequests /\ <<>> \in Seq(Requests)
        BY JournalAssumption
      <3> QED
        BY <1>0, <3>1 DEF RowOf, NewItem, Item, Kinds, Statuses, Users
    <2> HIDE DEF row
    <2> QED
      BY <1>2, <2>1, <2>2, AppendRowStep
  <1> QED
    BY <1>1, <1>2

-----------------------------------------------------------------------------
(* What a step leaves alone.                                               *)

Lifecycles == {"ready", "running", "waiting_for_approval", "waiting_for_answer"}
Used == [events : 0..MaxEvents, opens : 0..MaxOpens]

(* Every transaction leaves the views behind. *)
LEMMA ViewsStep ==
    ASSUME TypeOK, Views, Advance,
           view' \in [Processes -> [revision : Nat, items : Seq(Item)]],
           \A p \in Processes : view'[p] \in {view[p], Unseen}
    PROVE  Views' /\ revision' \in Nat
  <1>1. revision \in Nat /\ \A p \in Processes : view[p].revision \in Nat
    BY DEF TypeOK
  <1>2. revision' \in {revision, revision + 1} /\ revision' # 0
    BY <1>1 DEF Advance, Views
  <1>3. \A p \in Processes : view[p].revision <= revision /\ view[p].revision # revision'
    BY <1>1 DEF Advance, Views
  <1>4. Unseen.revision = 0
    BY DEF Unseen
  <1>5. \A p \in Processes : view'[p].revision <= revision' /\ view'[p].revision # revision'
    <2> SUFFICES ASSUME NEW p \in Processes
                 PROVE  view'[p].revision <= revision' /\ view'[p].revision # revision'
      OBVIOUS
    <2>1. CASE view'[p] = view[p]
      BY <1>1, <1>2, <1>3, <2>1
    <2>2. CASE view'[p] = Unseen
      BY <1>1, <1>2, <1>4, <2>2
    <2> QED
      BY <2>1, <2>2
  <1> QED
    BY <1>1, <1>2, <1>5 DEF Views

LEMMA ViewsFrame ==
    ASSUME TypeOK, Views, UNCHANGED <<revision, items>>,
           \A p \in Processes : view'[p] \in {view[p], Unseen}
    PROVE  Views'
  <1>1. Unseen.revision = 0
    BY DEF Unseen
  <1>2. revision \in Nat
    BY DEF TypeOK
  <1> QED
    BY <1>1, <1>2 DEF Views

LEMMA RowsKeep ==
    ASSUME TypeOK, Shapes, Texts, Counted, OpenRows, RowsStep,
           UNCHANGED <<turns, requests, disowned, said>>
    PROVE  Shapes' /\ Texts' /\ Counted' /\ OpenRows'
  <1>0. /\ items' \in Seq(Item) /\ DOMAIN items \subseteq DOMAIN items'
        /\ \A i \in DOMAIN items : Kept(i)
    BY DEF RowsStep, Kept
  <1>1. Shapes'
    <2>1. \A i \in DOMAIN items' : items'[i].kind = "tool" =>
            items'[i].turn = items'[i].call \/ items'[i].call \in disowned
      BY <1>0 DEF Shapes, RowsStep, Kept
    <2>2. \A i \in DOMAIN items' : items'[i].kind = "prompt" => i \in DOMAIN items
      BY <1>0 DEF RowsStep
    <2>3. \A i \in DOMAIN items' : items'[i].kind = "prompt" =>
            items'[i].turn # 0 /\ turns[items'[i].turn] # "absent"
      BY <1>0, <2>2 DEF Shapes, Kept
    <2>4. \A i, j \in DOMAIN items' :
            items'[i].kind = "prompt" /\ items'[j].kind = "prompt" /\ items'[i].turn = items'[j].turn
              => i = j
      BY <1>0, <2>2 DEF Shapes, Kept
    <2> QED
      BY <2>1, <2>3, <2>4 DEF Shapes
  <1>2. Texts'
    <2> SUFFICES ASSUME NEW i \in DOMAIN items'
                 PROVE  /\ items'[i].kind \notin {"assistant", "reasoning"} =>
                             items'[i].request = 0 /\ items'[i].text = <<>>
                        /\ items'[i].request = 0 => ~items'[i].verified
                        /\ items'[i].request # 0 =>
                             /\ items'[i].verified <=> requests[items'[i].request].verified
                             /\ items'[i].verified => items'[i].status = "completed"
                        /\ \A k \in DOMAIN items'[i].text :
                             /\ items'[i].request \in {0, items'[i].text[k]}
                             /\ requests[items'[i].text[k]].state # "absent"
                             /\ items'[i].request = 0 => requests[items'[i].text[k]].turn \in disowned
      BY DEF Texts
    <2>1. CASE i \in DOMAIN items
      <3>1. Kept(i)
        BY <1>0, <2>1
      <3>2. items'[i].request # 0 => items'[i].status = items[i].status
        BY <2>1, <3>1 DEF RowsStep, Texts, Kept
      <3> QED
        BY <2>1, <3>1, <3>2 DEF Texts, Kept
    <2>2. CASE i \notin DOMAIN items
      <3>1. /\ items'[i].text = <<>> /\ items'[i].request = 0 /\ items'[i].verified = FALSE
        BY <2>2 DEF RowsStep
      <3>2. DOMAIN items'[i].text = {}
        BY <3>1
      <3> QED
        BY <3>1, <3>2
    <2> QED
      BY <2>1, <2>2
  <1>3. Counted'
    <2>1. \A i \in DOMAIN items : items'[i].text = items[i].text
      BY <1>0 DEF Kept
    <2>2. \A i \in DOMAIN items' \ DOMAIN items : items'[i].text = <<>>
      BY DEF RowsStep
    <2>3. \A r \in Requests : Pieces(items', r) = Pieces(items, r)
      BY <1>0, <2>1, <2>2, SameTexts
    <2> QED
      BY <2>3 DEF Counted
  <1>4. OpenRows'
    <2> SUFFICES ASSUME NEW i \in DOMAIN items', items'[i].status = "open"
                 PROVE  \/ items'[i].turn # 0 /\ turns[items'[i].turn] = "running"
                        \/ items'[i].by \in disowned
      BY DEF OpenRows
    <2>1. CASE i \in DOMAIN items
      <3>1. (items[i].status = "open" /\ items'[i].by = items[i].by) \/ Justified(i)
        BY <2>1 DEF RowsStep
      <3> QED
        BY <1>0, <2>1, <3>1 DEF OpenRows, Justified, Kept
    <2>2. CASE i \notin DOMAIN items
      BY <2>2 DEF RowsStep, Justified
    <2> QED
      BY <2>1, <2>2
  <1> QED
    BY <1>1, <1>2, <1>3, <1>4

(* A driver goes on with its turn. *)
GoesOn(p) ==
    /\ process' \in [Processes -> Process]
    /\ \A q \in Processes : q # p => process'[q] = process[q]
    /\ process'[p].at = "turn" /\ process'[p].turn = process[p].turn
    /\ process'[p].revise = process[p].revise
    /\ process'[p].lifecycle \in {"waiting_for_approval", "waiting_for_answer"} =>
         process'[p].phase \in {"proposed", "tool"}

LEMMA DriversGoOn ==
    ASSUME TypeOK, Drivers, Driven, NEW p \in Processes, process[p].at = "turn", GoesOn(p),
           UNCHANGED <<turns, disowned, stranded>>
    PROVE  Drivers' /\ Driven'
  <1>1. \A q \in Processes : process'[q].turn = process[q].turn /\ process'[q].at = process[q].at
                             /\ process'[q].revise = process[q].revise
    BY DEF GoesOn
  <1>2. \A q \in Processes : Driving(q)' <=> Driving(q)
    BY <1>1 DEF Driving
  <1>3. \A q \in Processes :
          process'[q].lifecycle \in {"waiting_for_approval", "waiting_for_answer"} =>
            process'[q].phase \in {"proposed", "tool"}
    BY DEF Drivers, GoesOn
  <1> QED
    BY <1>1, <1>2, <1>3 DEF Drivers, Driven

LEMMA ToolRowsGoOn ==
    ASSUME TypeOK, ToolRows, NEW p \in Processes, GoesOn(p), UNCHANGED disowned,
           \A i \in DOMAIN items :
               i \in DOMAIN items' /\ items'[i].kind = items[i].kind /\ items'[i].call = items[i].call,
           process'[p].phase \in {"proposed", "tool", "declined"} =>
               \/ process[p].turn \in disowned
               \/ \E i \in DOMAIN items' :
                    items'[i].kind = "tool" /\ items'[i].call = process[p].turn
    PROVE  ToolRows'
  <1> SUFFICES ASSUME NEW q \in Processes, process'[q].at = "turn",
                      process'[q].phase \in {"proposed", "tool", "declined"}
               PROVE  \/ process'[q].turn \in disowned
                      \/ \E i \in DOMAIN items' :
                           items'[i].kind = "tool" /\ items'[i].call = process'[q].turn
    BY DEF ToolRows
  <1>1. CASE q = p
    BY <1>1 DEF GoesOn
  <1>2. CASE q # p
    BY <1>2 DEF GoesOn, ToolRows
  <1> QED
    BY <1>1, <1>2

(* An event of a driver that does not stream: rows change, and its place   *)
(* in the turn.                                                            *)
LEMMA RowEvent ==
    ASSUME IInv, NEW p \in Processes, process[p].at = "turn", process[p].phase # "request",
           RowsStep, Advance, GoesOn(p), process'[p].phase # "request",
           UNCHANGED <<turns, requests, view, ghosts>>,
           lifecycle' \in Lifecycles, used' \in Used,
           process'[p].phase \in {"proposed", "tool", "declined"} =>
               \/ process[p].turn \in disowned
               \/ \E i \in DOMAIN items' :
                    items'[i].kind = "tool" /\ items'[i].call = process[p].turn
    PROVE  IInv'
  <1> USE DEF IInv
  <1>0. UNCHANGED <<disowned, stranded, said>>
    BY DEF ghosts
  <1>1. Views' /\ revision' \in Nat
    BY ViewsStep DEF TypeOK
  <1>2. TypeOK'
    BY <1>0, <1>1 DEF TypeOK, RowsStep, GoesOn, Lifecycles, Used
  <1>3. Drivers' /\ Driven'
    BY <1>0, DriversGoOn
  <1>4. \A i \in DOMAIN items :
          i \in DOMAIN items' /\ items'[i].kind = items[i].kind /\ items'[i].call = items[i].call
    BY DEF RowsStep, Kept
  <1>5. ToolRows'
    BY <1>0, <1>4, ToolRowsGoOn
  <1>6. Streams'
    BY <1>0 DEF Streams, GoesOn
  <1>7. RequestsBegun'
    BY DEF RequestsBegun
  <1>8. Shapes' /\ Texts' /\ Counted' /\ OpenRows'
    BY <1>0, RowsKeep
  <1> QED
    BY <1>1, <1>2, <1>3, <1>5, <1>6, <1>7, <1>8

-----------------------------------------------------------------------------
(* The events of a turn that write whole rows.                             *)

Phases == {"boundary", "request", "answered", "proposed", "tool", "declined", "error"}

LEMMA GotoFacts ==
    ASSUME TypeOK, NEW p \in Processes, process[p].at = "turn", process[p].lifecycle = "running",
           NEW phase \in Phases, Goto(p, phase)
    PROVE  GoesOn(p) /\ process'[p].phase = phase
  <1>1. process[p] \in Process /\ process'[p] = [process[p] EXCEPT !.phase = phase]
    BY DEF TypeOK, Goto
  <1>2. /\ process'[p] \in Process /\ process'[p].at = process[p].at
        /\ process'[p].turn = process[p].turn /\ process'[p].revise = process[p].revise
        /\ process'[p].phase = phase /\ process'[p].lifecycle = process[p].lifecycle
    BY ONLY <1>1, phase \in Phases DEF Process, Phases
  <1>3. /\ \A q \in Processes : q # p => process'[q] = process[q]
        /\ DOMAIN process' = Processes /\ process' = [q \in Processes |-> process'[q]]
    BY DEF TypeOK, Goto
  <1>4. \A q \in Processes : process'[q] \in Process
    BY <1>2, <1>3 DEF TypeOK
  <1> QED
    BY <1>2, <1>3, <1>4 DEF GoesOn

LEMMA SpendFacts ==
    ASSUME TypeOK, Spend \/ UNCHANGED used PROVE used' \in Used
  <1>1. used \in Used /\ MaxEvents \in Nat /\ used.events \in 0..MaxEvents
    BY JournalAssumption DEF TypeOK, Used
  <1>2. CASE Spend
    <2>1. used' = [used EXCEPT !.events = used.events + 1] /\ used.events + 1 \in 0..MaxEvents
      BY <1>1, <1>2 DEF Spend
    <2> QED
      BY <1>1, <2>1 DEF Used
  <1> QED
    BY <1>1, <1>2

LEMMA ActiveTurnFacts ==
    ASSUME TypeOK
    PROVE  /\ ActiveTurn \in 0..MaxTurns
           /\ (\E t \in Turns : turns[t] = "running") =>
                ActiveTurn # 0 /\ turns[ActiveTurn] = "running"
  <1> DEFINE S == {t \in Turns : turns[t] = "running"}
  <1>1. S \subseteq 1..MaxTurns /\ MaxTurns \in Nat
    BY Typed DEF Turns
  <1>2. ActiveTurn = LastOf(S)
    BY DEF ActiveTurn
  <1>3. /\ LastOf(S) \in 0..MaxTurns /\ (LastOf(S) = 0 <=> S = {})
        /\ S # {} => LastOf(S) \in S
    <2> HIDE DEF S
    <2> QED
      BY <1>1, LastOfFacts
  <1> QED
    BY <1>2, <1>3

LEMMA DriverRunning ==
    ASSUME TypeOK, Drivers, NEW p \in Processes, process[p].at = "turn"
    PROVE  /\ process[p].turn \in Turns /\ process[p].turn \in 0..MaxTurns /\ process[p].turn # 0
           /\ turns[process[p].turn] = "running" \/ process[p].turn \in disowned
  <1>1. Driving(p)
    BY DEF Driving
  <1> QED
    BY <1>1, TurnOfDriver, Typed DEF Drivers

LEMMA SteerKeeps ==
    ASSUME IInv, NEW p \in Processes, Steer(p) PROVE IInv'
  <1> DEFINE t == process[p].turn
             row == NewItem(t, "steering", "completed", t)
  <1>0. /\ process[p].at = "turn" /\ process[p].lifecycle = "running"
        /\ process[p].phase # "request" /\ Goto(p, "boundary")
        /\ items' = Append(items, row) /\ Advance /\ Spend
        /\ UNCHANGED <<lifecycle, turns, requests, view, ghosts>>
    BY DEF Steer, InTurn
  <1>1. t \in Turns /\ t \in 0..MaxTurns
    BY <1>0, DriverRunning DEF IInv
  <1>2. /\ row \in Item /\ row.kind = "steering" /\ row.text = <<>> /\ row.request = 0
        /\ row.verified = FALSE /\ row.status = "completed"
    <2>1. 0 \in 0..MaxTurns /\ 0 \in 0..MaxRequests /\ <<>> \in Seq(Requests)
      BY JournalAssumption
    <2> HIDE DEF t
    <2> QED
      BY ONLY <1>1, <2>1 DEF NewItem, Item, Users
  <1>3. RowsStep
    <2> HIDE DEF row
    <2> QED
      BY <1>0, <1>2, AppendRowStep DEF IInv
  <1>4. GoesOn(p) /\ process'[p].phase = "boundary"
    BY <1>0, GotoFacts DEF IInv, Phases
  <1>5. lifecycle' \in Lifecycles /\ used' \in Used
    BY <1>0, SpendFacts DEF IInv, TypeOK, Lifecycles
  <1> QED
    BY <1>0, <1>3, <1>4, <1>5, RowEvent

LEMMA ProposeToolKeeps ==
    ASSUME IInv, NEW p \in Processes, ProposeTool(p) PROVE IInv'
  <1>0. PICK t : t = process[p].turn
    OBVIOUS
  <1>1. /\ process[p].at = "turn" /\ process[p].lifecycle = "running"
        /\ process[p].phase # "request" /\ Goto(p, "proposed")
        /\ items' = PutExternal("tool", t, t, "open", t) /\ FindItem("tool", t) = 0 /\ Advance
        /\ Spend /\ UNCHANGED <<lifecycle, turns, requests, view, ghosts>>
    BY <1>0 DEF ProposeTool, InTurn
  <1>2. t \in Turns /\ t \in 0..MaxTurns /\ t # 0 /\ (turns[t] = "running" \/ t \in disowned)
    BY <1>0, <1>1, DriverRunning DEF IInv
  <1>3. \A i \in DOMAIN items : ~(items[i].kind = "tool" /\ items[i].call = t)
    BY <1>1, FindItemFacts DEF IInv
  <1>4. /\ RowsStep
        /\ \E i \in DOMAIN items' : items'[i].kind = "tool" /\ items'[i].call = t
    BY <1>1, <1>2, <1>3, PutExternalStep DEF IInv
  <1>5. GoesOn(p) /\ process'[p].phase = "proposed"
    BY <1>1, GotoFacts DEF IInv, Phases
  <1>6. lifecycle' \in Lifecycles /\ used' \in Used
    BY <1>1, SpendFacts DEF IInv, TypeOK, Lifecycles
  <1> QED
    BY <1>0, <1>1, <1>4, <1>5, <1>6, RowEvent

LEMMA RunToolKeeps ==
    ASSUME IInv, NEW p \in Processes, RunTool(p) PROVE IInv'
  <1>0. PICK t, phase : t = process[p].turn
                        /\ phase = IF process[p].phase = "declined" THEN "declined" ELSE "tool"
    OBVIOUS
  <1>1. /\ process[p].at = "turn" /\ process[p].lifecycle = "running"
        /\ process[p].phase \in {"proposed", "tool", "declined"}
        /\ Goto(p, phase) /\ phase \in {"tool", "declined"}
        /\ items' = PutExternal("tool", t, ActiveTurn, "open", t) /\ Advance
        /\ UNCHANGED <<lifecycle, turns, requests, view, ghosts, used>>
    BY <1>0 DEF RunTool, InTurn
  <1>2. t \in Turns /\ t \in 0..MaxTurns /\ t # 0 /\ (turns[t] = "running" \/ t \in disowned)
    BY <1>0, <1>1, DriverRunning DEF IInv
  <1>3. PICK a \in 0..MaxTurns : a = ActiveTurn
    BY ActiveTurnFacts DEF IInv
  <1>4. \A i \in DOMAIN items : items[i].kind = "tool" /\ items[i].call = t =>
          (items[i].turn # 0 /\ turns[items[i].turn] = "running") \/ t \in disowned
    BY <1>2 DEF IInv, Shapes
  <1>5. FindItem("tool", t) = 0 => t \in disowned
    BY <1>0, <1>1, FindItemFacts DEF IInv, ToolRows
  <1>6. /\ RowsStep
        /\ \E i \in DOMAIN items' : items'[i].kind = "tool" /\ items'[i].call = t
    BY <1>1, <1>2, <1>3, <1>4, <1>5, PutExternalStep DEF IInv
  <1>7. GoesOn(p) /\ process'[p].phase = phase
    BY <1>1, GotoFacts DEF IInv, Phases
  <1>8. lifecycle' \in Lifecycles /\ used' \in Used
    BY <1>1, SpendFacts DEF IInv, TypeOK, Lifecycles
  <1> QED
    BY <1>0, <1>1, <1>6, <1>7, <1>8, RowEvent

LEMMA CompleteToolKeeps ==
    ASSUME IInv, NEW p \in Processes, NEW success \in BOOLEAN, CompleteTool(p, success) PROVE IInv'
  <1>0. PICK t, s, phase :
          /\ t = process[p].turn /\ s = (IF success THEN "completed" ELSE "ended")
          /\ phase = IF ~process[p].image THEN "boundary" ELSE IF success THEN "answered" ELSE "error"
    OBVIOUS
  <1>1. /\ process[p].at = "turn" /\ process[p].lifecycle = "running"
        /\ process[p].phase = "tool"
        /\ Goto(p, phase) /\ phase \in {"boundary", "answered", "error"}
        /\ items' = SetExternal("tool", t, s, t) /\ s \in Statuses /\ s # "open" /\ Advance
        /\ UNCHANGED <<lifecycle, turns, requests, view, ghosts, used>>
    BY <1>0 DEF CompleteTool, InTurn, Statuses
  <1>2. t \in Turns
    BY <1>0, <1>1, DriverRunning DEF IInv
  <1>3. RowsStep
    BY <1>1, <1>2, SetExternalStep DEF IInv
  <1>4. GoesOn(p) /\ process'[p].phase = phase
    BY <1>1, GotoFacts DEF IInv, Phases
  <1>5. lifecycle' \in Lifecycles /\ used' \in Used
    BY <1>1, SpendFacts DEF IInv, TypeOK, Lifecycles
  <1> QED
    BY <1>1, <1>3, <1>4, <1>5, RowEvent

LEMMA AskKeeps ==
    ASSUME IInv, NEW p \in Processes, Ask(p) PROVE IInv'
  <1>0. PICK t, w : t = process[p].turn
          /\ w = IF process[p].phase = "proposed" THEN "waiting_for_approval" ELSE "waiting_for_answer"
    OBVIOUS
  <1>1. /\ process[p].at = "turn" /\ process[p].phase \in {"proposed", "tool"}
        /\ process' = [process EXCEPT ![p].lifecycle = w]
        /\ w \in {"waiting_for_approval", "waiting_for_answer"} /\ lifecycle' = w
        /\ items' = PutExternal("notice", t, ActiveTurn, "open", t)
        /\ FindItem("notice", t) = 0 /\ Advance /\ Spend
        /\ UNCHANGED <<turns, requests, view, ghosts>>
    BY <1>0 DEF Ask, InTurn
  <1>2. t \in Turns /\ t \in 0..MaxTurns /\ t # 0 /\ (turns[t] = "running" \/ t \in disowned)
    BY <1>0, <1>1, DriverRunning DEF IInv
  <1>3. PICK a \in 0..MaxTurns : a = ActiveTurn
    BY ActiveTurnFacts DEF IInv
  <1>4. \A i \in DOMAIN items : ~(items[i].kind = "notice" /\ items[i].call = t)
    BY <1>1, FindItemFacts DEF IInv
  <1>5. (a # 0 /\ turns[a] = "running") \/ t \in disowned
    BY <1>2, <1>3, ActiveTurnFacts DEF IInv
  <1>6. RowsStep
    BY <1>1, <1>2, <1>3, <1>4, <1>5, PutExternalStep DEF IInv
  <1>7. GoesOn(p) /\ process'[p].phase = process[p].phase
    <2>1. process[p] \in Process /\ process'[p] = [process[p] EXCEPT !.lifecycle = w]
      BY <1>1 DEF IInv, TypeOK
    <2>2. /\ process'[p] \in Process /\ process'[p].at = process[p].at
          /\ process'[p].turn = process[p].turn /\ process'[p].revise = process[p].revise
          /\ process'[p].phase = process[p].phase
      BY ONLY <2>1, <1>1 DEF Process
    <2>3. /\ \A q \in Processes : q # p => process'[q] = process[q]
          /\ process' = [q \in Processes |-> process'[q]]
      BY <1>1 DEF IInv, TypeOK
    <2>4. \A q \in Processes : process'[q] \in Process
      BY <2>2, <2>3 DEF IInv, TypeOK
    <2> QED
      BY <1>1, <2>2, <2>3, <2>4 DEF GoesOn
  <1>8. process[p].phase \in {"proposed", "tool", "declined"} =>
          \/ process[p].turn \in disowned
          \/ \E i \in DOMAIN items' : items'[i].kind = "tool" /\ items'[i].call = process[p].turn
    BY <1>1, <1>6 DEF IInv, ToolRows, RowsStep, Kept
  <1>9. lifecycle' \in Lifecycles /\ used' \in Used
    BY <1>1, SpendFacts DEF IInv, Lifecycles
  <1> QED
    BY <1>1, <1>6, <1>7, <1>8, <1>9, RowEvent

LEMMA ResolveKeeps ==
    ASSUME IInv, NEW p \in Processes, NEW yes \in BOOLEAN, Resolve(p, yes) PROVE IInv'
  <1>0. PICK t, s, phase :
          /\ t = process[p].turn /\ s = (IF yes THEN "completed" ELSE "ended")
          /\ phase = IF ~yes /\ process[p].phase = "proposed" THEN "declined" ELSE process[p].phase
    OBVIOUS
  <1>a. process[p].at = "turn" /\ process[p].phase \in {"proposed", "tool"}
    BY DEF Resolve, IInv, Drivers
  <1>b. phase \in {"proposed", "tool", "declined"}
    BY <1>0, <1>a
  <1>1. /\ process[p].at = "turn"
        /\ process' = [process EXCEPT ![p].lifecycle = "running",
                           ![p].phase = IF ~yes /\ @ = "proposed" THEN "declined" ELSE @]
        /\ items' = SetExternal("notice", t, s, t) /\ s \in Statuses /\ s # "open" /\ Advance
        /\ lifecycle' = "running"
        /\ UNCHANGED <<turns, requests, view, ghosts, used>>
    BY <1>0 DEF Resolve, Statuses
  <1>2. t \in Turns
    BY <1>0, <1>1, DriverRunning DEF IInv
  <1>3. RowsStep
    BY <1>1, <1>2, SetExternalStep DEF IInv
  <1>4. GoesOn(p) /\ process'[p].phase = phase
    <2>1. /\ process[p] \in Process
          /\ process'[p] = [process[p] EXCEPT !.lifecycle = "running", !.phase = phase]
      BY <1>0, <1>1 DEF IInv, TypeOK, Process
    <2>2. /\ process'[p] \in Process /\ process'[p].at = process[p].at
          /\ process'[p].turn = process[p].turn /\ process'[p].revise = process[p].revise
          /\ process'[p].phase = phase
          /\ process'[p].lifecycle = "running"
      BY ONLY <2>1, <1>b DEF Process
    <2>3. /\ \A q \in Processes : q # p => process'[q] = process[q]
          /\ process' = [q \in Processes |-> process'[q]]
      BY <1>1 DEF IInv, TypeOK
    <2>4. \A q \in Processes : process'[q] \in Process
      BY <2>2, <2>3 DEF IInv, TypeOK
    <2> QED
      BY <1>1, <2>2, <2>3, <2>4 DEF GoesOn
  <1>5. \/ process[p].turn \in disowned
        \/ \E i \in DOMAIN items' : items'[i].kind = "tool" /\ items'[i].call = process[p].turn
    BY <1>1, <1>a, <1>3 DEF IInv, ToolRows, RowsStep, Kept
  <1>6. lifecycle' \in Lifecycles /\ used' \in Used
    BY <1>1, SpendFacts DEF IInv, Lifecycles
  <1> QED
    BY <1>1, <1>a, <1>b, <1>3, <1>4, <1>5, <1>6, RowEvent

-----------------------------------------------------------------------------
(* A process that comes, goes, or is between turns.                        *)

LEMMA RowsFrame ==
    ASSUME RequestsBegun, Shapes, Texts, Counted, OpenRows,
           UNCHANGED <<turns, items, requests, disowned, said>>
    PROVE  RequestsBegun' /\ Shapes' /\ Texts' /\ Counted' /\ OpenRows'
  <1>1. RequestsBegun'
    BY DEF RequestsBegun
  <1>2. Shapes'
    BY DEF Shapes
  <1>3. Texts'
    BY DEF Texts
  <1>4. Counted'
    BY DEF Counted
  <1>5. OpenRows'
    BY DEF OpenRows
  <1> QED
    BY <1>1, <1>2, <1>3, <1>4, <1>5

(* One process changes, and has no turn or one of its own. *)
Alone(p) ==
    /\ process' \in [Processes -> Process]
    /\ \A q \in Processes : q # p => process'[q] = process[q]
    /\ Driving(p)' <=> process'[p].turn # 0
    /\ process'[p].turn # 0 =>
         \A q \in Processes : q # p => process[q].turn # process'[p].turn
    /\ process'[p].revise # 0 => process'[p].at = "idle"
    /\ process'[p].lifecycle \in {"waiting_for_approval", "waiting_for_answer"} =>
         process'[p].phase \in {"proposed", "tool"}

LEMMA DriversStep ==
    ASSUME TypeOK, Drivers, NEW p \in Processes, Alone(p),
           process'[p].at = "turn" =>
             /\ turns'[process'[p].turn] # "absent"
             /\ turns'[process'[p].turn] = "running" \/ process'[p].turn \in disowned',
           \A q \in Processes : q # p /\ process[q].at = "turn" =>
             /\ turns'[process[q].turn] # "absent"
             /\ turns'[process[q].turn] = "running" \/ process[q].turn \in disowned'
    PROVE  Drivers'
  <1>1. \A q \in Processes : Driving(q)' <=> process'[q].turn # 0
    <2>1. ASSUME NEW q \in Processes, q # p PROVE Driving(q)' <=> process'[q].turn # 0
      BY <2>1 DEF Alone, Drivers, Driving
    <2> QED
      BY <2>1 DEF Alone
  <1>2. \A q, o \in Processes :
          process'[q].turn # 0 /\ process'[q].turn = process'[o].turn => q = o
    BY DEF Alone, Drivers
  <1>3. \A q \in Processes : process'[q].at = "turn" =>
          /\ turns'[process'[q].turn] # "absent"
          /\ turns'[process'[q].turn] = "running" \/ process'[q].turn \in disowned'
    BY DEF Alone
  <1>4. \A q \in Processes :
          /\ process'[q].revise # 0 => process'[q].at = "idle"
          /\ process'[q].lifecycle \in {"waiting_for_approval", "waiting_for_answer"} =>
               process'[q].phase \in {"proposed", "tool"}
    BY DEF Alone, Drivers
  <1> QED
    BY <1>1, <1>2, <1>3, <1>4 DEF Drivers

(* The rows of the others' tools and requests stay. *)
LEMMA OthersFrame ==
    ASSUME TypeOK, ToolRows, Streams, NEW p \in Processes, Alone(p),
           UNCHANGED <<items, requests, disowned>>,
           process'[p].at # "turn"
    PROVE  ToolRows' /\ Streams'
  <1>1. ToolRows'
    BY DEF Alone, ToolRows
  <1>2. Streams'
    <2>1. \A q \in Processes : process'[q].at = "turn" => q # p /\ process'[q] = process[q]
      BY DEF Alone
    <2> QED
      BY <2>1 DEF Streams
  <1> QED
    BY <1>1, <1>2

(* A process without a turn stays without one. *)
LEMMA IdleStep ==
    ASSUME IInv, NEW p \in Processes, Alone(p), ~Driving(p), process'[p].at \notin {"turn", "failing"},
           UNCHANGED <<turns, items, requests, ghosts>>,
           lifecycle' \in Lifecycles, used' \in Used, Views', revision' \in Nat,
           view' \in [Processes -> [revision : Nat, items : Seq(Item)]]
    PROVE  IInv'
  <1> USE DEF IInv
  <1>0. UNCHANGED <<disowned, stranded, said>>
    BY DEF ghosts
  <1>1. RequestsBegun' /\ Shapes' /\ Texts' /\ Counted' /\ OpenRows'
    BY <1>0, RowsFrame
  <1>2. ToolRows' /\ Streams'
    BY <1>0, OthersFrame
  <1>3. Drivers'
    <2>1. \A q \in Processes : q # p /\ process[q].at = "turn" =>
             /\ turns'[process[q].turn] # "absent"
             /\ turns'[process[q].turn] = "running" \/ process[q].turn \in disowned'
      BY <1>0 DEF Drivers
    <2> QED
      BY <2>1, DriversStep
  <1>4. Driven'
    <2>1. \A q \in Processes : Driving(q) => q # p /\ process'[q] = process[q]
      BY DEF Alone
    <2>2. \A q \in Processes : Driving(q) => Driving(q)' /\ process'[q].turn = process[q].turn
      BY <2>1 DEF Driving
    <2> QED
      BY <1>0, <2>2 DEF Driven
  <1>5. TypeOK'
    BY <1>0 DEF TypeOK, Alone, Lifecycles, Used
  <1> QED
    BY <1>1, <1>2, <1>3, <1>4, <1>5

LEMMA DownFacts ==
    /\ Down \in Process /\ Down.at = "down" /\ Down.turn = 0 /\ Down.revise = 0
    /\ Down.lifecycle = "none"
  <1>1. 0 \in 0..MaxTurns /\ 0 \in 0..MaxRequests
    BY JournalAssumption
  <1> QED
    BY <1>1 DEF Down, Process

LEMMA UnseenTyped == Unseen \in [revision : Nat, items : Seq(Item)]
  <1>1. <<>> \in Seq(Item)
    OBVIOUS
  <1> QED
    BY <1>1 DEF Unseen

(* One process is replaced by x. *)
LEMMA ReplaceFacts ==
    ASSUME TypeOK, NEW p \in Processes, NEW x \in Process, process' = [process EXCEPT ![p] = x]
    PROVE  /\ process' \in [Processes -> Process] /\ process'[p] = x
           /\ \A q \in Processes : q # p => process'[q] = process[q]
  BY DEF TypeOK

LEMMA ForgetFacts ==
    ASSUME TypeOK, NEW p \in Processes, view' = [view EXCEPT ![p] = Unseen]
    PROVE  /\ view' \in [Processes -> [revision : Nat, items : Seq(Item)]]
           /\ \A q \in Processes : view'[q] \in {view[q], Unseen}
  <1>1. Unseen \in [revision : Nat, items : Seq(Item)]
    BY UnseenTyped
  <1> HIDE DEF Unseen
  <1> QED
    BY <1>1 DEF TypeOK

LEMMA CrashKeeps ==
    ASSUME IInv, NEW p \in Processes, Crash(p) PROVE IInv'
  <1> USE DEF IInv
  <1>0. /\ process' = [process EXCEPT ![p] = Down] /\ view' = [view EXCEPT ![p] = Unseen]
        /\ stranded' = stranded \cup {t \in Turns : process[p].turn = t /\ turns[t] = "running"}
        /\ UNCHANGED <<revision, lifecycle, turns, items, requests, disowned, said, used>>
    BY DEF Crash, database
  <1>1. /\ process' \in [Processes -> Process] /\ process'[p] = Down
        /\ \A q \in Processes : q # p => process'[q] = process[q]
    BY <1>0, DownFacts, ReplaceFacts
  <1>2. Alone(p) /\ process'[p].at = "down"
    BY <1>1, DownFacts DEF Alone, Driving
  <1>3. view' \in [Processes -> [revision : Nat, items : Seq(Item)]] /\ Views'
    <2>1. /\ view' \in [Processes -> [revision : Nat, items : Seq(Item)]]
          /\ \A q \in Processes : view'[q] \in {view[q], Unseen}
      BY <1>0, ForgetFacts
    <2> QED
      BY <1>0, <2>1, ViewsFrame
  <1>4. RequestsBegun' /\ Shapes' /\ Texts' /\ Counted' /\ OpenRows'
    BY <1>0, RowsFrame
  <1>5. ToolRows' /\ Streams'
    BY <1>0, <1>2, OthersFrame
  <1>6. Drivers'
    <2>1. \A q \in Processes : q # p /\ process[q].at = "turn" =>
             /\ turns'[process[q].turn] # "absent"
             /\ turns'[process[q].turn] = "running" \/ process[q].turn \in disowned'
      BY <1>0 DEF Drivers
    <2> QED
      BY <1>2, <2>1, DriversStep
  <1>7. Driven'
    <2> SUFFICES ASSUME NEW t \in Turns, turns[t] = "running"
                 PROVE  t \in stranded' \/ \E q \in Processes : Driving(q)' /\ process'[q].turn = t
      BY <1>0 DEF Driven
    <2>1. CASE t \in stranded
      BY <1>0, <2>1
    <2>2. ASSUME NEW q \in Processes, Driving(q), process[q].turn = t
          PROVE  t \in stranded' \/ (Driving(q)' /\ process'[q].turn = t)
      <3>1. CASE q = p
        <4>1. t \in {s \in Turns : process[p].turn = s /\ turns[s] = "running"}
          BY <2>2, <3>1
        <4> QED
          BY <1>0, <4>1
      <3>2. CASE q # p
        BY <1>1, <2>2, <3>2 DEF Driving
      <3> QED
        BY <3>1, <3>2
    <2> QED
      BY <2>1, <2>2 DEF Driven
  <1>8. TypeOK'
    <2>1. stranded' \subseteq Turns
      BY <1>0 DEF TypeOK
    <2> QED
      BY <1>0, <1>1, <1>3, <2>1 DEF TypeOK
  <1> QED
    BY <1>3, <1>4, <1>5, <1>6, <1>7, <1>8

LEMMA LoadKeeps ==
    ASSUME IInv, NEW p \in Processes, Load(p) PROVE IInv'
  <1> USE DEF IInv
  <1>0. /\ process[p].at = "up" /\ lifecycle' = "ready" /\ Advance
        /\ process' = [process EXCEPT ![p].at = "idle", ![p].lifecycle = "ready"]
        /\ UNCHANGED <<turns, items, requests, view, ghosts, used>>
    BY DEF Load
  <1>1. process[p] \in Process /\ process'[p] = [process[p] EXCEPT !.at = "idle", !.lifecycle = "ready"]
    BY <1>0 DEF TypeOK
  <1>2. /\ process'[p] \in Process /\ process'[p].at = "idle" /\ process'[p].lifecycle = "ready"
        /\ process'[p].turn = process[p].turn
    BY ONLY <1>1 DEF Process
  <1>3. /\ \A q \in Processes : q # p => process'[q] = process[q]
        /\ process' = [q \in Processes |-> process'[q]]
    BY <1>0 DEF TypeOK
  <1>4. process' \in [Processes -> Process]
    <2>1. \A q \in Processes : process'[q] \in Process
      BY <1>2, <1>3 DEF TypeOK
    <2> QED
      BY <1>3, <2>1
  <1>5. ~Driving(p) /\ process[p].turn = 0
    BY <1>0 DEF Drivers, Driving
  <1>6. Alone(p)
    BY <1>2, <1>3, <1>4, <1>5 DEF Alone, Driving
  <1>7. /\ view' \in [Processes -> [revision : Nat, items : Seq(Item)]]
        /\ \A q \in Processes : view'[q] \in {view[q], Unseen}
    BY <1>0 DEF TypeOK
  <1>8. Views' /\ revision' \in Nat
    BY <1>0, <1>7, ViewsStep
  <1>9. lifecycle' \in Lifecycles /\ used' \in Used
    BY <1>0, SpendFacts DEF Lifecycles
  <1> QED
    BY <1>0, <1>2, <1>5, <1>6, <1>7, <1>8, <1>9, IdleStep

(* The user is shown the rows at their revision. *)
LEMMA LookKeeps ==
    ASSUME IInv, NEW p \in Processes, Look(p) PROVE IInv'
  <1> USE DEF IInv
  <1>0. /\ view' = [view EXCEPT ![p] = [revision |-> revision, items |-> items]] /\ Spend
        /\ UNCHANGED <<revision, lifecycle, turns, items, requests, process, disowned, stranded, said>>
    BY DEF Look, database, ghosts
  <1>1. view' \in [Processes -> [revision : Nat, items : Seq(Item)]]
    BY <1>0 DEF TypeOK
  <1>2. Views'
    <2>1. revision \in Nat
      BY DEF TypeOK
    <2>2. ASSUME NEW q \in Processes
          PROVE  view'[q].revision <= revision /\ (view'[q].revision = revision => view'[q].items = items)
      <3>1. CASE q = p
        <4>1. view'[q] = [revision |-> revision, items |-> items]
          BY <1>0, <3>1 DEF TypeOK
        <4> QED
          BY <2>1, <4>1
      <3>2. CASE q # p
        <4>1. view'[q] = view[q]
          BY <1>0, <3>2 DEF TypeOK
        <4> QED
          BY <4>1 DEF Views
      <3> QED
        BY <3>1, <3>2
    <2> QED
      BY <1>0, <2>2 DEF Views
  <1>3. RequestsBegun' /\ Shapes' /\ Texts' /\ Counted' /\ OpenRows'
    BY <1>0, RowsFrame
  <1>4. ToolRows' /\ Streams'
    BY <1>0 DEF ToolRows, Streams
  <1>5. Drivers' /\ Driven'
    <2>1. \A q \in Processes : Driving(q)' <=> Driving(q)
      BY <1>0 DEF Driving
    <2> QED
      BY <1>0, <2>1 DEF Drivers, Driven
  <1>6. TypeOK'
    BY <1>0, <1>1, SpendFacts DEF TypeOK, Used
  <1> QED
    BY <1>2, <1>3, <1>4, <1>5, <1>6

LEMMA AnnotateKeeps ==
    ASSUME IInv, NEW p \in Processes, Annotate(p) PROVE IInv'
  <1> USE DEF IInv
  <1>0. /\ Advance
        /\ UNCHANGED <<lifecycle, turns, items, requests, process, view, disowned, stranded, said, used>>
    BY DEF Annotate, ghosts
  <1>1. /\ view' \in [Processes -> [revision : Nat, items : Seq(Item)]]
        /\ \A q \in Processes : view'[q] \in {view[q], Unseen}
    BY <1>0 DEF TypeOK
  <1>2. Views' /\ revision' \in Nat
    BY <1>0, <1>1, ViewsStep
  <1>3. RequestsBegun' /\ Shapes' /\ Texts' /\ Counted' /\ OpenRows'
    BY <1>0, RowsFrame
  <1>4. ToolRows' /\ Streams'
    BY <1>0 DEF ToolRows, Streams
  <1>5. Drivers' /\ Driven'
    <2>1. \A q \in Processes : Driving(q)' <=> Driving(q)
      BY <1>0 DEF Driving
    <2> QED
      BY <1>0, <2>1 DEF Drivers, Driven
  <1>6. TypeOK'
    BY <1>0, <1>2 DEF TypeOK
  <1> QED
    BY <1>2, <1>3, <1>4, <1>5, <1>6

(* The message to be revised is chosen or given up. *)
LEMMA ReviseKeeps ==
    ASSUME IInv, NEW p \in Processes, NEW u \in 0..MaxTurns, process[p].at = "idle",
           process' = [process EXCEPT ![p].revise = u], UNCHANGED <<database, view, ghosts, used>>
    PROVE  IInv'
  <1> USE DEF IInv
  <1>0. UNCHANGED <<revision, lifecycle, turns, items, requests>>
    BY DEF database
  <1>1. process[p] \in Process /\ process'[p] = [process[p] EXCEPT !.revise = u]
    BY DEF TypeOK
  <1>2. /\ process'[p] \in Process /\ process'[p].at = process[p].at
        /\ process'[p].lifecycle = process[p].lifecycle
        /\ process'[p].turn = process[p].turn /\ process'[p].phase = process[p].phase
    BY ONLY <1>1, u \in 0..MaxTurns DEF Process
  <1>3. /\ \A q \in Processes : q # p => process'[q] = process[q]
        /\ process' = [q \in Processes |-> process'[q]]
    BY DEF TypeOK
  <1>4. process' \in [Processes -> Process]
    <2>1. \A q \in Processes : process'[q] \in Process
      BY <1>2, <1>3 DEF TypeOK
    <2> QED
      BY <1>3, <2>1
  <1>5. ~Driving(p) /\ process[p].turn = 0
    BY DEF Drivers, Driving
  <1>6. Alone(p)
    BY <1>2, <1>3, <1>4, <1>5 DEF Alone, Driving, Drivers
  <1>7. /\ view' \in [Processes -> [revision : Nat, items : Seq(Item)]]
        /\ \A q \in Processes : view'[q] \in {view[q], Unseen}
    BY DEF TypeOK
  <1>8. Views' /\ revision' \in Nat
    BY <1>0, <1>7, ViewsFrame DEF TypeOK
  <1>9. lifecycle' \in Lifecycles /\ used' \in Used
    BY <1>0 DEF TypeOK, Lifecycles, Used
  <1> QED
    BY <1>0, <1>2, <1>5, <1>6, <1>7, <1>8, <1>9, IdleStep

LEMMA RevisionsKeep ==
    ASSUME IInv, NEW p \in Processes, AbandonRevision(p) \/ \E u \in Turns : PrepareRevision(p, u)
    PROVE  IInv'
  <1>1. 0 \in 0..MaxTurns /\ Turns \subseteq 0..MaxTurns
    BY JournalAssumption DEF Turns
  <1>2. PICK u \in 0..MaxTurns : process' = [process EXCEPT ![p].revise = u]
    BY <1>1 DEF AbandonRevision, PrepareRevision
  <1>3. process[p].at = "idle" /\ UNCHANGED <<database, view, ghosts, used>>
    BY DEF AbandonRevision, PrepareRevision
  <1> QED
    BY <1>2, <1>3, ReviseKeeps

-----------------------------------------------------------------------------
(* A turn that could not be begun, or not be gone on with.                 *)

LEMMA ActiveFacts ==
    ASSUME TypeOK, NEW p \in Processes, NEW t \in 0..MaxTurns, NEW at \in {"turn", "failing"},
           NEW image \in BOOLEAN, Active(p, t, at, image)
    PROVE  /\ process' \in [Processes -> Process]
           /\ \A q \in Processes : q # p => process'[q] = process[q]
           /\ process'[p].at = at /\ process'[p].lifecycle = "running" /\ process'[p].turn = t
           /\ process'[p].phase = "boundary" /\ process'[p].revise = 0
  <1> DEFINE x == [process[p] EXCEPT !.at = at, !.lifecycle = "running", !.turn = t,
                      !.phase = "boundary", !.request = 0, !.image = image, !.revise = 0]
  <1>1. process' = [process EXCEPT ![p] = x]
    BY DEF Active
  <1>2. process[p] \in Process /\ 0 \in 0..MaxTurns /\ 0 \in 0..MaxRequests
    BY JournalAssumption DEF TypeOK
  <1>3. /\ x \in Process /\ x.at = at /\ x.lifecycle = "running" /\ x.turn = t
        /\ x.phase = "boundary" /\ x.revise = 0
    BY <1>2 DEF Process
  <1> HIDE DEF x
  <1>4. /\ process' \in [Processes -> Process] /\ process'[p] = x
        /\ \A q \in Processes : q # p => process'[q] = process[q]
    BY <1>1, <1>3, ReplaceFacts
  <1> QED
    BY <1>3, <1>4

LEMMA FailingStep ==
    ASSUME IInv, NEW p \in Processes, NEW t \in Turns, NEW image \in BOOLEAN,
           Active(p, t, "failing", image), process[p].turn \in {0, t},
           \A q \in Processes : q # p => process[q].turn # t,
           UNCHANGED <<database, ghosts>>, used' \in Used,
           view' \in [Processes -> [revision : Nat, items : Seq(Item)]],
           \A q \in Processes : view'[q] \in {view[q], Unseen}
    PROVE  IInv'
  <1> USE DEF IInv
  <1>0. UNCHANGED <<revision, lifecycle, turns, items, requests, disowned, stranded, said>>
    BY DEF ghosts, database
  <1>t. t \in 0..MaxTurns /\ t # 0
    BY JournalAssumption DEF Turns
  <1>1. /\ process' \in [Processes -> Process]
        /\ \A q \in Processes : q # p => process'[q] = process[q]
        /\ process'[p].at = "failing" /\ process'[p].lifecycle = "running" /\ process'[p].turn = t
        /\ process'[p].revise = 0
    BY <1>t, ActiveFacts
  <1>2. Alone(p)
    BY <1>1, <1>t DEF Alone, Driving
  <1>3. Views'
    BY <1>0, ViewsFrame
  <1>4. RequestsBegun' /\ Shapes' /\ Texts' /\ Counted' /\ OpenRows'
    BY <1>0, RowsFrame
  <1>5. ToolRows' /\ Streams'
    BY <1>0, <1>1, <1>2, OthersFrame
  <1>6. Drivers'
    <2>1. \A q \in Processes : q # p /\ process[q].at = "turn" =>
             /\ turns'[process[q].turn] # "absent"
             /\ turns'[process[q].turn] = "running" \/ process[q].turn \in disowned'
      BY <1>0 DEF Drivers
    <2> QED
      BY <1>1, <1>2, <2>1, DriversStep
  <1>7. Driven'
    <2>1. \A q \in Processes : Driving(q) => Driving(q)' /\ process'[q].turn = process[q].turn
      <3>1. ASSUME NEW q \in Processes, Driving(q)
            PROVE  Driving(q)' /\ process'[q].turn = process[q].turn
        <4>1. CASE q = p
          BY <1>1, <3>1, <4>1 DEF Driving, Drivers
        <4>2. CASE q # p
          BY <1>1, <3>1, <4>2 DEF Driving
        <4> QED
          BY <4>1, <4>2
      <3> QED
        BY <3>1
    <2> QED
      BY <1>0, <2>1 DEF Driven
  <1>8. TypeOK'
    BY <1>0, <1>1 DEF TypeOK, Used
  <1> QED
    BY <1>3, <1>4, <1>5, <1>6, <1>7, <1>8

LEMMA AppendFailsKeeps ==
    ASSUME IInv, NEW p \in Processes, AppendFails(p) PROVE IInv'
  <1> USE DEF IInv
  <1>0. PICK t, image : t = process[p].turn /\ image = process[p].image
    OBVIOUS
  <1>1. /\ process[p].at = "turn" /\ Spend /\ Active(p, t, "failing", image)
        /\ UNCHANGED <<database, view, ghosts>>
    BY <1>0 DEF AppendFails, Outcome
  <1>2. t \in Turns /\ t # 0 /\ image \in BOOLEAN
    BY <1>0, <1>1, DriverRunning, Typed
  <1>3. \A q \in Processes : q # p => process[q].turn # t
    BY <1>0, <1>2 DEF Drivers
  <1>4. /\ view' \in [Processes -> [revision : Nat, items : Seq(Item)]]
        /\ \A q \in Processes : view'[q] \in {view[q], Unseen}
    BY <1>1 DEF TypeOK
  <1>5. used' \in Used
    BY <1>1, SpendFacts
  <1>6. process[p].turn \in {0, t} /\ UNCHANGED <<database, ghosts>> /\ Active(p, t, "failing", image)
    BY <1>0, <1>1
  <1>7. IInv
    OBVIOUS
  <1> QED
    BY ONLY <1>2, <1>3, <1>4, <1>5, <1>6, <1>7, FailingStep

(* The transaction that begins a turn fails. *)
NoBegin(p, t) ==
    /\ UNCHANGED <<database, ghosts>>
    /\ \E image \in BOOLEAN : Active(p, t, "failing", image)

LEMMA NoBeginKeeps ==
    ASSUME IInv, NEW p \in Processes, NEW t \in Turns, process[p].at = "idle", Fresh(t), NoBegin(p, t),
           used' \in Used,
           view' = view \/ view' = [view EXCEPT ![p] = Unseen]
    PROVE  IInv'
  <1> USE DEF IInv
  <1>1. process[p].turn = 0 /\ \A q \in Processes : process[q].turn # t
    BY DEF Drivers, Driving, Fresh
  <1>2. /\ view' \in [Processes -> [revision : Nat, items : Seq(Item)]]
        /\ \A q \in Processes : view'[q] \in {view[q], Unseen}
    <2>1. CASE view' = view
      BY <2>1 DEF TypeOK
    <2>2. CASE view' = [view EXCEPT ![p] = Unseen]
      BY <2>2, ForgetFacts
    <2> QED
      BY <2>1, <2>2
  <1>3. PICK image \in BOOLEAN : Active(p, t, "failing", image)
    BY DEF NoBegin
  <1>4. UNCHANGED <<database, ghosts>>
    BY DEF NoBegin
  <1> QED
    BY <1>1, <1>2, <1>3, <1>4, FailingStep

-----------------------------------------------------------------------------
(* A request of a turn: its start, its reports, its pieces and its end.    *)

RequestRecord ==
    [turn : 0..MaxTurns, verified : BOOLEAN, state : {"absent", "running", "completed", "failed"}]

LEMMA StreamFrame ==
    ASSUME IInv, NEW p \in Processes, process[p].at = "turn", GoesOn(p),
           process'[p].phase \notin {"proposed", "tool", "declined"}, Advance,
           UNCHANGED <<lifecycle, turns, view, disowned, stranded>>, used' \in Used,
           items' \in Seq(Item), said' \in [Requests -> Nat], requests' \in [Requests -> RequestRecord],
           \A i \in DOMAIN items : /\ i \in DOMAIN items' /\ items'[i].turn = items[i].turn
                                   /\ items'[i].kind = items[i].kind /\ items'[i].call = items[i].call,
           \A i \in DOMAIN items' \ DOMAIN items : items'[i].kind \in {"assistant", "reasoning"}
    PROVE  TypeOK' /\ Drivers' /\ Driven' /\ ToolRows' /\ Views' /\ Shapes'
  <1> USE DEF IInv
  <1>1. /\ view' \in [Processes -> [revision : Nat, items : Seq(Item)]]
        /\ \A q \in Processes : view'[q] \in {view[q], Unseen}
    BY DEF TypeOK
  <1>2. Views' /\ revision' \in Nat
    BY <1>1, ViewsStep
  <1>3. TypeOK'
    BY <1>1, <1>2 DEF TypeOK, GoesOn, Used, RequestRecord
  <1>4. Drivers' /\ Driven'
    BY DriversGoOn
  <1>5. ToolRows'
    BY ToolRowsGoOn
  <1>6. Shapes'
    <2>1. \A i \in DOMAIN items' : items'[i].kind \in {"tool", "prompt"} => i \in DOMAIN items
      OBVIOUS
    <2>2. \A i \in DOMAIN items' :
            /\ items'[i].kind = "tool" => items'[i].turn = items'[i].call \/ items'[i].call \in disowned
            /\ items'[i].kind = "prompt" => items'[i].turn # 0 /\ turns[items'[i].turn] # "absent"
      BY <2>1 DEF Shapes
    <2>3. \A i, j \in DOMAIN items' :
            items'[i].kind = "prompt" /\ items'[j].kind = "prompt" /\ items'[i].turn = items'[j].turn
              => i = j
      BY <2>1 DEF Shapes
    <2> QED
      BY <2>2, <2>3 DEF Shapes
  <1> QED
    BY <1>2, <1>3, <1>4, <1>5, <1>6

(* The reply row of a prompt is bound to the request. *)
LEMMA BindFacts ==
    ASSUME TypeOK, NEW t, NEW r \in Requests, items' = BindPlaceholder(t, r)
    PROVE  /\ items' \in Seq(Item) /\ DOMAIN items' = DOMAIN items
           /\ \A i \in DOMAIN items :
                /\ items'[i].turn = items[i].turn /\ items'[i].kind = items[i].kind
                /\ items'[i].call = items[i].call /\ items'[i].text = items[i].text
                /\ items'[i].status = items[i].status /\ items'[i].by = items[i].by
                /\ items'[i].verified = items[i].verified
                /\ \/ items'[i].request = items[i].request
                   \/ /\ items'[i].request = r /\ items[i].request = 0
                      /\ items[i].kind = "assistant" /\ items[i].text = <<>>
  <1>0. items \in Seq(Item) /\ r \in 0..MaxRequests
    BY JournalAssumption DEF TypeOK, Requests
  <1>1. CASE items' = items
    BY <1>0, <1>1
  <1>2. CASE items' # items
    <2> DEFINE bound(i) ==
               /\ items[i].turn = t /\ items[i].kind = "assistant"
               /\ i > 1 /\ items[i - 1].kind = "prompt" /\ items[i - 1].turn = t
               /\ items[i].status = "open" /\ items[i].text = <<>> /\ items[i].request = 0
    <2>1. items' = [i \in DOMAIN items |->
                      IF bound(i) THEN [items[i] EXCEPT !.request = r] ELSE items[i]]
      BY <1>2 DEF BindPlaceholder
    <2>2. ASSUME NEW i \in DOMAIN items, bound(i)
          PROVE  /\ items'[i] \in Item /\ items'[i].request = r
                 /\ items'[i].turn = items[i].turn /\ items'[i].kind = items[i].kind
                 /\ items'[i].call = items[i].call /\ items'[i].text = items[i].text
                 /\ items'[i].status = items[i].status /\ items'[i].by = items[i].by
                 /\ items'[i].verified = items[i].verified
      <3>1. items[i] \in Item /\ items'[i] = [items[i] EXCEPT !.request = r]
        BY <2>1, <2>2, Typed
      <3> QED
        BY ONLY <1>0, <3>1 DEF Item
    <2>3. ASSUME NEW i \in DOMAIN items, ~bound(i) PROVE items'[i] = items[i] /\ items'[i] \in Item
      BY <2>1, <2>3, Typed
    <2>4. items' \in [DOMAIN items -> Item]
      <3>1. \A i \in DOMAIN items : items'[i] \in Item
        BY <2>2, <2>3
      <3>2. items' = [i \in DOMAIN items |-> items'[i]]
        BY <2>1
      <3> QED
        BY <3>1, <3>2
    <2>5. items' \in Seq(Item) /\ DOMAIN items' = DOMAIN items
      BY <1>0, <2>4, FunctionIsSeq
    <2>6. \A i \in DOMAIN items : bound(i) =>
            items[i].request = 0 /\ items[i].kind = "assistant" /\ items[i].text = <<>>
      OBVIOUS
    <2> HIDE DEF bound
    <2> QED
      BY <2>2, <2>3, <2>5, <2>6
  <1> QED
    BY <1>1, <1>2

LEMMA BindKeeps ==
    ASSUME IInv, NEW t, NEW r \in Requests, items' = BindPlaceholder(t, r),
           ~requests[r].verified,
           \A q \in Requests :
             /\ requests'[q].verified = requests[q].verified
             /\ requests[q].state # "absent" =>
                  requests'[q].state # "absent" /\ requests'[q].turn = requests[q].turn,
           UNCHANGED <<turns, disowned, said>>
    PROVE  Texts' /\ Counted' /\ OpenRows'
  <1> USE DEF IInv
  <1>1. /\ DOMAIN items' = DOMAIN items
        /\ \A i \in DOMAIN items :
             /\ items'[i].turn = items[i].turn /\ items'[i].kind = items[i].kind
             /\ items'[i].call = items[i].call /\ items'[i].text = items[i].text
             /\ items'[i].status = items[i].status /\ items'[i].by = items[i].by
             /\ items'[i].verified = items[i].verified
             /\ \/ items'[i].request = items[i].request
                \/ /\ items'[i].request = r /\ items[i].request = 0
                   /\ items[i].kind = "assistant" /\ items[i].text = <<>>
    BY BindFacts
  <1>2. Counted'
    <2>1. \A q \in Requests : Pieces(items', q) = Pieces(items, q)
      BY <1>1, SameTexts
    <2> QED
      BY <2>1 DEF Counted
  <1>3. OpenRows'
    BY <1>1 DEF OpenRows
  <1>4. Texts'
    <2> SUFFICES ASSUME NEW i \in DOMAIN items
                 PROVE  /\ items'[i].kind \notin {"assistant", "reasoning"} =>
                             items'[i].request = 0 /\ items'[i].text = <<>>
                        /\ items'[i].request = 0 => ~items'[i].verified
                        /\ items'[i].request # 0 =>
                             /\ items'[i].verified <=> requests'[items'[i].request].verified
                             /\ items'[i].verified => items'[i].status = "completed"
                        /\ \A k \in DOMAIN items'[i].text :
                             /\ items'[i].request \in {0, items'[i].text[k]}
                             /\ requests'[items'[i].text[k]].state # "absent"
                             /\ items'[i].request = 0 => requests'[items'[i].text[k]].turn \in disowned
      BY <1>1 DEF Texts
    <2>1. CASE items'[i].request = items[i].request
      <3>1. items[i].request # 0 => items[i].request \in Requests
        BY Typed DEF Requests
      <3>2. \A k \in DOMAIN items[i].text : items[i].text[k] \in Requests
        BY Typed
      <3>3. \A k \in DOMAIN items'[i].text :
               /\ items'[i].request \in {0, items'[i].text[k]}
               /\ requests'[items'[i].text[k]].state # "absent"
               /\ items'[i].request = 0 => requests'[items'[i].text[k]].turn \in disowned
        BY <1>1, <2>1, <3>2 DEF Texts
      <3>4. /\ items'[i].kind \notin {"assistant", "reasoning"} =>
                             items'[i].request = 0 /\ items'[i].text = <<>>
            /\ items'[i].request = 0 => ~items'[i].verified
        BY <1>1, <2>1 DEF Texts
      <3>5. items'[i].request # 0 =>
                             /\ items'[i].verified <=> requests'[items'[i].request].verified
                             /\ items'[i].verified => items'[i].status = "completed"
        BY <1>1, <2>1, <3>1 DEF Texts
      <3> QED
        BY <3>3, <3>4, <3>5
    <2>2. CASE items'[i].request # items[i].request
      <3>1. /\ items'[i].request = r /\ items[i].request = 0
            /\ items[i].kind = "assistant" /\ items[i].text = <<>>
        BY <1>1, <2>2
      <3>2. DOMAIN items'[i].text = {}
        BY <1>1, <3>1
      <3>3. ~items'[i].verified /\ items'[i].kind = "assistant" /\ ~requests'[r].verified
        BY <1>1, <3>1 DEF Texts
      <3>4. r # 0
        BY JournalAssumption DEF Requests
      <3> QED
        BY <3>1, <3>2, <3>3, <3>4
    <2> QED
      BY <2>1, <2>2
  <1> QED
    BY <1>2, <1>3, <1>4

LEMMA StartRequestKeeps ==
    ASSUME IInv, NEW p \in Processes, NEW r \in Requests, StartRequest(p, r) PROVE IInv'
  <1> USE DEF IInv
  <1>0. PICK t : t = process[p].turn
    OBVIOUS
  <1>1. /\ process[p].at = "turn" /\ process[p].lifecycle = "running" /\ process[p].phase = "boundary"
        /\ requests[r].state = "absent" /\ items' = BindPlaceholder(t, r) /\ Advance
        /\ UNCHANGED <<lifecycle, turns, view, disowned, stranded, said, used>>
    BY <1>0 DEF StartRequest, InTurn, ghosts
  <1>2. requests' = [requests EXCEPT ![r] = [turn |-> t, state |-> "running", verified |-> FALSE]]
    BY <1>0 DEF StartRequest
  <1>3. process' = [process EXCEPT ![p].phase = "request", ![p].request = r]
    BY DEF StartRequest
  <1>t. t \in Turns /\ t \in 0..MaxTurns /\ t # 0 /\ turns[t] # "absent"
    BY <1>0, <1>1, DriverRunning DEF Drivers
  <1>4. GoesOn(p) /\ process'[p].phase = "request" /\ process'[p].request = r
    <2>1. process[p] \in Process /\ process'[p] = [process[p] EXCEPT !.phase = "request", !.request = r]
      BY <1>3 DEF TypeOK
    <2>r. r \in 0..MaxRequests
      BY JournalAssumption DEF Requests
    <2>2. /\ process'[p] \in Process /\ process'[p].at = process[p].at
          /\ process'[p].turn = process[p].turn /\ process'[p].revise = process[p].revise
          /\ process'[p].phase = "request" /\ process'[p].request = r
          /\ process'[p].lifecycle = process[p].lifecycle
      BY ONLY <2>1, <2>r DEF Process
    <2>3. /\ \A q \in Processes : q # p => process'[q] = process[q]
          /\ process' = [q \in Processes |-> process'[q]]
      BY <1>3 DEF TypeOK
    <2>4. \A q \in Processes : process'[q] \in Process
      BY <2>2, <2>3 DEF TypeOK
    <2> QED
      BY <1>1, <2>2, <2>3, <2>4 DEF GoesOn
  <1>5. /\ requests' \in [Requests -> RequestRecord]
        /\ \A q \in Requests : q # r => requests'[q] = requests[q]
        /\ requests'[r].turn = t /\ requests'[r].state = "running" /\ requests'[r].verified = FALSE
    <2>1. requests \in [Requests -> RequestRecord]
      BY DEF TypeOK, RequestRecord
    <2>2. [turn |-> t, state |-> "running", verified |-> FALSE] \in RequestRecord
      BY <1>t DEF RequestRecord
    <2> QED
      BY <1>2, <2>1, <2>2
  <1>6. ~requests[r].verified
    BY <1>1 DEF RequestsBegun
  <1>7. \A q \in Requests :
             /\ requests'[q].verified = requests[q].verified
             /\ requests[q].state # "absent" =>
                  requests'[q].state # "absent" /\ requests'[q].turn = requests[q].turn
    BY <1>1, <1>5, <1>6, Typed
  <1>8. Texts' /\ Counted' /\ OpenRows'
    BY <1>1, <1>6, <1>7, BindKeeps
  <1>9. TypeOK' /\ Drivers' /\ Driven' /\ ToolRows' /\ Views' /\ Shapes'
    <2>1. /\ items' \in Seq(Item) /\ DOMAIN items' = DOMAIN items
          /\ \A i \in DOMAIN items : items'[i].turn = items[i].turn /\ items'[i].kind = items[i].kind
                                     /\ items'[i].call = items[i].call
      BY <1>1, BindFacts
    <2>2. used' \in Used /\ said' \in [Requests -> Nat]
      BY <1>1 DEF TypeOK, Used
    <2> QED
      BY <1>1, <1>4, <1>5, <2>1, <2>2, StreamFrame
  <1>10. RequestsBegun'
    <2>1. ASSUME NEW q \in Requests, q # r
          PROVE  /\ requests'[q].state # "absent" =>
                      requests'[q].turn # 0 /\ turns'[requests'[q].turn] # "absent"
                 /\ requests'[q].state = "absent" => requests'[q].turn = 0
                 /\ requests'[q].state \in {"absent", "running"} => ~requests'[q].verified
      BY <1>1, <1>5, <2>1 DEF RequestsBegun
    <2> QED
      BY <1>1, <1>5, <1>t, <2>1 DEF RequestsBegun
  <1>11. Streams'
    <2>1. ASSUME NEW q \in Processes, process'[q].at = "turn", process'[q].phase = "request"
          PROVE  /\ process'[q].request \in Requests
                 /\ requests'[process'[q].request].turn = process'[q].turn
                 /\ requests'[process'[q].request].state # "absent"
                 /\ ~requests'[process'[q].request].verified
                 /\ \/ requests'[process'[q].request].state = "running"
                    \/ process'[q].turn \in disowned'
      <3>1. CASE q = p
        BY <1>0, <1>4, <1>5, <3>1 DEF GoesOn
      <3>2. CASE q # p
        <4>1. process'[q] = process[q]
          BY <1>4, <3>2 DEF GoesOn
        <4>2. /\ process[q].request \in Requests
              /\ requests[process[q].request].turn = process[q].turn
              /\ requests[process[q].request].state # "absent"
              /\ ~requests[process[q].request].verified
              /\ \/ requests[process[q].request].state = "running"
                 \/ process[q].turn \in disowned
          BY <2>1, <4>1 DEF Streams
        <4>3. process[q].request # r
          BY <1>1, <4>2
        <4> QED
          BY <1>1, <1>5, <4>1, <4>2, <4>3
      <3> QED
        BY <3>1, <3>2
    <2>2. ASSUME NEW q \in Processes, NEW o \in Requests, process'[q].at = "turn",
                 requests'[o].turn = process'[q].turn, requests'[o].state = "running"
          PROVE  process'[q].phase = "request" /\ process'[q].request = o
      <3>1. CASE q = p
        <4>1. CASE o = r
          BY <1>4, <3>1, <4>1
        <4>2. CASE o # r
          <5>1. requests[o].turn = t /\ requests[o].state = "running"
            BY <1>0, <1>4, <1>5, <2>2, <3>1, <4>2 DEF GoesOn
          <5> QED
            BY <1>0, <1>1, <5>1 DEF Streams
        <4> QED
          BY <4>1, <4>2
      <3>2. CASE q # p
        <4>1. process'[q] = process[q] /\ process[q].turn # t
          BY <1>0, <1>t, <1>4, <3>2 DEF GoesOn, Drivers
        <4>2. o # r
          BY <1>5, <2>2, <4>1
        <4>3. requests'[o] = requests[o]
          BY <1>5, <4>2
        <4> QED
          BY <2>2, <4>1, <4>3 DEF Streams
      <3> QED
        BY <3>1, <3>2
    <2> QED
      BY <2>1, <2>2 DEF Streams
  <1> QED
    BY <1>8, <1>9, <1>10, <1>11

(* One request record changes its state, and may be verified. *)
LEMMA RecordFacts ==
    ASSUME TypeOK, NEW r \in Requests, NEW s \in {"running", "completed", "failed"},
           NEW v \in BOOLEAN,
           \/ requests' = [requests EXCEPT ![r].state = s, ![r].verified = v]
           \/ requests' = [requests EXCEPT ![r].state = s] /\ v = requests[r].verified
    PROVE  /\ requests' \in [Requests -> RequestRecord]
           /\ \A q \in Requests : q # r => requests'[q] = requests[q]
           /\ requests'[r].turn = requests[r].turn /\ requests'[r].state = s
           /\ requests'[r].verified = v
  <1>1. requests \in [Requests -> RequestRecord]
    BY DEF TypeOK, RequestRecord
  <1>2. /\ \A q \in Requests : q # r => requests'[q] = requests[q]
        /\ requests' = [q \in Requests |-> requests'[q]]
    BY <1>1
  <1>3. /\ requests[r] \in RequestRecord
        /\ \/ requests'[r] = [requests[r] EXCEPT !.state = s, !.verified = v]
           \/ requests'[r] = [requests[r] EXCEPT !.state = s] /\ v = requests[r].verified
    BY <1>1
  <1>4. /\ requests'[r] \in RequestRecord /\ requests'[r].turn = requests[r].turn
        /\ requests'[r].state = s /\ requests'[r].verified = v
    BY ONLY <1>3, s \in {"running", "completed", "failed"}, v \in BOOLEAN DEF RequestRecord
  <1>5. \A q \in Requests : requests'[q] \in RequestRecord
    BY <1>1, <1>2, <1>4
  <1> QED
    BY <1>2, <1>4, <1>5

LEMMA ReportRequestKeeps ==
    ASSUME IInv, NEW p \in Processes, ReportRequest(p) PROVE IInv'
  <1> USE DEF IInv
  <1>0. PICK t, r : t = process[p].turn /\ r = process[p].request
    OBVIOUS
  <1>1. /\ process[p].at = "turn" /\ process[p].lifecycle = "running" /\ process[p].phase = "request"
        /\ items' = BindPlaceholder(t, r) /\ Advance
        /\ UNCHANGED <<lifecycle, turns, process, view, disowned, stranded, said, used>>
    BY <1>0 DEF ReportRequest, InTurn, ghosts
  <1>2. requests' = [requests EXCEPT ![r].state = "running"]
    BY <1>0 DEF ReportRequest
  <1>3. /\ r \in Requests /\ requests[r].turn = t /\ requests[r].state # "absent"
        /\ requests[r].verified = FALSE
    <2>1. r \in Requests /\ requests[r].turn = t /\ requests[r].state # "absent" /\ ~requests[r].verified
      BY <1>0, <1>1 DEF Streams
    <2> QED
      BY <2>1, Typed
  <1>4. GoesOn(p)
    BY <1>1 DEF GoesOn, TypeOK
  <1>5. /\ requests' \in [Requests -> RequestRecord]
        /\ \A q \in Requests : q # r => requests'[q] = requests[q]
        /\ requests'[r].turn = t /\ requests'[r].state = "running" /\ requests'[r].verified = FALSE
    BY <1>2, <1>3, RecordFacts
  <1>7. \A q \in Requests :
             /\ requests'[q].verified = requests[q].verified
             /\ requests[q].state # "absent" =>
                  requests'[q].state # "absent" /\ requests'[q].turn = requests[q].turn
    BY <1>3, <1>5
  <1>8. Texts' /\ Counted' /\ OpenRows'
    BY <1>1, <1>3, <1>7, BindKeeps
  <1>9. TypeOK' /\ Drivers' /\ Driven' /\ ToolRows' /\ Views' /\ Shapes'
    <2>1. /\ items' \in Seq(Item) /\ DOMAIN items' = DOMAIN items
          /\ \A i \in DOMAIN items : items'[i].turn = items[i].turn /\ items'[i].kind = items[i].kind
                                     /\ items'[i].call = items[i].call
      BY <1>1, <1>3, BindFacts
    <2>2. used' \in Used /\ said' \in [Requests -> Nat]
      BY <1>1 DEF TypeOK, Used
    <2> QED
      BY <1>1, <1>4, <1>5, <2>1, <2>2, StreamFrame
  <1>10. RequestsBegun'
    <2>1. ASSUME NEW q \in Requests
          PROVE  /\ requests'[q].state # "absent" =>
                      requests'[q].turn # 0 /\ turns'[requests'[q].turn] # "absent"
                 /\ requests'[q].state = "absent" => requests'[q].turn = 0
                 /\ requests'[q].state \in {"absent", "running"} => ~requests'[q].verified
      <3>1. CASE q = r
        BY <1>1, <1>3, <1>5, <3>1 DEF RequestsBegun
      <3>2. CASE q # r
        BY <1>1, <1>5, <3>2 DEF RequestsBegun
      <3> QED
        BY <3>1, <3>2
    <2> QED
      BY <2>1 DEF RequestsBegun
  <1>11. Streams'
    <2>1. ASSUME NEW q \in Processes, process[q].at = "turn", process[q].phase = "request"
          PROVE  /\ process[q].request \in Requests
                 /\ requests'[process[q].request].turn = process[q].turn
                 /\ requests'[process[q].request].state # "absent"
                 /\ ~requests'[process[q].request].verified
                 /\ \/ requests'[process[q].request].state = "running"
                    \/ process[q].turn \in disowned
      <3>1. CASE process[q].request = r
        BY <1>3, <1>5, <2>1, <3>1 DEF Streams
      <3>2. CASE process[q].request # r
        <4>1. process[q].request \in Requests
          BY <2>1 DEF Streams
        <4>2. requests'[process[q].request] = requests[process[q].request]
          BY <1>5, <3>2, <4>1
        <4> QED
          BY <2>1, <4>2 DEF Streams
      <3> QED
        BY <3>1, <3>2
    <2>2. ASSUME NEW q \in Processes, NEW o \in Requests, process[q].at = "turn",
                 requests'[o].turn = process[q].turn, requests'[o].state = "running"
          PROVE  process[q].phase = "request" /\ process[q].request = o
      <3>1. CASE o = r
        <4>1. process[q].turn = process[p].turn
          BY <1>0, <1>5, <2>2, <3>1
        <4>2. q = p
          BY <1>1, <4>1, DriverRunning DEF Drivers
        <4> QED
          BY <1>0, <1>1, <3>1, <4>2
      <3>2. CASE o # r
        BY <1>5, <2>2, <3>2 DEF Streams
      <3> QED
        BY <3>1, <3>2
    <2> QED
      BY <1>1, <2>1, <2>2 DEF Streams
  <1> QED
    BY <1>8, <1>9, <1>10, <1>11

(* A verified response marks its rows. *)
LEMMA MarkFacts ==
    ASSUME TypeOK, NEW r \in Requests, items' = MarkVerified(r)
    PROVE  /\ items' \in Seq(Item) /\ DOMAIN items' = DOMAIN items
           /\ \A i \in DOMAIN items :
                /\ items'[i].turn = items[i].turn /\ items'[i].kind = items[i].kind
                /\ items'[i].call = items[i].call /\ items'[i].text = items[i].text
                /\ items'[i].request = items[i].request /\ items'[i].by = items[i].by
                /\ IF items[i].request = r /\ items[i].kind \in {"assistant", "reasoning"}
                   THEN items'[i].verified = TRUE /\ items'[i].status = "completed"
                   ELSE items'[i].verified = items[i].verified /\ items'[i].status = items[i].status
  <1>0. items \in Seq(Item)
    BY DEF TypeOK
  <1>1. items' = [i \in DOMAIN items |->
                    IF items[i].request = r /\ items[i].kind \in {"assistant", "reasoning"}
                    THEN [items[i] EXCEPT !.status = "completed", !.verified = TRUE] ELSE items[i]]
    BY DEF MarkVerified
  <1>2. ASSUME NEW i \in DOMAIN items
        PROVE  /\ items'[i] \in Item
               /\ items'[i].turn = items[i].turn /\ items'[i].kind = items[i].kind
               /\ items'[i].call = items[i].call /\ items'[i].text = items[i].text
               /\ items'[i].request = items[i].request /\ items'[i].by = items[i].by
               /\ IF items[i].request = r /\ items[i].kind \in {"assistant", "reasoning"}
                  THEN items'[i].verified = TRUE /\ items'[i].status = "completed"
                  ELSE items'[i].verified = items[i].verified /\ items'[i].status = items[i].status
    <2>0. items[i] \in Item
      BY Typed
    <2>1. CASE items[i].request = r /\ items[i].kind \in {"assistant", "reasoning"}
      <3>1. items'[i] = [items[i] EXCEPT !.status = "completed", !.verified = TRUE]
        BY <1>1, <2>1
      <3> QED
        BY ONLY <2>0, <2>1, <3>1 DEF Item
    <2>2. CASE ~(items[i].request = r /\ items[i].kind \in {"assistant", "reasoning"})
      <3>1. items'[i] = items[i]
        BY <1>1, <2>2
      <3> QED
        BY ONLY <2>0, <2>2, <3>1
    <2> QED
      BY <2>1, <2>2
  <1>3. items' \in [DOMAIN items -> Item]
    <2>1. items' = [i \in DOMAIN items |-> items'[i]]
      BY <1>1
    <2> QED
      BY <1>2, <2>1
  <1>4. items' \in Seq(Item) /\ DOMAIN items' = DOMAIN items
    BY <1>0, <1>3, FunctionIsSeq
  <1> QED
    BY <1>2, <1>4

LEMMA EndRequestKeeps ==
    ASSUME IInv, NEW p \in Processes, NEW verified \in BOOLEAN, EndRequest(p, verified) PROVE IInv'
  <1> USE DEF IInv
  <1>0. PICK t, r, s, phase :
          /\ t = process[p].turn /\ r = process[p].request
          /\ s = (IF verified THEN "completed" ELSE "failed")
          /\ phase = (IF verified THEN "answered" ELSE "error")
    OBVIOUS
  <1>s. /\ s \in {"completed", "failed"} /\ s # "running" /\ s # "absent"
        /\ phase \in {"answered", "error"} /\ phase \in Phases
    BY <1>0 DEF Phases
  <1>1. /\ process[p].at = "turn" /\ process[p].lifecycle = "running" /\ process[p].phase = "request"
        /\ Goto(p, phase) /\ Advance
        /\ UNCHANGED <<lifecycle, turns, view, disowned, stranded, said, used>>
    BY <1>0 DEF EndRequest, InTurn, ghosts
  <1>2. /\ requests' = [requests EXCEPT ![r].state = s, ![r].verified = verified]
        /\ items' = IF verified THEN MarkVerified(r) ELSE items
    BY <1>0 DEF EndRequest
  <1>3. /\ r \in Requests /\ requests[r].turn = t /\ requests[r].state # "absent"
        /\ ~requests[r].verified
    BY <1>0, <1>1 DEF Streams
  <1>r. r # 0
    BY <1>3, JournalAssumption DEF Requests
  <1>4. GoesOn(p) /\ process'[p].phase = phase
    BY <1>1, <1>s, GotoFacts
  <1>5. /\ requests' \in [Requests -> RequestRecord]
        /\ \A q \in Requests : q # r => requests'[q] = requests[q]
        /\ requests'[r].turn = t /\ requests'[r].state = s /\ requests'[r].verified = verified
    BY <1>2, <1>3, <1>s, RecordFacts
  <1>6. /\ items' \in Seq(Item) /\ DOMAIN items' = DOMAIN items
        /\ \A i \in DOMAIN items :
             /\ items'[i].turn = items[i].turn /\ items'[i].kind = items[i].kind
             /\ items'[i].call = items[i].call /\ items'[i].text = items[i].text
             /\ items'[i].request = items[i].request /\ items'[i].by = items[i].by
             /\ IF verified /\ items[i].request = r /\ items[i].kind \in {"assistant", "reasoning"}
                THEN items'[i].verified = TRUE /\ items'[i].status = "completed"
                ELSE items'[i].verified = items[i].verified /\ items'[i].status = items[i].status
    <2>1. CASE verified
      BY <1>2, <1>3, <2>1, MarkFacts
    <2>2. CASE ~verified
      BY <1>2, <2>2 DEF TypeOK
    <2> QED
      BY <2>1, <2>2
  <1>7. Texts'
    <2> SUFFICES ASSUME NEW i \in DOMAIN items
                 PROVE  /\ items'[i].kind \notin {"assistant", "reasoning"} =>
                             items'[i].request = 0 /\ items'[i].text = <<>>
                        /\ items'[i].request = 0 => ~items'[i].verified
                        /\ items'[i].request # 0 =>
                             /\ items'[i].verified <=> requests'[items'[i].request].verified
                             /\ items'[i].verified => items'[i].status = "completed"
                        /\ \A k \in DOMAIN items'[i].text :
                             /\ items'[i].request \in {0, items'[i].text[k]}
                             /\ requests'[items'[i].text[k]].state # "absent"
                             /\ items'[i].request = 0 => requests'[items'[i].text[k]].turn \in disowned
      BY <1>1, <1>6 DEF Texts
    <2>1. /\ items'[i].kind \notin {"assistant", "reasoning"} =>
                items'[i].request = 0 /\ items'[i].text = <<>>
          /\ items'[i].request = 0 => ~items'[i].verified
      BY <1>6, <1>r DEF Texts
    <2>2. \A k \in DOMAIN items'[i].text :
             /\ items'[i].request \in {0, items'[i].text[k]}
             /\ requests'[items'[i].text[k]].state # "absent"
             /\ items'[i].request = 0 => requests'[items'[i].text[k]].turn \in disowned
      <3>1. \A k \in DOMAIN items[i].text : items[i].text[k] \in Requests
        BY Typed
      <3>2. \A q \in Requests : /\ requests'[q].turn = requests[q].turn
                                /\ requests[q].state # "absent" => requests'[q].state # "absent"
        BY <1>3, <1>5, <1>s
      <3> QED
        BY <1>6, <3>1, <3>2 DEF Texts
    <2>3. ASSUME items[i].request # 0
          PROVE  /\ items'[i].verified <=> requests'[items[i].request].verified
                 /\ items'[i].verified => items'[i].status = "completed"
      <3>1. items[i].request \in Requests
        BY <2>3, Typed DEF Requests
      <3>2. CASE items[i].request = r
        BY <1>3, <1>5, <1>6, <2>3, <3>2 DEF Texts
      <3>3. CASE items[i].request # r
        BY <1>5, <1>6, <2>3, <3>1, <3>3 DEF Texts
      <3> QED
        BY <3>2, <3>3
    <2> QED
      BY <1>6, <2>1, <2>2, <2>3
  <1>8. Counted' /\ OpenRows'
    <2>1. \A q \in Requests : Pieces(items', q) = Pieces(items, q)
      BY <1>6, SameTexts
    <2>2. Counted'
      BY <1>1, <2>1 DEF Counted
    <2>3. \A i \in DOMAIN items : items'[i].status = "open" => items[i].status = "open"
      BY <1>6
    <2>4. OpenRows'
      BY <1>1, <1>6, <2>3 DEF OpenRows
    <2> QED
      BY <2>2, <2>4
  <1>9. TypeOK' /\ Drivers' /\ Driven' /\ ToolRows' /\ Views' /\ Shapes'
    <2>1. used' \in Used /\ said' \in [Requests -> Nat]
      BY <1>1 DEF TypeOK, Used
    <2> QED
      BY <1>1, <1>4, <1>s, <1>5, <1>6, <2>1, StreamFrame
  <1>10. RequestsBegun'
    <2>1. ASSUME NEW q \in Requests
          PROVE  /\ requests'[q].state # "absent" =>
                      requests'[q].turn # 0 /\ turns'[requests'[q].turn] # "absent"
                 /\ requests'[q].state = "absent" => requests'[q].turn = 0
                 /\ requests'[q].state \in {"absent", "running"} => ~requests'[q].verified
      <3>1. CASE q = r
        BY <1>1, <1>3, <1>s, <1>5, <3>1 DEF RequestsBegun
      <3>2. CASE q # r
        BY <1>1, <1>5, <3>2 DEF RequestsBegun
      <3> QED
        BY <3>1, <3>2
    <2> QED
      BY <2>1 DEF RequestsBegun
  <1>11. Streams'
    <2>1. ASSUME NEW q \in Processes, process'[q].at = "turn", process'[q].phase = "request"
          PROVE  /\ process'[q].request \in Requests
                 /\ requests'[process'[q].request].turn = process'[q].turn
                 /\ requests'[process'[q].request].state # "absent"
                 /\ ~requests'[process'[q].request].verified
                 /\ \/ requests'[process'[q].request].state = "running"
                    \/ process'[q].turn \in disowned'
      <3>1. q # p
        BY <1>4, <1>s, <2>1
      <3>2. process'[q] = process[q]
        BY <1>4, <3>1 DEF GoesOn
      <3>3. process[q].request \in Requests /\ requests[process[q].request].turn = process[q].turn
        BY <2>1, <3>2 DEF Streams
      <3>4. process[q].turn # t
        BY <1>0, <1>1, <3>1, DriverRunning DEF Drivers
      <3>5. requests'[process[q].request] = requests[process[q].request]
        BY <1>3, <1>5, <3>3, <3>4
      <3> QED
        BY <1>1, <2>1, <3>2, <3>5 DEF Streams
    <2>2. ASSUME NEW q \in Processes, NEW o \in Requests, process'[q].at = "turn",
                 requests'[o].turn = process'[q].turn, requests'[o].state = "running"
          PROVE  process'[q].phase = "request" /\ process'[q].request = o
      <3>1. o # r /\ requests'[o] = requests[o]
        BY <1>5, <1>s, <2>2
      <3>2. CASE q = p
        <4>1. process[p].request = o
          BY <1>1, <1>4, <2>2, <3>1, <3>2 DEF GoesOn, Streams
        <4> QED
          BY <1>0, <3>1, <4>1
      <3>3. CASE q # p
        BY <1>4, <2>2, <3>1, <3>3 DEF GoesOn, Streams
      <3> QED
        BY <3>2, <3>3
    <2> QED
      BY <2>1, <2>2 DEF Streams
  <1> QED
    BY <1>7, <1>8, <1>9, <1>10, <1>11

(* The row a piece belongs to. *)
LEMMA SegmentFacts ==
    ASSUME TypeOK, NEW t, NEW kind, Segment(t, kind) # 0
    PROVE  /\ Segment(t, kind) \in DOMAIN items
           /\ items[Segment(t, kind)].turn = t /\ items[Segment(t, kind)].kind = kind
           /\ ~items[Segment(t, kind)].verified /\ items[Segment(t, kind)].status = "open"
           /\ items[Segment(t, kind)].request = RunningRequest(t)
  <1> DEFINE boundary == LastOf({i \in DOMAIN items : /\ items[i].turn = t
                                                      /\ items[i].kind \in Users \cup {"tool"}})
             S == {i \in DOMAIN items :
                     /\ items[i].turn = t /\ items[i].kind = kind
                     /\ ~items[i].verified /\ items[i].status = "open"
                     /\ items[i].request = RunningRequest(t)
                     /\ i > boundary}
  <1>1. S \subseteq 1..Len(items) /\ Len(items) \in Nat
    BY Typed
  <1>2. Segment(t, kind) = LastOf(S)
    BY DEF Segment
  <1>3. /\ LastOf(S) = 0 <=> S = {}
        /\ S # {} => LastOf(S) \in S
    <2> HIDE DEF S
    <2> QED
      BY <1>1, LastOfFacts
  <1>4. Segment(t, kind) \in S
    BY <1>2, <1>3
  <1> QED
    BY <1>4

LEMMA RunningRequestFacts ==
    ASSUME TypeOK, Streams, NEW p \in Processes, process[p].at = "turn", process[p].phase = "request"
    PROVE  /\ RunningRequest(process[p].turn) \in {0, process[p].request}
           /\ RunningRequest(process[p].turn) = 0 => process[p].turn \in disowned
  <1>0. PICK t, r : t = process[p].turn /\ r = process[p].request
    OBVIOUS
  <1> DEFINE S == {q \in Requests : requests[q].turn = t /\ requests[q].state = "running"}
  <1>1. S \subseteq 1..MaxRequests /\ MaxRequests \in Nat
    BY Typed DEF Requests
  <1>2. RunningRequest(t) = LastOf(S)
    BY DEF RunningRequest
  <1>3. /\ LastOf(S) = 0 <=> S = {}
        /\ S # {} => LastOf(S) \in S
    <2> HIDE DEF S
    <2> QED
      BY <1>1, LastOfFacts
  <1>4. S \subseteq {r}
    BY <1>0 DEF Streams
  <1>5. r \in S \/ t \in disowned
    BY <1>0 DEF Streams
  <1> HIDE DEF S
  <1> QED
    BY <1>0, <1>2, <1>3, <1>4, <1>5

(* The row i gets one more piece of r. *)
Piece(i, old, t, kind, z, r) ==
    /\ items' \in Seq(Item) /\ i \in DOMAIN items'
    /\ DOMAIN items \subseteq DOMAIN items' /\ DOMAIN items' \subseteq DOMAIN items \cup {i}
    /\ \A j \in DOMAIN items : j # i => items'[j] = items[j]
    /\ items'[i].turn = t /\ items'[i].kind = kind /\ items'[i].status = "open"
    /\ items'[i].request = z /\ items'[i].verified = FALSE /\ items'[i].by = t
    /\ items'[i].text = Append(old, r)
    /\ i \in DOMAIN items => /\ old = items[i].text /\ items[i].turn = t /\ items[i].kind = kind
                             /\ items[i].request = z /\ items'[i].call = items[i].call
    /\ i \notin DOMAIN items => old = <<>>

LEMMA AppendContentFacts ==
    ASSUME TypeOK, NEW t \in Turns, NEW kind \in {"assistant", "reasoning"}, NEW r \in Requests,
           NEW z \in 0..MaxRequests, z = RunningRequest(t), items' = append_turn_content(t, kind, r)
    PROVE  \E i, old : old \in Seq(Requests) /\ Piece(i, old, t, kind, z, r)
  <1>0. items \in Seq(Item) /\ t \in 0..MaxTurns
    BY JournalAssumption DEF TypeOK, Turns
  <1>1. CASE Segment(t, kind) # 0
    <2>1. PICK i \in DOMAIN items : i = Segment(t, kind)
      BY <1>1, SegmentFacts
    <2>2. /\ items[i].turn = t /\ items[i].kind = kind /\ items[i].request = z
      BY <1>1, <2>1, SegmentFacts
    <2>3. PICK old \in Seq(Requests) : old = items[i].text
      BY Typed
    <2>4. items' = [items EXCEPT ![i].text = Append(@, r), ![i].status = "open",
                                 ![i].verified = FALSE, ![i].by = t]
      BY <1>1, <2>1 DEF append_turn_content
    <2>5. DOMAIN items' = DOMAIN items /\ \A j \in DOMAIN items : j # i => items'[j] = items[j]
      BY <2>4
    <2>6. /\ items[i] \in Item
          /\ items'[i] = [items[i] EXCEPT !.text = Append(items[i].text, r), !.status = "open",
                                          !.verified = FALSE, !.by = t]
      BY <2>4, Typed DEF Item
    <2>7. Append(items[i].text, r) \in Seq(Requests)
      BY <2>3
    <2>8. /\ items'[i] \in Item
          /\ items'[i].turn = items[i].turn /\ items'[i].kind = items[i].kind
          /\ items'[i].status = "open" /\ items'[i].call = items[i].call
          /\ items'[i].request = items[i].request /\ items'[i].verified = FALSE /\ items'[i].by = t
          /\ items'[i].text = Append(items[i].text, r)
      BY ONLY <2>6, <2>7, t \in Turns DEF Item
    <2>9. items' \in Seq(Item)
      <3>1. \A j \in DOMAIN items : items'[j] \in Item
        BY <2>5, <2>8, Typed
      <3>2. items' = [j \in DOMAIN items |-> items'[j]]
        BY <2>4
      <3>3. items' \in [DOMAIN items -> Item]
        BY <3>1, <3>2
      <3> QED
        BY <1>0, <3>3, FunctionIsSeq
    <2>10. Piece(i, old, t, kind, z, r)
      BY <2>2, <2>3, <2>5, <2>8, <2>9 DEF Piece
    <2> QED
      BY <2>10
  <1>2. CASE Segment(t, kind) = 0
    <2> DEFINE row == [NewItem(t, kind, "open", t) EXCEPT !.request = z, !.text = <<r>>]
               i == Len(items) + 1
    <2>1. items' = Append(items, row)
      BY <1>2 DEF append_turn_content
    <2>2. /\ row \in Item /\ row.turn = t /\ row.kind = kind /\ row.status = "open"
          /\ row.request = z /\ row.verified = FALSE /\ row.by = t /\ row.text = <<r>>
      <3>1. 0 \in 0..MaxTurns /\ <<r>> \in Seq(Requests)
        BY JournalAssumption
      <3> QED
        BY <1>0, <3>1 DEF NewItem, Item, Users
    <2> HIDE DEF row
    <2>3. /\ items' \in Seq(Item) /\ DOMAIN items' = DOMAIN items \cup {i} /\ i \notin DOMAIN items
          /\ \A j \in DOMAIN items : items'[j] = items[j]
          /\ items'[i] = row
      BY <1>0, <2>1, <2>2, AppendFacts
    <2>4. <<>> \in Seq(Requests) /\ Append(<<>>, r) = <<r>>
      OBVIOUS
    <2> HIDE DEF i
    <2>5. Piece(i, <<>>, t, kind, z, r)
      BY <2>2, <2>3, <2>4 DEF Piece
    <2> QED
      BY <2>4, <2>5
  <1> QED
    BY <1>1, <1>2

LEMMA DeltaKeeps ==
    ASSUME IInv, NEW p \in Processes, NEW kind \in {"assistant", "reasoning"}, Delta(p, kind)
    PROVE  IInv'
  <1> USE DEF IInv
  <1>0. PICK t, r, z : t = process[p].turn /\ r = process[p].request /\ z = RunningRequest(t)
    OBVIOUS
  <1>1. /\ process[p].at = "turn" /\ process[p].lifecycle = "running" /\ process[p].phase = "request"
        /\ items' = append_turn_content(t, kind, r) /\ Advance /\ Spend
        /\ UNCHANGED <<lifecycle, turns, requests, process, view, disowned, stranded>>
    BY <1>0 DEF Delta, InTurn
  <1>2. said' = [said EXCEPT ![r] = said[r] + 1]
    BY <1>0 DEF Delta
  <1>3. /\ r \in Requests /\ requests[r].turn = t /\ requests[r].state # "absent"
        /\ ~requests[r].verified
    BY <1>0, <1>1 DEF Streams
  <1>r. r # 0 /\ r \in 0..MaxRequests /\ 0 \in 0..MaxRequests
    BY <1>3, JournalAssumption DEF Requests
  <1>t. t \in Turns /\ t # 0 /\ (turns[t] = "running" \/ t \in disowned)
    BY <1>0, <1>1, DriverRunning
  <1>z. z \in {0, r} /\ z \in 0..MaxRequests /\ (z = 0 => t \in disowned)
    <2>1. z \in {0, r} /\ (z = 0 => t \in disowned)
      BY <1>0, <1>1, RunningRequestFacts
    <2> QED
      BY <1>r, <2>1
  <1>4. PICK i, old : old \in Seq(Requests) /\ Piece(i, old, t, kind, z, r)
    BY <1>0, <1>1, <1>3, <1>t, <1>z, AppendContentFacts
  <1>5. GoesOn(p)
    BY <1>1 DEF GoesOn, TypeOK
  <1>6. \A j \in DOMAIN items : /\ j \in DOMAIN items' /\ items'[j].turn = items[j].turn
                                /\ items'[j].kind = items[j].kind /\ items'[j].call = items[j].call
    BY <1>4 DEF Piece
  <1>7. Texts'
    <2> SUFFICES ASSUME NEW j \in DOMAIN items'
                 PROVE  /\ items'[j].kind \notin {"assistant", "reasoning"} =>
                             items'[j].request = 0 /\ items'[j].text = <<>>
                        /\ items'[j].request = 0 => ~items'[j].verified
                        /\ items'[j].request # 0 =>
                             /\ items'[j].verified <=> requests[items'[j].request].verified
                             /\ items'[j].verified => items'[j].status = "completed"
                        /\ \A k \in DOMAIN items'[j].text :
                             /\ items'[j].request \in {0, items'[j].text[k]}
                             /\ requests[items'[j].text[k]].state # "absent"
                             /\ items'[j].request = 0 => requests[items'[j].text[k]].turn \in disowned
      BY <1>1 DEF Texts
    <2>1. CASE j # i
      <3>1. j \in DOMAIN items /\ items'[j] = items[j]
        BY <1>4, <2>1 DEF Piece
      <3> QED
        BY <3>1 DEF Texts
    <2>2. CASE j = i
      <3>1. /\ items'[i].kind = kind /\ items'[i].request = z /\ items'[i].verified = FALSE
            /\ items'[i].text = Append(old, r)
        BY <1>4 DEF Piece
      <3>2. /\ DOMAIN items'[i].text = DOMAIN old \cup {Len(old) + 1}
            /\ \A k \in DOMAIN old : items'[i].text[k] = old[k]
            /\ items'[i].text[Len(old) + 1] = r
        BY <1>3, <1>4, <3>1, AppendFacts
      <3>3. ASSUME NEW k \in DOMAIN old
            PROVE  z \in {0, old[k]} /\ requests[old[k]].state # "absent"
                   /\ (z = 0 => requests[old[k]].turn \in disowned)
        <4>1. i \in DOMAIN items /\ old = items[i].text /\ items[i].request = z
          <5>1. DOMAIN (<<>>) = {}
            OBVIOUS
          <5> QED
            BY <1>4, <3>3, <5>1 DEF Piece
        <4> QED
          BY <3>3, <4>1 DEF Texts
      <3>4. \A k \in DOMAIN items'[i].text :
              /\ z \in {0, items'[i].text[k]}
              /\ requests[items'[i].text[k]].state # "absent"
              /\ z = 0 => requests[items'[i].text[k]].turn \in disowned
        BY <1>3, <1>z, <3>2, <3>3
      <3> QED
        BY <1>3, <1>z, <2>2, <3>1, <3>4
    <2> QED
      BY <2>1, <2>2
  <1>8. Counted' /\ said' \in [Requests -> Nat]
    <2>0. said \in [Requests -> Nat]
      BY DEF TypeOK
    <2>1. /\ said' \in [Requests -> Nat] /\ said'[r] = said[r] + 1
          /\ \A q \in Requests : q # r => said'[q] = said[q]
      BY <1>2, <1>3, <2>0
    <2>2. /\ Pieces(items', r) = Pieces(items, r) \cup {<<i, Len(old) + 1>>}
          /\ <<i, Len(old) + 1>> \notin Pieces(items, r)
          /\ \A q \in Requests : q # r => Pieces(items', q) = Pieces(items, q)
      <3>1. /\ i \in DOMAIN items' /\ DOMAIN items \subseteq DOMAIN items'
            /\ DOMAIN items' \subseteq DOMAIN items \cup {i}
            /\ \A j \in DOMAIN items : j # i => items'[j].text = items[j].text
            /\ old = IF i \in DOMAIN items THEN items[i].text ELSE <<>>
            /\ items'[i].text = Append(old, r)
        BY <1>4 DEF Piece
      <3>2. r \in Requests /\ old \in Seq(Requests)
        BY <1>3, <1>4
      <3>3. OnePiece(items, items', i, old, r)
        BY ONLY <3>1, <3>2 DEF OnePiece
      <3> QED
        BY ONLY <3>3, MorePieces
    <2>3. IsFiniteSet(Pieces(items', r)) /\ Cardinality(Pieces(items', r)) = said'[r]
      <3>1. IsFiniteSet(Pieces(items, r)) /\ Cardinality(Pieces(items, r)) = said[r]
        BY <1>3 DEF Counted
      <3>2. PICK T, w : T = Pieces(items, r) /\ w = <<i, Len(old) + 1>>
        OBVIOUS
      <3>3. IsFiniteSet(T \cup {w}) /\ Cardinality(T \cup {w}) = Cardinality(T) + 1
        BY ONLY <2>2, <3>1, <3>2, FS_AddElement
      <3> QED
        BY ONLY <2>1, <2>2, <3>1, <3>2, <3>3
    <2>4. \A q \in Requests : q # r =>
            IsFiniteSet(Pieces(items', q)) /\ Cardinality(Pieces(items', q)) = said'[q]
      BY <2>1, <2>2 DEF Counted
    <2> QED
      BY <2>1, <2>3, <2>4 DEF Counted
  <1>9. OpenRows'
    <2>1. ASSUME NEW j \in DOMAIN items', items'[j].status = "open"
          PROVE  \/ items'[j].turn # 0 /\ turns[items'[j].turn] = "running"
                 \/ items'[j].by \in disowned
      <3>1. CASE j = i
        BY <1>4, <1>t, <3>1 DEF Piece
      <3>2. CASE j # i
        BY <1>4, <2>1, <3>2 DEF Piece, OpenRows
      <3> QED
        BY <3>1, <3>2
    <2> QED
      BY <1>1, <2>1 DEF OpenRows
  <1>10. TypeOK' /\ Drivers' /\ Driven' /\ ToolRows' /\ Views' /\ Shapes'
    <2>1. used' \in Used /\ requests' \in [Requests -> RequestRecord]
      BY <1>1, SpendFacts DEF TypeOK, RequestRecord
    <2>2. items' \in Seq(Item) /\ \A j \in DOMAIN items' \ DOMAIN items : items'[j].kind = kind
      BY <1>4 DEF Piece
    <2> QED
      BY <1>1, <1>5, <1>6, <1>8, <2>1, <2>2, StreamFrame
  <1>11. RequestsBegun' /\ Streams'
    BY <1>1 DEF RequestsBegun, Streams
  <1> QED
    BY <1>7, <1>8, <1>9, <1>10, <1>11

-----------------------------------------------------------------------------
(* The beginning of a turn.                                                *)

(* The rows at the places K stay, and the others are new ones of turn t,   *)
(* one of them at most a prompt.                                           *)
BeginRows(t, K) ==
    /\ items' \in Seq(Item) /\ K \subseteq DOMAIN items /\ K \subseteq DOMAIN items'
    /\ \A i \in K : items'[i] = items[i]
    /\ \A i \in DOMAIN items' \ K :
         /\ items'[i].turn = t /\ items'[i].kind \in {"prompt", "assistant"}
         /\ items'[i].request = 0 /\ items'[i].text = <<>> /\ items'[i].verified = FALSE
    /\ \A i, j \in DOMAIN items' \ K : items'[i].kind = "prompt" /\ items'[j].kind = "prompt" => i = j

(* Nothing is cut, or nothing runs. *)
BeginTurns(t, K) ==
    /\ turns' \in [Turns -> {"absent", "running", "removed"} \cup Ends] /\ turns'[t] = "running"
    /\ \/ K = DOMAIN items /\ \A s \in Turns : s # t => turns'[s] = turns[s]
       \/ /\ \A s \in Turns : turns[s] # "running"
          /\ \A s \in Turns : s # t => turns'[s] = turns[s] \/ turns'[s] = "removed"

LEMMA BeginKeeps ==
    ASSUME IInv, NEW p \in Processes, NEW t \in Turns, NEW K, NEW image \in BOOLEAN,
           process[p].at = "idle", Fresh(t), BeginRows(t, K), BeginTurns(t, K), Counted',
           said' \in [Requests -> Nat], lifecycle' = "running", Advance, Active(p, t, "turn", image),
           UNCHANGED <<requests, disowned, stranded>>, used' \in Used,
           view' \in [Processes -> [revision : Nat, items : Seq(Item)]],
           \A q \in Processes : view'[q] \in {view[q], Unseen}
    PROVE  IInv'
  <1> USE DEF IInv
  <1>t. t \in 0..MaxTurns /\ t # 0
    BY JournalAssumption DEF Turns
  <1>1. turns[t] = "absent" /\ process[p].turn = 0 /\ \A q \in Processes : process[q].turn # t
    BY DEF Fresh, Drivers, Driving
  <1>2. /\ process' \in [Processes -> Process]
        /\ \A q \in Processes : q # p => process'[q] = process[q]
        /\ process'[p].at = "turn" /\ process'[p].lifecycle = "running" /\ process'[p].turn = t
        /\ process'[p].phase = "boundary" /\ process'[p].revise = 0
    BY <1>t, ActiveFacts
  <1>3. Alone(p)
    BY <1>1, <1>2, <1>t DEF Alone, Driving
  <1>4. /\ turns'[t] = "running"
        /\ \A s \in Turns : turns[s] # "absent" => turns'[s] # "absent"
        /\ \A s \in Turns : turns[s] = "running" => turns'[s] = "running"
        /\ \A s \in Turns : s # t /\ turns'[s] = "running" => turns[s] = "running"
    BY DEF BeginTurns
  <1>5. K = DOMAIN items \/ \A s \in Turns : turns[s] # "running"
    BY DEF BeginTurns
  <1>6. Views' /\ revision' \in Nat
    BY ViewsStep
  <1>7. TypeOK'
    BY <1>2, <1>6 DEF TypeOK, BeginRows, BeginTurns, Lifecycles, Used
  <1>8. Drivers'
    <2>1. ASSUME NEW q \in Processes, q # p, process[q].at = "turn"
          PROVE  /\ turns'[process[q].turn] # "absent"
                 /\ turns'[process[q].turn] = "running" \/ process[q].turn \in disowned'
      <3>1. process[q].turn \in Turns
        BY <2>1, DriverRunning
      <3> QED
        BY <1>4, <2>1, <3>1 DEF Drivers
    <2> QED
      BY <1>2, <1>3, <1>4, <2>1, DriversStep
  <1>9. Driven'
    <2> SUFFICES ASSUME NEW s \in Turns, turns'[s] = "running"
                 PROVE  s \in stranded \/ \E q \in Processes : Driving(q)' /\ process'[q].turn = s
      BY DEF Driven
    <2>1. CASE s = t
      BY <1>2, <2>1 DEF Driving
    <2>2. CASE s # t
      <3>1. s \in stranded \/ \E q \in Processes : Driving(q) /\ process[q].turn = s
        BY <1>4, <2>2 DEF Driven
      <3>2. \A q \in Processes : Driving(q) => q # p
        BY DEF Driving
      <3> QED
        BY <1>2, <3>1, <3>2 DEF Driving
    <2> QED
      BY <2>1, <2>2
  <1>10. ToolRows'
    <2>1. ASSUME NEW q \in Processes, process'[q].at = "turn",
                 process'[q].phase \in {"proposed", "tool", "declined"}
          PROVE  \/ process'[q].turn \in disowned
                 \/ \E i \in DOMAIN items' : items'[i].kind = "tool" /\ items'[i].call = process'[q].turn
      <3>1. q # p /\ process'[q] = process[q]
        BY <1>2, <2>1
      <3>2. CASE K = DOMAIN items
        <4>1. \A i \in DOMAIN items : i \in DOMAIN items' /\ items'[i] = items[i]
          BY <3>2 DEF BeginRows
        <4> QED
          BY <2>1, <3>1, <4>1 DEF ToolRows
      <3>3. CASE \A s \in Turns : turns[s] # "running"
        BY <2>1, <3>1, <3>3, DriverRunning
      <3> QED
        BY <1>5, <3>2, <3>3
    <2> QED
      BY <2>1 DEF ToolRows
  <1>11. RequestsBegun'
    <2>1. ASSUME NEW r \in Requests, requests[r].state # "absent"
          PROVE  requests[r].turn # 0 /\ turns'[requests[r].turn] # "absent"
      <3>1. requests[r].turn # 0 /\ turns[requests[r].turn] # "absent"
        BY <2>1 DEF RequestsBegun
      <3>2. requests[r].turn \in Turns
        BY <3>1, Typed DEF Turns
      <3> QED
        BY <1>4, <3>1, <3>2
    <2> QED
      BY <2>1 DEF RequestsBegun
  <1>12. Streams'
    <2>1. \A r \in Requests : requests[r].turn # t
      <3>1. ASSUME NEW r \in Requests PROVE requests[r].turn # t
        BY <1>1, <1>t DEF RequestsBegun
      <3> QED
        BY <3>1
    <2>2. ASSUME NEW q \in Processes, process'[q].at = "turn", process'[q].phase = "request"
          PROVE  /\ process'[q].request \in Requests
                 /\ requests[process'[q].request].turn = process'[q].turn
                 /\ requests[process'[q].request].state # "absent"
                 /\ ~requests[process'[q].request].verified
                 /\ \/ requests[process'[q].request].state = "running"
                    \/ process'[q].turn \in disowned
      <3>1. q # p /\ process'[q] = process[q]
        BY <1>2, <2>2
      <3> QED
        BY <2>2, <3>1 DEF Streams
    <2>3. ASSUME NEW q \in Processes, NEW o \in Requests, process'[q].at = "turn",
                 requests[o].turn = process'[q].turn, requests[o].state = "running"
          PROVE  process'[q].phase = "request" /\ process'[q].request = o
      <3>1. q # p /\ process'[q] = process[q]
        BY <1>2, <2>1, <2>3
      <3> QED
        BY <2>3, <3>1 DEF Streams
    <2> QED
      BY <2>2, <2>3 DEF Streams
  <1>13. Shapes'
    <2>1. \A i \in DOMAIN items' : items'[i].kind = "tool" => i \in K
      BY DEF BeginRows
    <2>2. \A i \in DOMAIN items' : items'[i].kind = "tool" =>
            items'[i].turn = items'[i].call \/ items'[i].call \in disowned
      BY <2>1 DEF BeginRows, Shapes
    <2>3. ASSUME NEW i \in DOMAIN items', items'[i].kind = "prompt", i \in K
          PROVE  items'[i].turn # 0 /\ turns'[items'[i].turn] # "absent" /\ items'[i].turn # t
      <3>1. i \in DOMAIN items /\ items'[i] = items[i]
        BY <2>3 DEF BeginRows
      <3>2. items[i].turn # 0 /\ turns[items[i].turn] # "absent"
        BY <2>3, <3>1 DEF Shapes
      <3>3. items[i].turn \in Turns
        BY <3>1, <3>2, Typed DEF Turns
      <3> QED
        BY <1>1, <1>4, <3>1, <3>2, <3>3
    <2>4. \A i \in DOMAIN items' : i \notin K => items'[i].turn = t
      BY DEF BeginRows
    <2>5. \A i \in DOMAIN items' : items'[i].kind = "prompt" =>
            items'[i].turn # 0 /\ turns'[items'[i].turn] # "absent"
      BY <1>t, <1>4, <2>3, <2>4
    <2>6. ASSUME NEW i \in DOMAIN items', NEW j \in DOMAIN items',
                 items'[i].kind = "prompt", items'[j].kind = "prompt", items'[i].turn = items'[j].turn
          PROVE  i = j
      <3>1. CASE i \in K /\ j \in K
        BY <2>6, <3>1 DEF BeginRows, Shapes
      <3>2. CASE i \notin K /\ j \notin K
        BY <2>6, <3>2 DEF BeginRows
      <3> QED
        BY <2>3, <2>4, <2>6, <3>1, <3>2
    <2> QED
      BY <2>2, <2>5, <2>6 DEF Shapes
  <1>14. Texts'
    <2> SUFFICES ASSUME NEW i \in DOMAIN items'
                 PROVE  /\ items'[i].kind \notin {"assistant", "reasoning"} =>
                             items'[i].request = 0 /\ items'[i].text = <<>>
                        /\ items'[i].request = 0 => ~items'[i].verified
                        /\ items'[i].request # 0 =>
                             /\ items'[i].verified <=> requests[items'[i].request].verified
                             /\ items'[i].verified => items'[i].status = "completed"
                        /\ \A k \in DOMAIN items'[i].text :
                             /\ items'[i].request \in {0, items'[i].text[k]}
                             /\ requests[items'[i].text[k]].state # "absent"
                             /\ items'[i].request = 0 => requests[items'[i].text[k]].turn \in disowned
      BY DEF Texts
    <2>1. CASE i \in K
      <3>1. i \in DOMAIN items /\ items'[i] = items[i]
        BY <2>1 DEF BeginRows
      <3> QED
        BY <3>1 DEF Texts
    <2>2. CASE i \notin K
      <3>1. items'[i].request = 0 /\ items'[i].text = <<>> /\ items'[i].verified = FALSE
        BY <2>2 DEF BeginRows
      <3>2. DOMAIN items'[i].text = {}
        BY <3>1
      <3> QED
        BY <3>1, <3>2
    <2> QED
      BY <2>1, <2>2
  <1>15. OpenRows'
    <2>1. ASSUME NEW i \in DOMAIN items', items'[i].status = "open"
          PROVE  \/ items'[i].turn # 0 /\ turns'[items'[i].turn] = "running"
                 \/ items'[i].by \in disowned
      <3>1. CASE i \in K
        <4>1. i \in DOMAIN items /\ items'[i] = items[i]
          BY <3>1 DEF BeginRows
        <4>2. items[i].turn # 0 => items[i].turn \in Turns
          BY <4>1, Typed DEF Turns
        <4> QED
          BY <1>4, <2>1, <4>1, <4>2 DEF OpenRows
      <3>2. CASE i \notin K
        BY <1>t, <1>4, <3>2 DEF BeginRows
      <3> QED
        BY <3>1, <3>2
    <2> QED
      BY <2>1 DEF OpenRows
  <1> QED
    BY <1>6, <1>7, <1>8, <1>9, <1>10, <1>11, <1>12, <1>13, <1>14, <1>15

(* A transaction that fails, or is not needed, uses up a bound or nothing. *)
LEMMA OutcomeFacts ==
    ASSUME TypeOK, NEW ok, Outcome(ok) PROVE used' \in Used
  <1>1. Spend \/ UNCHANGED used
    BY DEF Outcome
  <1> QED
    BY <1>1, SpendFacts

LEMMA StartImageKeeps ==
    ASSUME IInv, NEW p \in Processes, NEW t \in Turns, NEW ok \in BOOLEAN, StartImage(p, t, ok)
    PROVE  IInv'
  <1> USE DEF IInv
  <1>1. /\ process[p].at = "idle" /\ Fresh(t) /\ used' \in Used
        /\ UNCHANGED <<view, disowned, stranded, said>>
    BY OutcomeFacts DEF StartImage, ghosts
  <1>2. CASE ok
    <2>1. /\ turns' = [turns EXCEPT ![t] = "running"] /\ lifecycle' = "running" /\ Advance
          /\ Active(p, t, "turn", TRUE) /\ UNCHANGED <<items, requests>>
      BY <1>2 DEF StartImage
    <2>2. BeginRows(t, DOMAIN items)
      BY <2>1 DEF BeginRows, TypeOK
    <2>3. BeginTurns(t, DOMAIN items)
      BY <2>1 DEF BeginTurns, TypeOK
    <2>4. Counted' /\ said' \in [Requests -> Nat]
      BY <1>1, <2>1 DEF Counted, TypeOK
    <2>5. /\ view' \in [Processes -> [revision : Nat, items : Seq(Item)]]
          /\ \A q \in Processes : view'[q] \in {view[q], Unseen}
      BY <1>1 DEF TypeOK
    <2>6. TRUE \in BOOLEAN
      OBVIOUS
    <2> QED
      BY <1>1, <2>1, <2>2, <2>3, <2>4, <2>5, <2>6, BeginKeeps
  <1>3. CASE ~ok
    <2>1. UNCHANGED database /\ Active(p, t, "failing", TRUE)
      BY <1>3 DEF StartImage
    <2>2. NoBegin(p, t)
      BY <1>1, <2>1 DEF NoBegin, ghosts
    <2> QED
      BY <1>1, <2>2, NoBeginKeeps
  <1> QED
    BY <1>2, <1>3

LEMMA PromptOfFacts ==
    ASSUME TypeOK, NEW u
    PROVE  /\ PromptOf(u) # 0 => /\ PromptOf(u) \in DOMAIN items
                                 /\ items[PromptOf(u)].kind = "prompt"
                                 /\ items[PromptOf(u)].turn = u
           /\ PromptOf(u) = 0 => \A i \in DOMAIN items : ~(items[i].kind = "prompt" /\ items[i].turn = u)
           /\ PromptOf(u) \in 0..Len(items)
  <1> DEFINE S == {i \in DOMAIN items : items[i].kind = "prompt" /\ items[i].turn = u}
  <1>1. S \subseteq 1..Len(items) /\ Len(items) \in Nat
    BY Typed
  <1>2. PromptOf(u) = LastOf(S)
    BY DEF PromptOf
  <1>3. /\ LastOf(S) \in 0..Len(items) /\ (LastOf(S) = 0 <=> S = {})
        /\ S # {} => LastOf(S) \in S
    <2> HIDE DEF S
    <2> QED
      BY <1>1, LastOfFacts
  <1> QED
    BY <1>2, <1>3

(* The rows before the message that is revised. *)
Prefix(s) ==
    /\ s \in Seq(Item) /\ DOMAIN s \subseteq DOMAIN items
    /\ \A i \in DOMAIN s : s[i] = items[i]

LEMMA TruncatedFacts ==
    ASSUME TypeOK, NEW u, PromptOf(u) # 0
    PROVE  /\ Prefix(Truncated(u)) /\ Len(Truncated(u)) = PromptOf(u) - 1
           /\ DOMAIN Truncated(u) = {i \in DOMAIN items : i < PromptOf(u)}
  <1>0. items \in Seq(Item) /\ Len(items) \in Nat /\ DOMAIN items = 1..Len(items)
    BY Typed DEF TypeOK
  <1>1. PICK n \in 1..Len(items) : n = PromptOf(u)
    BY <1>0, PromptOfFacts
  <1>2. Truncated(u) = SubSeq(items, 1, n - 1)
    BY <1>1 DEF Truncated
  <1>3. /\ Len(SubSeq(items, 1, n - 1)) = n - 1
        /\ \A i \in 1..(n - 1) : SubSeq(items, 1, n - 1)[i] = items[i]
        /\ SubSeq(items, 1, n - 1) \in Seq(Item)
    BY <1>0, <1>1
  <1>4. DOMAIN SubSeq(items, 1, n - 1) = 1..(n - 1)
    BY <1>3
  <1>5. 1..(n - 1) = {i \in DOMAIN items : i < n} /\ 1..(n - 1) \subseteq DOMAIN items
    BY <1>0, <1>1
  <1> QED
    BY <1>1, <1>2, <1>3, <1>4, <1>5 DEF Prefix

(* The prompt of turn t and its empty reply. *)
PromptRow(t) == NewItem(t, "prompt", "completed", t)
ReplyRow(t) == NewItem(t, "assistant", "open", t)

LEMMA TwoRows ==
    ASSUME NEW s \in Seq(Item), NEW a \in Item, NEW b \in Item
    PROVE  /\ s \o <<a, b>> \in Seq(Item) /\ Len(s) \in Nat
           /\ DOMAIN (s \o <<a, b>>) = DOMAIN s \cup {Len(s) + 1, Len(s) + 2}
           /\ Len(s) + 1 \notin DOMAIN s /\ Len(s) + 2 \notin DOMAIN s
           /\ \A i \in DOMAIN s : (s \o <<a, b>>)[i] = s[i]
           /\ (s \o <<a, b>>)[Len(s) + 1] = a /\ (s \o <<a, b>>)[Len(s) + 2] = b
  <1>1. <<a, b>> \in Seq(Item) /\ Len(<<a, b>>) = 2 /\ <<a, b>>[1] = a /\ <<a, b>>[2] = b
    OBVIOUS
  <1>2. DOMAIN s = 1..Len(s) /\ Len(s) \in Nat
    OBVIOUS
  <1>3. s \o <<a, b>> \in Seq(Item) /\ Len(s \o <<a, b>>) = Len(s) + 2
    BY <1>1
  <1>4. DOMAIN (s \o <<a, b>>) = 1..(Len(s) + 2)
    BY <1>3
  <1>5. \A i \in 1..Len(s) : (s \o <<a, b>>)[i] = s[i]
    BY <1>1
  <1>6. (s \o <<a, b>>)[Len(s) + 1] = a /\ (s \o <<a, b>>)[Len(s) + 2] = b
    BY <1>1, <1>2
  <1> QED
    BY <1>2, <1>3, <1>4, <1>5, <1>6

LEMMA RowsOfPrompt ==
    ASSUME NEW t \in Turns
    PROVE  /\ PromptRow(t) \in Item /\ ReplyRow(t) \in Item
           /\ PromptRow(t).turn = t /\ PromptRow(t).kind = "prompt" /\ PromptRow(t).request = 0
           /\ PromptRow(t).text = <<>> /\ PromptRow(t).verified = FALSE
           /\ ReplyRow(t).turn = t /\ ReplyRow(t).kind = "assistant" /\ ReplyRow(t).request = 0
           /\ ReplyRow(t).text = <<>> /\ ReplyRow(t).verified = FALSE
  <1>1. t \in 0..MaxTurns /\ 0 \in 0..MaxTurns /\ 0 \in 0..MaxRequests /\ <<>> \in Seq(Requests)
    BY JournalAssumption DEF Turns
  <1> QED
    BY <1>1 DEF PromptRow, ReplyRow, NewItem, Item, Users

(* What SubmitPrompt writes: kept is what stays of the rows. *)
LEMMA PromptRowsFacts ==
    ASSUME TypeOK, NEW t \in Turns, NEW kept, Prefix(kept),
           items' = kept \o <<PromptRow(t), ReplyRow(t)>>
    PROVE  /\ BeginRows(t, DOMAIN kept)
           /\ \A r \in Requests : Pieces(items', r) = Pieces(kept, r)
  <1> DEFINE n == Len(kept) + 1
             m == Len(kept) + 2
  <1>0. kept \in Seq(Item)
    BY DEF Prefix
  <1>a. PICK a, b : a = PromptRow(t) /\ b = ReplyRow(t)
    OBVIOUS
  <1>b. /\ a \in Item /\ b \in Item
        /\ a.turn = t /\ a.kind = "prompt" /\ a.request = 0 /\ a.text = <<>> /\ a.verified = FALSE
        /\ b.turn = t /\ b.kind = "assistant" /\ b.request = 0 /\ b.text = <<>> /\ b.verified = FALSE
    BY <1>a, RowsOfPrompt
  <1>c. items' = kept \o <<a, b>>
    BY <1>a
  <1>1. /\ items' \in Seq(Item) /\ DOMAIN items' = DOMAIN kept \cup {n, m}
        /\ n \notin DOMAIN kept /\ m \notin DOMAIN kept
        /\ \A i \in DOMAIN kept : items'[i] = kept[i]
        /\ items'[n] = a /\ items'[m] = b
    BY ONLY <1>0, <1>b, <1>c, TwoRows
  <1>2. \A i \in DOMAIN items' \ DOMAIN kept : i = n \/ i = m
    BY ONLY <1>1
  <1>3. \A i \in DOMAIN items' \ DOMAIN kept :
          /\ items'[i].turn = t /\ items'[i].kind \in {"prompt", "assistant"}
          /\ items'[i].request = 0 /\ items'[i].text = <<>> /\ items'[i].verified = FALSE
    BY ONLY <1>1, <1>2, <1>b
  <1>4. \A i \in DOMAIN items' \ DOMAIN kept : items'[i].kind = "prompt" => i = n
    BY ONLY <1>1, <1>2, <1>b
  <1>5. BeginRows(t, DOMAIN kept)
    <2> HIDE DEF n, m
    <2>1. DOMAIN kept \subseteq DOMAIN items /\ \A i \in DOMAIN kept : kept[i] = items[i]
      BY DEF Prefix
    <2> QED
      BY <1>1, <1>3, <1>4, <2>1 DEF BeginRows
  <1>6. ASSUME NEW r \in Requests PROVE Pieces(items', r) = Pieces(kept, r)
    <2> HIDE DEF n, m
    <2>1. /\ DOMAIN kept \subseteq DOMAIN items'
          /\ \A i \in DOMAIN kept : items'[i].text = kept[i].text
          /\ \A i \in DOMAIN items' \ DOMAIN kept : items'[i].text = <<>>
      BY <1>1, <1>3
    <2> QED
      BY <2>1, SameTexts
  <1> QED
    BY <1>5, <1>6

(* The pieces of the rows that stay are counted again. *)
LEMMA KeptPieces ==
    ASSUME TypeOK, Counted, NEW kept, Prefix(kept), NEW r \in Requests
    PROVE  IsFiniteSet(Pieces(kept, r)) /\ Cardinality(Pieces(kept, r)) \in Nat
  <1>1. ASSUME NEW w, w \in Pieces(kept, r) PROVE w \in Pieces(items, r)
    <2>1. PICK i \in DOMAIN kept : \E k \in DOMAIN kept[i].text : w = <<i, k>> /\ kept[i].text[k] = r
      BY <1>1, PieceAt
    <2>2. i \in DOMAIN items /\ kept[i] = items[i]
      BY DEF Prefix
    <2> QED
      BY <2>1, <2>2, PieceAt
  <1>2. IsFiniteSet(Pieces(items, r))
    BY DEF Counted
  <1>3. IsFiniteSet(Pieces(kept, r))
    BY <1>1, <1>2, FS_Subset
  <1> QED
    BY <1>3, FS_CardinalityType

LEMMA SubmitPromptKeeps ==
    ASSUME IInv, NEW p \in Processes, NEW t \in Turns, NEW ok \in BOOLEAN, SubmitPrompt(p, t, ok)
    PROVE  IInv'
  <1> USE DEF IInv
  <1>0. PICK u, kept, cut :
          /\ u = process[p].revise
          /\ kept = (IF u = 0 THEN items ELSE Truncated(u))
          /\ cut = (IF u = 0 THEN {} ELSE TurnsCut(u))
    OBVIOUS
  <1>1. /\ process[p].at = "idle" /\ Fresh(t) /\ Outcome(ok)
        /\ view' = [view EXCEPT ![p] = Unseen] /\ UNCHANGED <<disowned, stranded>>
    BY DEF SubmitPrompt
  <1>2. used' \in Used
    BY <1>1, OutcomeFacts
  <1>3. CASE ok /\ (u # 0 => Truncatable(u, view[p].revision))
    <2>1. /\ items' = kept \o <<PromptRow(t), ReplyRow(t)>>
          /\ turns' = [s \in Turns |-> IF s = t THEN "running"
                                        ELSE IF s \in cut THEN "removed" ELSE turns[s]]
          /\ lifecycle' = "running" /\ Advance /\ Active(p, t, "turn", FALSE)
          /\ said' = (IF u = 0 THEN said ELSE [r \in Requests |-> Cardinality(Pieces(kept, r))])
          /\ UNCHANGED requests
      BY <1>0, <1>3 DEF SubmitPrompt, PromptRow, ReplyRow
    <2>2. u # 0 => PromptOf(u) # 0 /\ \A s \in Turns : turns[s] # "running"
      BY <1>3 DEF Truncatable
    <2>3. Prefix(kept)
      <3>1. CASE u = 0
        BY <1>0, <3>1 DEF Prefix, TypeOK
      <3>2. CASE u # 0
        BY <1>0, <2>2, <3>2, TruncatedFacts
      <3> QED
        BY <3>1, <3>2
    <2>4. /\ BeginRows(t, DOMAIN kept)
          /\ \A r \in Requests : Pieces(items', r) = Pieces(kept, r)
      BY <2>1, <2>3, PromptRowsFacts
    <2>5. BeginTurns(t, DOMAIN kept)
      <3>1. turns' \in [Turns -> {"absent", "running", "removed"} \cup Ends] /\ turns'[t] = "running"
        BY <2>1 DEF TypeOK
      <3>2. CASE u = 0
        <4>1. kept = items /\ cut = {}
          BY <1>0, <3>2
        <4> QED
          BY <2>1, <3>1, <4>1 DEF BeginTurns
      <3>3. CASE u # 0
        BY <2>1, <2>2, <3>1, <3>3 DEF BeginTurns
      <3> QED
        BY <3>2, <3>3
    <2>6. Counted' /\ said' \in [Requests -> Nat]
      <3>1. CASE u = 0
        <4>1. kept = items /\ said' = said
          BY <1>0, <2>1, <3>1
        <4> QED
          BY <2>4, <4>1 DEF Counted, TypeOK
      <3>2. CASE u # 0
        <4>1. said' = [r \in Requests |-> Cardinality(Pieces(kept, r))]
          BY <2>1, <3>2
        <4>2. \A r \in Requests : IsFiniteSet(Pieces(kept, r)) /\ Cardinality(Pieces(kept, r)) \in Nat
          BY <2>3, KeptPieces
        <4>3. \A r \in Requests : said'[r] = Cardinality(Pieces(kept, r))
          BY <4>1
        <4>4. Counted'
          BY <2>4, <4>2, <4>3 DEF Counted
        <4> QED
          BY <4>1, <4>2, <4>4
      <3> QED
        BY <3>1, <3>2
    <2>7. /\ view' \in [Processes -> [revision : Nat, items : Seq(Item)]]
          /\ \A q \in Processes : view'[q] \in {view[q], Unseen}
      BY <1>1, ForgetFacts
    <2>8. FALSE \in BOOLEAN
      OBVIOUS
    <2>9. PICK K : K = DOMAIN kept
      OBVIOUS
    <2>10. BeginRows(t, K) /\ BeginTurns(t, K)
      BY <2>4, <2>5, <2>9
    <2> QED
      BY <1>1, <1>2, <2>1, <2>6, <2>7, <2>8, <2>10, BeginKeeps
  <1>4. CASE ~(ok /\ (u # 0 => Truncatable(u, view[p].revision)))
    <2>1. UNCHANGED <<database, said>> /\ Active(p, t, "failing", FALSE)
      BY <1>0, <1>4 DEF SubmitPrompt
    <2>2. NoBegin(p, t)
      BY <1>1, <2>1 DEF NoBegin, ghosts
    <2> QED
      BY <1>1, <1>2, <2>2, NoBeginKeeps
  <1> QED
    BY <1>3, <1>4

-----------------------------------------------------------------------------
(* The end of a turn, and the opening of the database.                     *)

(* Open rows are closed. *)
Closes ==
    /\ items' \in Seq(Item) /\ DOMAIN items' = DOMAIN items
    /\ \A i \in DOMAIN items :
         /\ Kept(i) /\ items'[i].by = items[i].by
         /\ \/ items'[i].status = items[i].status
            \/ items[i].status = "open" /\ items'[i].status # "open"

LEMMA CloseFacts ==
    ASSUME TypeOK, NEW C, NEW s \in {"completed", "ended"},
           items' = [i \in DOMAIN items |-> IF i \in C THEN [items[i] EXCEPT !.status = s] ELSE items[i]],
           \A i \in DOMAIN items : i \in C => items[i].status = "open"
    PROVE  /\ Closes
           /\ \A i \in DOMAIN items : i \in C => items'[i].status # "open"
  <1>0. items \in Seq(Item)
    BY DEF TypeOK
  <1>1. ASSUME NEW i \in DOMAIN items
        PROVE  /\ items'[i] \in Item
               /\ items'[i].turn = items[i].turn /\ items'[i].kind = items[i].kind
               /\ items'[i].call = items[i].call /\ items'[i].text = items[i].text
               /\ items'[i].request = items[i].request /\ items'[i].verified = items[i].verified
               /\ items'[i].by = items[i].by
               /\ i \in C => items'[i].status = s
               /\ i \notin C => items'[i].status = items[i].status
    <2>0. items[i] \in Item
      BY Typed
    <2>1. CASE i \in C
      <3>1. items'[i] = [items[i] EXCEPT !.status = s]
        BY <2>1
      <3> QED
        BY ONLY <2>0, <2>1, <3>1, s \in {"completed", "ended"} DEF Item
    <2>2. CASE i \notin C
      <3>1. items'[i] = items[i]
        BY <2>2
      <3> QED
        BY ONLY <2>0, <2>2, <3>1
    <2> QED
      BY <2>1, <2>2
  <1>2. items' \in [DOMAIN items -> Item]
    <2>1. items' = [i \in DOMAIN items |-> items'[i]]
      OBVIOUS
    <2> QED
      BY <1>1, <2>1
  <1>3. items' \in Seq(Item) /\ DOMAIN items' = DOMAIN items
    BY <1>0, <1>2, FunctionIsSeq
  <1>4. \A i \in DOMAIN items : i \in C => items'[i].status # "open"
    BY <1>1
  <1>5. ASSUME NEW i \in DOMAIN items
        PROVE  /\ Kept(i) /\ items'[i].by = items[i].by
               /\ \/ items'[i].status = items[i].status
                  \/ items[i].status = "open" /\ items'[i].status # "open"
    BY <1>1, <1>3, <1>4 DEF Kept
  <1> QED
    BY <1>3, <1>4, <1>5 DEF Closes

(* Running requests fail. *)
Fails ==
    /\ requests' \in [Requests -> RequestRecord]
    /\ \A r \in Requests :
         /\ requests'[r].turn = requests[r].turn /\ requests'[r].verified = requests[r].verified
         /\ \/ requests'[r].state = requests[r].state
            \/ requests[r].state = "running" /\ requests'[r].state = "failed"

LEMMA ClosedRows ==
    ASSUME TypeOK, Shapes, Texts, Counted, RequestsBegun, Closes, Fails,
           disowned \subseteq disowned', UNCHANGED said,
           \A s \in Turns : turns[s] # "absent" => turns'[s] # "absent"
    PROVE  Shapes' /\ Texts' /\ Counted' /\ RequestsBegun'
  <1>0. /\ DOMAIN items' = DOMAIN items
        /\ \A i \in DOMAIN items :
             /\ items'[i].turn = items[i].turn /\ items'[i].kind = items[i].kind
             /\ items'[i].call = items[i].call /\ items'[i].text = items[i].text
             /\ items'[i].request = items[i].request /\ items'[i].verified = items[i].verified
             /\ items[i].status = "completed" => items'[i].status = "completed"
    BY DEF Closes, Kept
  <1>1. Shapes'
    <2>1. \A i \in DOMAIN items' :
            items'[i].kind = "tool" => items'[i].turn = items'[i].call \/ items'[i].call \in disowned'
      BY <1>0 DEF Shapes
    <2>2. ASSUME NEW i \in DOMAIN items', items'[i].kind = "prompt"
          PROVE  items'[i].turn # 0 /\ turns'[items'[i].turn] # "absent"
      <3>1. items[i].turn # 0 /\ turns[items[i].turn] # "absent"
        BY <1>0, <2>2 DEF Shapes
      <3>2. items[i].turn \in Turns
        BY <1>0, <3>1, Typed DEF Turns
      <3> QED
        BY <1>0, <3>1, <3>2
    <2>3. \A i, j \in DOMAIN items' :
            items'[i].kind = "prompt" /\ items'[j].kind = "prompt" /\ items'[i].turn = items'[j].turn
              => i = j
      BY <1>0 DEF Shapes
    <2> QED
      BY <2>1, <2>2, <2>3 DEF Shapes
  <1>2. Texts'
    <2> SUFFICES ASSUME NEW i \in DOMAIN items
                 PROVE  /\ items'[i].kind \notin {"assistant", "reasoning"} =>
                             items'[i].request = 0 /\ items'[i].text = <<>>
                        /\ items'[i].request = 0 => ~items'[i].verified
                        /\ items'[i].request # 0 =>
                             /\ items'[i].verified <=> requests'[items'[i].request].verified
                             /\ items'[i].verified => items'[i].status = "completed"
                        /\ \A k \in DOMAIN items'[i].text :
                             /\ items'[i].request \in {0, items'[i].text[k]}
                             /\ requests'[items'[i].text[k]].state # "absent"
                             /\ items'[i].request = 0 => requests'[items'[i].text[k]].turn \in disowned'
      BY <1>0 DEF Texts
    <2>1. /\ items'[i].kind \notin {"assistant", "reasoning"} =>
               items'[i].request = 0 /\ items'[i].text = <<>>
          /\ items'[i].request = 0 => ~items'[i].verified
      BY <1>0 DEF Texts
    <2>2. items'[i].request # 0 =>
             /\ items'[i].verified <=> requests'[items'[i].request].verified
             /\ items'[i].verified => items'[i].status = "completed"
      <3>1. items[i].request # 0 => items[i].request \in Requests
        BY Typed DEF Requests
      <3> QED
        BY <1>0, <3>1 DEF Texts, Fails
    <2>3. \A k \in DOMAIN items'[i].text :
             /\ items'[i].request \in {0, items'[i].text[k]}
             /\ requests'[items'[i].text[k]].state # "absent"
             /\ items'[i].request = 0 => requests'[items'[i].text[k]].turn \in disowned'
      <3>1. \A k \in DOMAIN items[i].text : items[i].text[k] \in Requests
        BY Typed
      <3>2. \A r \in Requests : /\ requests'[r].turn = requests[r].turn
                                /\ requests[r].state # "absent" => requests'[r].state # "absent"
        BY DEF Fails
      <3> QED
        BY <1>0, <3>1, <3>2 DEF Texts
    <2> QED
      BY <2>1, <2>2, <2>3
  <1>3. Counted'
    <2>1. \A r \in Requests : Pieces(items', r) = Pieces(items, r)
      BY <1>0, SameTexts
    <2> QED
      BY <2>1 DEF Counted
  <1>4. RequestsBegun'
    <2>1. ASSUME NEW r \in Requests
          PROVE  /\ requests'[r].state # "absent" =>
                      requests'[r].turn # 0 /\ turns'[requests'[r].turn] # "absent"
                 /\ requests'[r].state = "absent" => requests'[r].turn = 0
                 /\ requests'[r].state \in {"absent", "running"} => ~requests'[r].verified
      <3>1. requests'[r].state # "absent" => requests[r].state # "absent"
        BY DEF Fails
      <3>2. requests[r].turn # 0 => requests[r].turn \in Turns
        BY Typed DEF Turns
      <3> QED
        BY <3>1, <3>2 DEF Fails, RequestsBegun
    <2> QED
      BY <2>1 DEF RequestsBegun
  <1> QED
    BY <1>1, <1>2, <1>3, <1>4

(* A driver lets its turn go. *)
LEMMA ReleaseFacts ==
    ASSUME TypeOK, NEW p \in Processes, Release(p)
    PROVE  /\ Alone(p) /\ process'[p].at = "idle" /\ process'[p].turn = 0
           /\ process' \in [Processes -> Process]
           /\ \A q \in Processes : q # p => process'[q] = process[q]
  <1> DEFINE x == [Down EXCEPT !.at = "idle", !.lifecycle = "ready"]
  <1>1. x \in Process /\ x.at = "idle" /\ x.turn = 0 /\ x.revise = 0 /\ x.lifecycle = "ready"
    <2>1. 0 \in 0..MaxTurns /\ 0 \in 0..MaxRequests
      BY JournalAssumption
    <2> QED
      BY <2>1 DEF Down, Process
  <1>2. process' = [process EXCEPT ![p] = x]
    BY DEF Release
  <1> HIDE DEF x
  <1>3. /\ process' \in [Processes -> Process] /\ process'[p] = x
        /\ \A q \in Processes : q # p => process'[q] = process[q]
    BY <1>1, <1>2, ReplaceFacts
  <1> QED
    BY <1>1, <1>3 DEF Alone, Driving

LEMMA SettleFacts ==
    ASSUME TypeOK, NEW t \in Turns, NEW s \in Ends,
           items' = SettleItems(t, s), requests' = SettleRequests(t, s)
    PROVE  /\ Closes /\ Fails
           /\ \A i \in DOMAIN items : items[i].turn = t => items'[i].status # "open"
           /\ \A r \in Requests : requests[r].turn # t => requests'[r] = requests[r]
  <1> DEFINE C == {i \in DOMAIN items : items[i].turn = t /\ items[i].status = "open"}
  <1>1. PICK e \in {"completed", "ended"} : e = IF s = "completed" THEN s ELSE "ended"
    OBVIOUS
  <1>2. items' = [i \in DOMAIN items |-> IF i \in C THEN [items[i] EXCEPT !.status = e] ELSE items[i]]
    BY <1>1 DEF SettleItems
  <1>3. \A i \in DOMAIN items : i \in C => items[i].status = "open"
    OBVIOUS
  <1>4. Closes /\ \A i \in DOMAIN items : i \in C => items'[i].status # "open"
    <2> HIDE DEF C
    <2> QED
      BY <1>2, <1>3, CloseFacts
  <1>5. \A i \in DOMAIN items : items[i].turn = t => items'[i].status # "open"
    BY <1>4 DEF Closes
  <1>6. requests \in [Requests -> RequestRecord]
    BY DEF TypeOK, RequestRecord
  <1>7. ASSUME NEW r \in Requests
        PROVE  /\ requests'[r] \in RequestRecord
               /\ requests'[r].turn = requests[r].turn /\ requests'[r].verified = requests[r].verified
               /\ \/ requests'[r].state = requests[r].state
                  \/ requests[r].state = "running" /\ requests'[r].state = "failed"
               /\ requests[r].turn # t => requests'[r] = requests[r]
    <2>0. requests[r] \in RequestRecord
      BY <1>6
    <2>1. CASE requests[r].turn = t /\ requests[r].state = "running" /\ s # "completed"
      <3>1. requests'[r] = [requests[r] EXCEPT !.state = "failed"]
        BY <2>1 DEF SettleRequests
      <3> QED
        BY ONLY <2>0, <2>1, <3>1 DEF RequestRecord
    <2>2. CASE ~(requests[r].turn = t /\ requests[r].state = "running" /\ s # "completed")
      <3>1. requests'[r] = requests[r]
        BY <2>2 DEF SettleRequests
      <3> QED
        BY ONLY <2>0, <3>1
    <2> QED
      BY <2>1, <2>2
  <1>8. Fails
    <2>1. requests' = [r \in Requests |-> requests'[r]]
      BY DEF SettleRequests
    <2>2. requests' \in [Requests -> RequestRecord]
      BY <1>7, <2>1
    <2> QED
      BY <1>7, <2>2 DEF Fails
  <1> QED
    BY <1>4, <1>5, <1>7, <1>8

LEMMA EndKeeps ==
    ASSUME IInv, NEW p \in Processes, NEW s \in {"completed", "cancelled", "failed"}, NEW ok \in BOOLEAN,
           Driving(p), Outcome(ok), WriteEnd(process[p].turn, s, ok), Release(p),
           UNCHANGED <<view, disowned, said>>
    PROVE  IInv'
  <1> USE DEF IInv
  <1>0. PICK t \in Turns : t = process[p].turn
    BY TurnOfDriver
  <1>t. t # 0
    BY JournalAssumption DEF Turns
  <1>1. used' \in Used
    BY OutcomeFacts
  <1>2. /\ Alone(p) /\ process'[p].at = "idle" /\ process'[p].turn = 0
        /\ process' \in [Processes -> Process]
        /\ \A q \in Processes : q # p => process'[q] = process[q]
    BY ReleaseFacts
  <1>3. \A q \in Processes : q # p => process[q].turn # t
    BY <1>0, <1>t DEF Drivers
  <1>4. /\ view' \in [Processes -> [revision : Nat, items : Seq(Item)]]
        /\ \A q \in Processes : view'[q] \in {view[q], Unseen}
    BY DEF TypeOK
  <1>5. CASE ok /\ Finishable(t)
    <2>1. /\ turns' = [turns EXCEPT ![t] = s] /\ items' = SettleItems(t, s)
          /\ requests' = SettleRequests(t, s) /\ lifecycle' = "ready" /\ Advance /\ UNCHANGED stranded
      BY <1>0, <1>5 DEF WriteEnd, finish_turn
    <2>2. s \in Ends /\ s # "running" /\ s # "absent"
      BY DEF Ends
    <2>3. /\ Closes /\ Fails
          /\ \A i \in DOMAIN items : items[i].turn = t => items'[i].status # "open"
          /\ \A r \in Requests : requests[r].turn # t => requests'[r] = requests[r]
      BY <2>1, <2>2, SettleFacts
    <2>4. /\ turns' \in [Turns -> {"absent", "running", "removed"} \cup Ends]
          /\ turns'[t] = s /\ \A x \in Turns : x # t => turns'[x] = turns[x]
      BY <2>1, <2>2 DEF TypeOK
    <2>5. Shapes' /\ Texts' /\ Counted' /\ RequestsBegun'
      <3>1. \A x \in Turns : turns[x] # "absent" => turns'[x] # "absent"
        BY <2>2, <2>4
      <3> QED
        BY <2>3, <3>1, ClosedRows
    <2>6. OpenRows'
      <3>1. ASSUME NEW i \in DOMAIN items, items'[i].status = "open"
            PROVE  \/ items'[i].turn # 0 /\ turns'[items'[i].turn] = "running"
                   \/ items'[i].by \in disowned
        <4>1. items[i].status = "open" /\ items[i].turn # t
          BY <2>3, <3>1 DEF Closes
        <4>2. items[i].turn # 0 => items[i].turn \in Turns
          BY Typed DEF Turns
        <4>3. items'[i].turn = items[i].turn /\ items'[i].by = items[i].by
          BY <2>3 DEF Closes, Kept
        <4> QED
          BY <2>4, <4>1, <4>2, <4>3 DEF OpenRows
      <3> QED
        BY <2>3, <3>1 DEF OpenRows, Closes
    <2>7. Views' /\ revision' \in Nat
      BY <1>4, <2>1, ViewsStep
    <2>8. TypeOK'
      BY <1>1, <1>2, <1>4, <2>1, <2>3, <2>4, <2>7 DEF TypeOK, Closes, Fails, RequestRecord, Used
    <2>9. Drivers'
      <3>1. ASSUME NEW q \in Processes, q # p, process[q].at = "turn"
            PROVE  /\ turns'[process[q].turn] # "absent"
                   /\ turns'[process[q].turn] = "running" \/ process[q].turn \in disowned'
        <4>1. process[q].turn \in Turns /\ process[q].turn # t
          BY <1>3, <3>1, DriverRunning
        <4> QED
          BY <2>4, <3>1, <4>1 DEF Drivers
      <3> QED
        BY <1>2, <3>1, DriversStep
    <2>10. Driven'
      <3>1. ASSUME NEW x \in Turns, turns'[x] = "running"
            PROVE  x \in stranded \/ \E q \in Processes : Driving(q)' /\ process'[q].turn = x
        <4>1. x # t /\ turns[x] = "running"
          BY <2>2, <2>4, <3>1
        <4>2. x \in stranded \/ \E q \in Processes : Driving(q) /\ process[q].turn = x
          BY <4>1 DEF Driven
        <4>3. \A q \in Processes : process[q].turn = x => q # p
          BY <1>0, <4>1
        <4> QED
          BY <1>2, <4>2, <4>3 DEF Driving
      <3> QED
        BY <2>1, <3>1 DEF Driven
    <2>11. ToolRows'
      <3>1. \A q \in Processes : process'[q].at = "turn" => q # p /\ process'[q] = process[q]
        BY <1>2
      <3>2. \A i \in DOMAIN items : i \in DOMAIN items' /\ items'[i].kind = items[i].kind
                                    /\ items'[i].call = items[i].call
        BY <2>3 DEF Closes, Kept
      <3> QED
        BY <3>1, <3>2 DEF ToolRows
    <2>12. Streams'
      <3>1. \A q \in Processes : process'[q].at = "turn" =>
              q # p /\ process'[q] = process[q] /\ process[q].turn # t
        BY <1>2, <1>3
      <3>2. ASSUME NEW q \in Processes, process'[q].at = "turn", process'[q].phase = "request"
            PROVE  /\ process'[q].request \in Requests
                   /\ requests'[process'[q].request].turn = process'[q].turn
                   /\ requests'[process'[q].request].state # "absent"
                   /\ ~requests'[process'[q].request].verified
                   /\ \/ requests'[process'[q].request].state = "running"
                      \/ process'[q].turn \in disowned'
        <4>1. process'[q] = process[q] /\ process[q].turn # t
          BY <3>1, <3>2
        <4>2. process[q].request \in Requests /\ requests[process[q].request].turn = process[q].turn
          BY <3>2, <4>1 DEF Streams
        <4>3. requests'[process[q].request] = requests[process[q].request]
          BY <2>3, <4>1, <4>2
        <4> QED
          BY <3>2, <4>1, <4>3 DEF Streams
      <3>3. ASSUME NEW q \in Processes, NEW o \in Requests, process'[q].at = "turn",
                   requests'[o].turn = process'[q].turn, requests'[o].state = "running"
            PROVE  process'[q].phase = "request" /\ process'[q].request = o
        <4>1. requests[o].turn = process'[q].turn /\ requests[o].state = "running"
          BY <2>3, <3>3 DEF Fails
        <4> QED
          BY <3>1, <3>3, <4>1 DEF Streams
      <3> QED
        BY <3>2, <3>3 DEF Streams
    <2> QED
      BY <2>5, <2>6, <2>7, <2>8, <2>9, <2>10, <2>11, <2>12
  <1>6. CASE ~(ok /\ Finishable(t))
    <2>1. /\ UNCHANGED <<revision, lifecycle, turns, items, requests>>
          /\ stranded' = stranded \cup {x \in Turns : x = t /\ turns[t] = "running"}
      BY <1>0, <1>6 DEF WriteEnd, database
    <2>2. RequestsBegun' /\ Shapes' /\ Texts' /\ Counted' /\ OpenRows'
      BY <2>1, RowsFrame
    <2>3. ToolRows' /\ Streams'
      BY <1>2, <2>1, OthersFrame
    <2>4. Drivers'
      <3>1. \A q \in Processes : q # p /\ process[q].at = "turn" =>
               /\ turns'[process[q].turn] # "absent"
               /\ turns'[process[q].turn] = "running" \/ process[q].turn \in disowned'
        BY <2>1 DEF Drivers
      <3> QED
        BY <1>2, <3>1, DriversStep
    <2>5. Driven'
      <3>1. ASSUME NEW x \in Turns, turns[x] = "running"
            PROVE  x \in stranded' \/ \E q \in Processes : Driving(q)' /\ process'[q].turn = x
        <4>1. CASE x = t
          BY <2>1, <3>1, <4>1
        <4>2. CASE x # t
          <5>1. x \in stranded \/ \E q \in Processes : Driving(q) /\ process[q].turn = x
            BY <3>1 DEF Driven
          <5>2. \A q \in Processes : process[q].turn = x => q # p
            BY <1>0, <4>2
          <5>3. CASE x \in stranded
            BY <2>1, <5>3
          <5>4. CASE x \notin stranded
            BY <1>2, <5>1, <5>2, <5>4 DEF Driving
          <5> QED
            BY <5>3, <5>4
        <4> QED
          BY <4>1, <4>2
      <3> QED
        BY <2>1, <3>1 DEF Driven
    <2>6. Views'
      BY <1>4, <2>1, ViewsFrame
    <2>7. TypeOK'
      <3>1. stranded' \subseteq Turns
        BY <2>1 DEF TypeOK
      <3> QED
        BY <1>1, <1>2, <1>4, <2>1, <3>1 DEF TypeOK, Used
    <2> QED
      BY <2>2, <2>3, <2>4, <2>5, <2>6, <2>7
  <1> QED
    BY <1>5, <1>6

LEMMA EndsKeep ==
    ASSUME IInv, NEW p \in Processes, NEW s \in {"completed", "cancelled", "failed"}, NEW ok \in BOOLEAN,
           EndTurn(p, s, ok) \/ FailActivePrompt(p, s, ok)
    PROVE  IInv'
  <1>1. /\ Driving(p) /\ Outcome(ok) /\ WriteEnd(process[p].turn, s, ok) /\ Release(p)
        /\ UNCHANGED <<view, disowned, said>>
    BY DEF EndTurn, FailActivePrompt, Driving
  <1> QED
    BY <1>1, EndKeeps

LEMMA OpenKeeps ==
    ASSUME IInv, NEW p \in Processes, Open(p) PROVE IInv'
  <1> USE DEF IInv
  <1> DEFINE Interrupted(t) == t # 0 /\ (turns[t] = "running" \/ turns[t] = "interrupted")
             C == {i \in DOMAIN items : items[i].status = "open" /\ Interrupted(items[i].turn)}
  <1>0. PICK running : running = {t \in Turns : turns[t] = "running"}
    OBVIOUS
  <1>1. /\ process[p].at = "down" /\ used.opens < MaxOpens
        /\ process' = [process EXCEPT ![p].at = "up"] /\ stranded' = {}
        /\ disowned' = disowned \cup {t \in running : \E q \in Processes : process[q].turn = t}
        /\ used' = [used EXCEPT !.opens = used.opens + 1] /\ UNCHANGED <<view, said>>
    BY <1>0 DEF Open
  <1>2. requests' = [r \in Requests |-> IF requests[r].state = "running"
                        THEN [requests[r] EXCEPT !.state = "failed", !.verified = FALSE]
                        ELSE requests[r]]
    BY DEF Open
  <1>3. IF running = {} THEN UNCHANGED <<revision, lifecycle, turns, items>>
        ELSE /\ turns' = [t \in Turns |-> IF t \in running THEN "interrupted" ELSE turns[t]]
             /\ items' = [i \in DOMAIN items |->
                            IF items[i].status = "open" /\ items[i].turn # 0
                               /\ (items[i].turn \in running \/ turns[items[i].turn] = "interrupted")
                            THEN [items[i] EXCEPT !.status = "ended"] ELSE items[i]]
             /\ lifecycle' = "ready" /\ Advance
    BY <1>0 DEF Open
  <1>4. Fails /\ \A r \in Requests : requests'[r].state # "running"
    <2>1. requests \in [Requests -> RequestRecord]
      BY DEF TypeOK, RequestRecord
    <2>2. ASSUME NEW r \in Requests
          PROVE  /\ requests'[r] \in RequestRecord
                 /\ requests'[r].turn = requests[r].turn /\ requests'[r].verified = requests[r].verified
                 /\ \/ requests'[r].state = requests[r].state
                    \/ requests[r].state = "running" /\ requests'[r].state = "failed"
                 /\ requests'[r].state # "running"
      <3>0. requests[r] \in RequestRecord
        BY <2>1
      <3>1. CASE requests[r].state = "running"
        <4>1. requests'[r] = [requests[r] EXCEPT !.state = "failed", !.verified = FALSE]
          BY <1>2, <3>1
        <4>2. requests[r].verified = FALSE
          BY <3>1, Typed DEF RequestsBegun
        <4> QED
          BY ONLY <3>0, <3>1, <4>1, <4>2 DEF RequestRecord
      <3>2. CASE requests[r].state # "running"
        <4>1. requests'[r] = requests[r]
          BY <1>2, <3>2
        <4> QED
          BY ONLY <3>0, <3>2, <4>1
      <3> QED
        BY <3>1, <3>2
    <2>3. requests' \in [Requests -> RequestRecord]
      <3>1. requests' = [r \in Requests |-> requests'[r]]
        BY <1>2
      <3> QED
        BY <2>2, <3>1
    <2> QED
      BY <2>2, <2>3 DEF Fails
  <1>5. /\ turns' \in [Turns -> {"absent", "running", "removed"} \cup Ends]
        /\ \A t \in Turns : IF turns[t] = "running" THEN turns'[t] = "interrupted"
                            ELSE turns'[t] = turns[t]
    <2>1. CASE running = {}
      <3>1. \A t \in Turns : turns[t] # "running"
        BY <1>0, <2>1
      <3> QED
        BY <1>3, <2>1, <3>1 DEF TypeOK
    <2>2. CASE running # {}
      BY <1>0, <1>3, <2>2 DEF TypeOK, Ends
    <2> QED
      BY <2>1, <2>2
  <1>6. Closes /\ \A i \in DOMAIN items : items'[i].status = "open" =>
                     ~(items[i].turn # 0 /\ turns[items[i].turn] = "running")
    <2>1. CASE running = {}
      <3>1. items' = items
        BY <1>3, <2>1
      <3>2. Closes
        BY <3>1 DEF Closes, Kept, TypeOK
      <3>3. \A i \in DOMAIN items : ~(items[i].turn # 0 /\ turns[items[i].turn] = "running")
        <4>1. \A i \in DOMAIN items : items[i].turn # 0 => items[i].turn \in Turns
          BY Typed DEF Turns
        <4> QED
          BY <1>0, <2>1, <4>1
      <3> QED
        BY <3>2, <3>3
    <2>2. CASE running # {}
      <3>0. \A i \in DOMAIN items : items[i].turn # 0 => items[i].turn \in Turns
        BY Typed DEF Turns
      <3>1. \A i \in DOMAIN items : i \in C <=>
              items[i].status = "open" /\ items[i].turn # 0
              /\ (items[i].turn \in running \/ turns[items[i].turn] = "interrupted")
        BY <1>0, <3>0
      <3>2. items' = [i \in DOMAIN items |->
                        IF i \in C THEN [items[i] EXCEPT !.status = "ended"] ELSE items[i]]
        <4> HIDE DEF C
        <4> QED
          BY <1>3, <2>2, <3>1
      <3>3. \A i \in DOMAIN items : i \in C => items[i].status = "open"
        OBVIOUS
      <3>4. Closes /\ \A i \in DOMAIN items : i \in C => items'[i].status # "open"
        <4> HIDE DEF C
        <4> QED
          BY <3>2, <3>3, CloseFacts
      <3> QED
        BY <3>4 DEF Closes
    <2> QED
      BY <2>1, <2>2
  <1> HIDE DEF C, Interrupted
  <1>7. disowned \subseteq disowned' /\ disowned' \subseteq Turns
    BY <1>0, <1>1 DEF TypeOK
  <1>8. Shapes' /\ Texts' /\ Counted' /\ RequestsBegun'
    <2>1. \A s \in Turns : turns[s] # "absent" => turns'[s] # "absent"
      BY <1>5
    <2> QED
      BY <1>1, <1>4, <1>6, <1>7, <2>1, ClosedRows
  <1>9. OpenRows'
    <2>1. ASSUME NEW i \in DOMAIN items, items'[i].status = "open" PROVE items'[i].by \in disowned'
      <3>1. items[i].status = "open" /\ items'[i].by = items[i].by
        BY <1>6, <2>1 DEF Closes
      <3>2. ~(items[i].turn # 0 /\ turns[items[i].turn] = "running")
        BY <1>6, <2>1
      <3> QED
        BY <1>7, <3>1, <3>2 DEF OpenRows
    <2> QED
      BY <1>6, <2>1 DEF OpenRows, Closes
  <1>10. /\ process' \in [Processes -> Process] /\ Alone(p) /\ process'[p].at = "up"
         /\ \A q \in Processes : q # p => process'[q] = process[q]
    <2>1. process[p] \in Process /\ process'[p] = [process[p] EXCEPT !.at = "up"]
      BY <1>1 DEF TypeOK
    <2>2. /\ process'[p] \in Process /\ process'[p].at = "up"
          /\ process'[p].lifecycle = process[p].lifecycle /\ process'[p].revise = process[p].revise
          /\ process'[p].turn = process[p].turn /\ process'[p].phase = process[p].phase
      BY ONLY <2>1 DEF Process
    <2>3. /\ \A q \in Processes : q # p => process'[q] = process[q]
          /\ process' = [q \in Processes |-> process'[q]]
      BY <1>1 DEF TypeOK
    <2>4. process' \in [Processes -> Process]
      <3>1. \A q \in Processes : process'[q] \in Process
        BY <2>2, <2>3 DEF TypeOK
      <3> QED
        BY <2>3, <3>1
    <2>5. process[p].turn = 0 /\ process[p].revise = 0
      BY <1>1 DEF Drivers, Driving
    <2>6. Alone(p)
      BY <2>2, <2>3, <2>4, <2>5 DEF Alone, Driving, Drivers
    <2> QED
      BY <2>2, <2>3, <2>4, <2>6
  <1>11. \A q \in Processes : process[q].at = "turn" => process[q].turn \in disowned'
    <2>1. ASSUME NEW q \in Processes, process[q].at = "turn" PROVE process[q].turn \in disowned'
      <3>1. process[q].turn \in Turns /\ (turns[process[q].turn] = "running" \/ process[q].turn \in disowned)
        BY <2>1, DriverRunning
      <3> QED
        BY <1>0, <1>1, <3>1
    <2> QED
      BY <2>1
  <1>12. Drivers'
    <2>1. ASSUME NEW q \in Processes, q # p, process[q].at = "turn"
          PROVE  /\ turns'[process[q].turn] # "absent"
                 /\ turns'[process[q].turn] = "running" \/ process[q].turn \in disowned'
      <3>1. process[q].turn \in Turns /\ turns[process[q].turn] # "absent"
        BY <2>1, DriverRunning DEF Drivers
      <3> QED
        BY <1>5, <1>11, <2>1, <3>1
    <2> QED
      BY <1>10, <2>1, DriversStep
  <1>13. ToolRows' /\ Driven'
    <2>1. \A q \in Processes : process'[q].at = "turn" => process'[q].turn \in disowned'
      BY <1>10, <1>11
    <2> QED
      BY <1>5, <2>1 DEF ToolRows, Driven
  <1>14. Streams'
    <2>1. \A q \in Processes : process'[q].at = "turn" => process'[q] = process[q] /\ q # p
      BY <1>10
    <2>2. ASSUME NEW q \in Processes, process'[q].at = "turn", process'[q].phase = "request"
          PROVE  /\ process'[q].request \in Requests
                 /\ requests'[process'[q].request].turn = process'[q].turn
                 /\ requests'[process'[q].request].state # "absent"
                 /\ ~requests'[process'[q].request].verified
                 /\ process'[q].turn \in disowned'
      <3>1. process'[q] = process[q]
        BY <2>1, <2>2
      <3>2. /\ process[q].request \in Requests
            /\ requests[process[q].request].turn = process[q].turn
            /\ requests[process[q].request].state # "absent"
            /\ ~requests[process[q].request].verified
        BY <2>2, <3>1 DEF Streams
      <3> QED
        BY <1>4, <1>11, <2>2, <3>1, <3>2 DEF Fails
    <2> QED
      BY <1>4, <2>2 DEF Streams
  <1>15. Views' /\ revision' \in Nat /\ lifecycle' \in Lifecycles
    <2>0. /\ view' \in [Processes -> [revision : Nat, items : Seq(Item)]]
          /\ \A q \in Processes : view'[q] \in {view[q], Unseen}
      BY <1>1 DEF TypeOK
    <2>1. CASE running = {}
      <3>1. UNCHANGED <<revision, lifecycle, items>>
        BY <1>3, <2>1
      <3> QED
        BY <2>0, <3>1, ViewsFrame DEF TypeOK, Lifecycles
    <2>2. CASE running # {}
      <3>1. lifecycle' = "ready" /\ Advance
        BY <1>3, <2>2
      <3> QED
        BY <2>0, <3>1, ViewsStep DEF Lifecycles
    <2> QED
      BY <2>1, <2>2
  <1>16. TypeOK'
    <2>1. used' \in Used
      <3>1. used \in Used /\ used.opens + 1 \in 0..MaxOpens
        BY <1>1, JournalAssumption DEF TypeOK, Used
      <3> QED
        BY <1>1, <3>1 DEF Used
    <2>2. view' \in [Processes -> [revision : Nat, items : Seq(Item)]] /\ said' \in [Requests -> Nat]
      BY <1>1 DEF TypeOK
    <2>3. items' \in Seq(Item) /\ requests' \in [Requests -> RequestRecord]
      BY <1>4, <1>6 DEF Closes, Fails
    <2>4. stranded' \subseteq Turns
      BY <1>1
    <2> QED
      BY <1>5, <1>7, <1>10, <1>15, <2>1, <2>2, <2>3, <2>4 DEF TypeOK, RequestRecord, Lifecycles, Used
  <1> QED
    BY <1>8, <1>9, <1>12, <1>13, <1>14, <1>15, <1>16

-----------------------------------------------------------------------------
(* The invariant.                                                          *)

LEMMA InitKeeps == Init => IInv
  <1> SUFFICES ASSUME Init PROVE IInv
    OBVIOUS
  <1>0. 0 \in 0..MaxTurns /\ 0 \in 0..MaxRequests /\ 0 \in 0..MaxEvents /\ 0 \in 0..MaxOpens
    BY JournalAssumption
  <1>1. items = <<>> /\ DOMAIN items = {} /\ items \in Seq(Item)
    BY DEF Init
  <1>2. \A p \in Processes : process[p] = Down
    BY DEF Init
  <1>3. \A r \in Requests : requests[r] = [turn |-> 0, state |-> "absent", verified |-> FALSE]
    BY DEF Init
  <1>4. process \in [Processes -> Process]
    BY DownFacts DEF Init
  <1>5. view \in [Processes -> [revision : Nat, items : Seq(Item)]] /\ \A p \in Processes : view[p] = Unseen
    BY UnseenTyped DEF Init
  <1>6. TypeOK
    BY <1>0, <1>1, <1>4, <1>5 DEF Init, TypeOK
  <1>7. Drivers /\ ToolRows
    BY <1>2, DownFacts DEF Drivers, ToolRows, Driving
  <1>8. Streams
    BY <1>2, DownFacts DEF Streams
  <1>9. RequestsBegun
    BY <1>3 DEF RequestsBegun
  <1>10. Shapes /\ Texts /\ OpenRows
    BY <1>1 DEF Shapes, Texts, OpenRows
  <1>11. Counted
    <2>1. \A r \in Requests : Pieces(items, r) = {}
      BY <1>1 DEF Pieces
    <2>2. IsFiniteSet({}) /\ Cardinality({}) = 0
      BY FS_EmptySet
    <2> QED
      BY <2>1, <2>2 DEF Counted, Init
  <1>12. Driven
    BY DEF Driven, Init
  <1>13. Views
    <2>1. Unseen.revision = 0
      BY DEF Unseen
    <2> QED
      BY <1>5, <2>1 DEF Views, Init
  <1> QED
    BY <1>6, <1>7, <1>8, <1>9, <1>10, <1>11, <1>12, <1>13 DEF IInv

LEMMA NextKeeps == IInv /\ [Next]_vars => IInv'
  <1> SUFFICES ASSUME IInv, [Next]_vars PROVE IInv'
    OBVIOUS
  <1>1. CASE UNCHANGED vars
    <2>1. UNCHANGED <<revision, lifecycle, turns, items, requests, process, view, disowned, stranded,
                      said, used>>
      BY <1>1 DEF vars, database, ghosts
    <2>2. RequestsBegun' /\ Shapes' /\ Texts' /\ Counted' /\ OpenRows'
      BY <2>1, RowsFrame DEF IInv
    <2>3. TypeOK'
      BY <2>1 DEF IInv, TypeOK
    <2>4. \A p \in Processes : Driving(p)' <=> Driving(p)
      BY <2>1 DEF Driving
    <2>5. Drivers' /\ Driven'
      BY <2>1, <2>4 DEF IInv, Drivers, Driven
    <2>6. ToolRows' /\ Streams'
      BY <2>1 DEF IInv, ToolRows, Streams
    <2>7. Views'
      BY <2>1 DEF IInv, Views
    <2> QED
      BY <2>2, <2>3, <2>5, <2>6, <2>7 DEF IInv
  <1>2. ASSUME NEW p \in Processes,
               \/ Open(p) \/ Crash(p) \/ Load(p) \/ Look(p) \/ Annotate(p) \/ AppendFails(p)
               \/ AbandonRevision(p) \/ \E u \in Turns : PrepareRevision(p, u)
        PROVE  IInv'
    BY <1>2, OpenKeeps, CrashKeeps, LoadKeeps, LookKeeps, AnnotateKeeps, AppendFailsKeeps, RevisionsKeep
  <1>3. ASSUME NEW p \in Processes, NEW t \in Turns, NEW ok \in BOOLEAN,
               SubmitPrompt(p, t, ok) \/ StartImage(p, t, ok)
        PROVE  IInv'
    BY <1>3, SubmitPromptKeeps, StartImageKeeps
  <1>4. ASSUME NEW p \in Processes,
               \/ \E r \in Requests : StartRequest(p, r)
               \/ ReportRequest(p)
               \/ \E kind \in {"assistant", "reasoning"} : Delta(p, kind)
               \/ \E verified \in BOOLEAN : EndRequest(p, verified)
        PROVE  IInv'
    BY <1>4, StartRequestKeeps, ReportRequestKeeps, DeltaKeeps, EndRequestKeeps
  <1>5. ASSUME NEW p \in Processes,
               \/ Steer(p) \/ ProposeTool(p) \/ RunTool(p) \/ Ask(p)
               \/ \E success \in BOOLEAN : CompleteTool(p, success)
               \/ \E yes \in BOOLEAN : Resolve(p, yes)
        PROVE  IInv'
    BY <1>5, SteerKeeps, ProposeToolKeeps, RunToolKeeps, AskKeeps, CompleteToolKeeps, ResolveKeeps
  <1>6. ASSUME NEW p \in Processes,
               \/ \E s \in {"completed", "cancelled", "failed"}, ok \in BOOLEAN : EndTurn(p, s, ok)
               \/ \E s \in {"cancelled", "failed"}, ok \in BOOLEAN : FailActivePrompt(p, s, ok)
        PROVE  IInv'
    BY <1>6, EndsKeep
  <1> QED
    BY <1>1, <1>2, <1>3, <1>4, <1>5, <1>6 DEF Next

(* The rows, requests, turns and drivers stay consistent with each other   *)
(* whatever the processes that have the database open do, and whichever of *)
(* their transactions fail.                                                *)
THEOREM Invariance == Spec => []IInv
  BY InitKeeps, NextKeeps, PTL DEF Spec

(* What the database shows as running or open has a driver, or its driver  *)
(* died or was interrupted (finish_turn, fail_active_prompt,               *)
(* interrupt_incomplete_turns); every variable keeps its type.             *)
THEOREM NothingIsAbandoned == Spec => []UnfinishedIsDriven
  <1>1. IInv => UnfinishedIsDriven
    BY DEF IInv, UnfinishedIsDriven, OpenRows, Driven
  <1> QED
    BY <1>1, Invariance, PTL

(* The text of a verified response is stored whole, and a row marked       *)
(* verified holds no other text (append_turn_content,                      *)
(* RequestUsageUpdated).                                                   *)
THEOREM VerifiedTextIsWhole == Spec => []VerifiedIsWhole
  <1>1. IInv => VerifiedIsWhole
    <2> SUFFICES ASSUME IInv PROVE VerifiedIsWhole
      OBVIOUS
    <2> USE DEF IInv
    <2>1. ASSUME NEW i \in DOMAIN items, items[i].verified, NEW r \in Range(items[i].text)
          PROVE  requests[r].verified
      <3>1. PICK k \in DOMAIN items[i].text : r = items[i].text[k]
        BY <2>1 DEF Range
      <3>2. items[i].request # 0 /\ items[i].request \in {0, items[i].text[k]}
        BY <2>1, <3>1 DEF Texts
      <3> QED
        BY <2>1, <3>1, <3>2 DEF Texts
    <2>2. \A r \in Requests : Cardinality(Pieces(items, r)) = said[r]
      BY DEF Counted
    <2>3. ASSUME NEW r \in Requests, requests[r].verified, requests[r].turn \notin disowned,
                 NEW i \in DOMAIN items, r \in Range(items[i].text)
          PROVE  items[i].verified /\ items[i].status = "completed"
      <3>1. PICK k \in DOMAIN items[i].text : r = items[i].text[k]
        BY <2>3 DEF Range
      <3>2. items[i].request = r /\ items[i].request # 0
        BY <2>3, <3>1 DEF Texts
      <3> QED
        BY <2>3, <3>2 DEF Texts
    <2> QED
      BY <2>1, <2>2, <2>3 DEF VerifiedIsWhole
  <1> QED
    BY <1>1, Invariance, PTL

-----------------------------------------------------------------------------
(* A revision removes what its user saw.                                   *)

(* No process begins a turn. *)
Quiet == \A p \in Processes : process'[p].at = "turn" => process[p].at = "turn"

LEMMA EventsAreQuiet ==
    ASSUME TypeOK, NEW q \in Processes,
           \/ \E r \in Requests : StartRequest(q, r)
           \/ ReportRequest(q)
           \/ \E kind \in {"assistant", "reasoning"} : Delta(q, kind)
           \/ \E verified \in BOOLEAN : EndRequest(q, verified)
           \/ Steer(q) \/ ProposeTool(q) \/ RunTool(q) \/ Ask(q)
           \/ \E success \in BOOLEAN : CompleteTool(q, success)
           \/ \E yes \in BOOLEAN : Resolve(q, yes)
           \/ AppendFails(q)
           \/ \E s \in {"completed", "cancelled", "failed"}, ok \in BOOLEAN : EndTurn(q, s, ok)
    PROVE  Quiet
  <1>1. process[q].at = "turn"
    BY DEF StartRequest, ReportRequest, Delta, EndRequest, Steer, ProposeTool, RunTool, Ask,
           CompleteTool, Resolve, AppendFails, EndTurn, InTurn
  <1>2. CASE \E phase : Goto(q, phase)
    BY <1>1, <1>2 DEF Goto, TypeOK, Quiet
  <1>3. CASE UNCHANGED process
    BY <1>3 DEF Quiet
  <1>4. CASE \E t, at, image : Active(q, t, at, image)
    BY <1>1, <1>4 DEF Active, TypeOK, Quiet
  <1>5. CASE Release(q)
    BY <1>1, <1>5 DEF Release, TypeOK, Quiet
  <1>6. CASE \E r \in Requests : StartRequest(q, r)
    <2>1. \A p \in Processes : p # q => process'[p] = process[p]
      BY <1>6 DEF StartRequest, TypeOK
    <2> QED
      BY <1>1, <2>1 DEF Quiet
  <1>7. CASE Ask(q)
    <2>1. \A p \in Processes : p # q => process'[p] = process[p]
      BY <1>7 DEF Ask, TypeOK
    <2> QED
      BY <1>1, <2>1 DEF Quiet
  <1>8. CASE \E yes \in BOOLEAN : Resolve(q, yes)
    <2>1. \A p \in Processes : p # q => process'[p] = process[p]
      BY <1>8 DEF Resolve, TypeOK
    <2> QED
      BY <1>1, <2>1 DEF Quiet
  <1>9. CASE ReportRequest(q) \/ \E kind \in {"assistant", "reasoning"} : Delta(q, kind)
    <2>1. UNCHANGED process
      BY <1>9 DEF ReportRequest, Delta
    <2> QED
      BY <1>3, <2>1
  <1>10. CASE \/ \E verified \in BOOLEAN : EndRequest(q, verified)
              \/ Steer(q) \/ ProposeTool(q) \/ RunTool(q)
              \/ \E success \in BOOLEAN : CompleteTool(q, success)
    <2>1. \E phase : Goto(q, phase)
      BY <1>10 DEF EndRequest, Steer, ProposeTool, RunTool, CompleteTool
    <2> QED
      BY <1>2, <2>1
  <1>11. CASE AppendFails(q)
    BY <1>4, <1>11 DEF AppendFails
  <1>12. CASE \E s \in {"completed", "cancelled", "failed"}, ok \in BOOLEAN : EndTurn(q, s, ok)
    BY <1>5, <1>12 DEF EndTurn
  <1> QED
    BY <1>6, <1>7, <1>8, <1>9, <1>10, <1>11, <1>12

LEMMA OthersAreQuiet ==
    ASSUME TypeOK, NEW q \in Processes,
           \/ Open(q) \/ Crash(q) \/ Load(q) \/ Look(q) \/ Annotate(q)
           \/ \E u \in Turns : PrepareRevision(q, u)
           \/ AbandonRevision(q)
           \/ \E s \in {"cancelled", "failed"}, ok \in BOOLEAN : FailActivePrompt(q, s, ok)
    PROVE  Quiet
  <1>0. process[q] \in Process
    BY DEF TypeOK
  <1>1. CASE Look(q) \/ Annotate(q)
    BY <1>1 DEF Look, Annotate, Quiet
  <1>2. CASE Crash(q)
    <2>1. process'[q] = Down /\ \A p \in Processes : p # q => process'[p] = process[p]
      BY <1>2 DEF Crash, TypeOK
    <2> QED
      BY <2>1, DownFacts DEF Quiet
  <1>3. CASE \E s \in {"cancelled", "failed"}, ok \in BOOLEAN : FailActivePrompt(q, s, ok)
    <2>1. Release(q)
      BY <1>3 DEF FailActivePrompt
    <2> QED
      BY <2>1, ReleaseFacts DEF Quiet
  <1>4. CASE Open(q)
    <2>1. /\ process'[q] = [process[q] EXCEPT !.at = "up"]
          /\ \A p \in Processes : p # q => process'[p] = process[p]
      BY <1>4 DEF Open, TypeOK
    <2>2. process'[q].at = "up"
      BY ONLY <1>0, <2>1 DEF Process
    <2> QED
      BY <2>1, <2>2 DEF Quiet
  <1>5. CASE Load(q)
    <2>1. /\ process'[q] = [process[q] EXCEPT !.at = "idle", !.lifecycle = "ready"]
          /\ \A p \in Processes : p # q => process'[p] = process[p]
      BY <1>5 DEF Load, TypeOK
    <2>2. process'[q].at = "idle"
      BY ONLY <1>0, <2>1 DEF Process
    <2> QED
      BY <2>1, <2>2 DEF Quiet
  <1>6. CASE AbandonRevision(q) \/ \E u \in Turns : PrepareRevision(q, u)
    <2>1. PICK u : process' = [process EXCEPT ![q].revise = u]
      BY <1>6 DEF AbandonRevision, PrepareRevision
    <2>2. /\ process'[q] = [process[q] EXCEPT !.revise = u]
          /\ \A p \in Processes : p # q => process'[p] = process[p]
      BY <2>1 DEF TypeOK
    <2>3. process'[q].at = process[q].at
      BY ONLY <1>0, <2>2 DEF Process
    <2> QED
      BY <2>2, <2>3 DEF Quiet
  <1> QED
    BY <1>1, <1>2, <1>3, <1>4, <1>5, <1>6

LEMMA RevisionIsCurrent ==
    ASSUME IInv, [Next]_vars, NEW p \in Processes, process[p].revise # 0, process'[p].at = "turn"
    PROVE  view[p].items = items
  <1> USE DEF IInv
  <1>0. process[p].at = "idle"
    BY DEF Drivers
  <1>1. ~Quiet
    BY <1>0 DEF Quiet
  <1>2. process' # process
    BY <1>0
  <1>3. ASSUME NEW q \in Processes, NEW t \in Turns, NEW ok \in BOOLEAN,
               SubmitPrompt(q, t, ok) \/ StartImage(q, t, ok)
        PROVE  view[p].items = items
    <2>1. t \in 0..MaxTurns
      BY JournalAssumption DEF Turns
    <2>2. q = p
      <3>1. \E at, image : Active(q, t, at, image)
        BY <1>3 DEF SubmitPrompt, StartImage
      <3>2. \A o \in Processes : o # q => process'[o] = process[o]
        BY <3>1 DEF Active, TypeOK
      <3> QED
        BY <1>0, <3>2
    <2>3. SubmitPrompt(p, t, ok)
      BY <1>3, <2>2 DEF StartImage
    <2>4. CASE ok /\ Truncatable(process[p].revise, view[p].revision)
      BY <2>4 DEF Truncatable, Views
    <2>5. CASE ~(ok /\ Truncatable(process[p].revise, view[p].revision))
      <3>1. Active(p, t, "failing", FALSE)
        BY <2>3, <2>5 DEF SubmitPrompt
      <3> QED
        BY <2>1, <3>1, ActiveFacts
    <2> QED
      BY <2>4, <2>5
  <1>4. Next
    BY <1>2 DEF vars
  <1>5. PICK q \in Processes : \E t \in Turns, ok \in BOOLEAN :
          SubmitPrompt(q, t, ok) \/ StartImage(q, t, ok)
    BY <1>1, <1>4, EventsAreQuiet, OthersAreQuiet DEF Next
  <1> QED
    BY <1>3, <1>5

(* An edit or a regeneration removes messages only from the thread its     *)
(* user was looking at (history_before_user_message,                       *)
(* truncate_for_revision).                                                 *)
THEOREM RevisionsAreSeen == Spec => RevisesWhatWasSeen
  <1>1. IInv /\ [Next]_vars =>
          [\A p \in Processes :
              process[p].revise # 0 /\ process'[p].at = "turn" => view[p].items = items]_vars
    BY RevisionIsCurrent
  <1> QED
    BY <1>1, Invariance, PTL DEF Spec, RevisesWhatWasSeen

-----------------------------------------------------------------------------
(* The ranks of the members of a set of places.                            *)

Upto(S, i) == {j \in S : j <= i}

LEMMA RankFacts ==
    ASSUME NEW n \in Nat, NEW S \in SUBSET (1..n)
    PROVE  /\ IsFiniteSet(S) /\ Cardinality(S) \in Nat
           /\ \A i \in S : Cardinality(Upto(S, i)) \in 1..Cardinality(S)
           /\ \A i, j \in S : i < j => Cardinality(Upto(S, i)) < Cardinality(Upto(S, j))
           /\ \A k \in 1..Cardinality(S) : \E i \in S : Cardinality(Upto(S, i)) = k
  <1>1. IsFiniteSet(S) /\ Cardinality(S) \in Nat
    <2>1. IsFiniteSet(1..n)
      BY FS_Interval
    <2>2. IsFiniteSet(S)
      BY <2>1, FS_Subset
    <2> QED
      BY <2>2, FS_CardinalityType
  <1>2. ASSUME NEW i \in S
        PROVE  /\ Upto(S, i) \in SUBSET S /\ IsFiniteSet(Upto(S, i)) /\ i \in Upto(S, i)
               /\ Cardinality(Upto(S, i)) \in 1..Cardinality(S)
    <2>1. Upto(S, i) \in SUBSET S /\ i \in Upto(S, i)
      BY DEF Upto
    <2>2. /\ IsFiniteSet(Upto(S, i)) /\ Cardinality(Upto(S, i)) <= Cardinality(S)
      BY <1>1, <2>1, FS_Subset
    <2>3. Cardinality(Upto(S, i)) \in Nat /\ Cardinality(Upto(S, i)) # 0
      BY <2>1, <2>2, FS_CardinalityType, FS_EmptySet
    <2> QED
      BY <1>1, <2>1, <2>2, <2>3
  <1>3. ASSUME NEW i \in S, NEW j \in S, i < j
        PROVE  Cardinality(Upto(S, i)) < Cardinality(Upto(S, j))
    <2>0. i \in Nat /\ j \in Nat
      OBVIOUS
    <2>1. Upto(S, i) \in SUBSET Upto(S, j)
      <3>1. ASSUME NEW x \in Upto(S, i) PROVE x \in Upto(S, j)
        <4>1. x \in S /\ x <= i /\ x \in Nat
          BY DEF Upto
        <4>2. x <= j
          BY <1>3, <2>0, <4>1
        <4> QED
          BY <4>1, <4>2 DEF Upto
      <3> QED
        BY <3>1
    <2>2. j \notin Upto(S, i) /\ j \in Upto(S, j)
      BY <1>3, <2>0 DEF Upto
    <2>3. /\ Cardinality(Upto(S, i)) <= Cardinality(Upto(S, j))
          /\ Cardinality(Upto(S, j)) = Cardinality(Upto(S, i)) => Upto(S, j) = Upto(S, i)
      BY <1>2, <2>1, FS_Subset
    <2>4. Cardinality(Upto(S, i)) # Cardinality(Upto(S, j))
      BY <2>2, <2>3
    <2>5. Cardinality(Upto(S, i)) \in Nat /\ Cardinality(Upto(S, j)) \in Nat
      BY <1>2, FS_CardinalityType
    <2> QED
      BY <2>3, <2>4, <2>5
  <1>4. ASSUME NEW k \in 1..Cardinality(S) PROVE \E i \in S : Cardinality(Upto(S, i)) = k
    <2> DEFINE f == [i \in S |-> Cardinality(Upto(S, i))]
               T == 1..Cardinality(S)
    <2>1. f \in [S -> T]
      BY <1>2
    <2>2. \A i, j \in S : f[i] = f[j] => i = j
      <3>1. ASSUME NEW i \in S, NEW j \in S, f[i] = f[j] PROVE i = j
        <4>1. i \in Nat /\ j \in Nat
          OBVIOUS
        <4>2. ~(i < j) /\ ~(j < i)
          BY <1>2, <1>3, <3>1
        <4> QED
          BY <4>1, <4>2
      <3> QED
        BY <3>1
    <2>3. f \in Injection(S, T)
      BY <2>1, <2>2 DEF Injection, IsInjective
    <2>4. IsFiniteSet(T) /\ Cardinality(T) = Cardinality(S)
      BY <1>1, FS_Interval
    <2>5. f \in Surjection(S, T)
      <3> HIDE DEF f, T
      <3> QED
        BY <2>3, <2>4, FS_Injection
    <2> QED
      BY <2>5 DEF Surjection
  <1> QED
    BY <1>1, <1>2, <1>3, <1>4

LEMMA JournalBegins == Init => Journal!Init
  <1> SUFFICES ASSUME Init PROVE Journal!Init
    OBVIOUS
  <1>1. UserRows = {}
    BY DEF UserRows, Init
  <1>2. Cardinality(UserRows) = 0
    BY <1>1, FS_EmptySet
  <1>3. UserMessages = <<>>
    <2>1. 1..0 = {}
      OBVIOUS
    <2>2. DOMAIN UserMessages = {}
      BY <1>2, <2>1 DEF UserMessages
    <2>3. UserMessages = [k \in 1..0 |-> UserMessages[k]]
      BY <1>2 DEF UserMessages
    <2> QED
      BY <2>1, <2>3
  <1> QED
    BY <1>3 DEF Init, Journal!Init

-----------------------------------------------------------------------------
(* The user's messages among the rows.                                     *)

RowsOf(s) == {i \in DOMAIN s : s[i].kind \in Users}

MessageAt(s, i) == [turn |-> s[i].turn, kind |-> s[i].kind]

MessagesOf(s) ==
    [k \in 1..Cardinality(RowsOf(s)) |->
        MessageAt(s, CHOOSE i \in RowsOf(s) : Cardinality(Upto(RowsOf(s), i)) = k)]

LEMMA MessagesDefined ==
    UserMessages = MessagesOf(items) /\ UserMessages' = MessagesOf(items')
  BY DEF UserMessages, UserRows, Rank, MessagesOf, RowsOf, Upto, MessageAt

MessageSet == [turn : 0..MaxTurns, kind : Users]

LEMMA MessagesFacts ==
    ASSUME NEW s \in Seq(Item)
    PROVE  /\ Cardinality(RowsOf(s)) \in Nat /\ IsFiniteSet(RowsOf(s))
           /\ MessagesOf(s) \in Seq(MessageSet) /\ Len(MessagesOf(s)) = Cardinality(RowsOf(s))
           /\ DOMAIN MessagesOf(s) = 1..Cardinality(RowsOf(s))
           /\ \A i \in RowsOf(s) :
                /\ Cardinality(Upto(RowsOf(s), i)) \in 1..Cardinality(RowsOf(s))
                /\ MessagesOf(s)[Cardinality(Upto(RowsOf(s), i))] = MessageAt(s, i)
           /\ \A i, j \in RowsOf(s) :
                i < j => Cardinality(Upto(RowsOf(s), i)) < Cardinality(Upto(RowsOf(s), j))
           /\ \A k \in 1..Cardinality(RowsOf(s)) :
                \E i \in RowsOf(s) : Cardinality(Upto(RowsOf(s), i)) = k
  <1> DEFINE S == RowsOf(s)
             n == Cardinality(S)
             R(i) == Cardinality(Upto(S, i))
  <1>0. Len(s) \in Nat /\ DOMAIN s = 1..Len(s) /\ \A i \in DOMAIN s : s[i] \in Item
    BY SeqFacts
  <1>1. S \in SUBSET (1..Len(s))
    BY <1>0 DEF RowsOf
  <1>2. /\ IsFiniteSet(S) /\ n \in Nat
        /\ \A i \in S : R(i) \in 1..n
        /\ \A i, j \in S : i < j => R(i) < R(j)
        /\ \A k \in 1..n : \E i \in S : R(i) = k
    <2> HIDE DEF S
    <2> QED
      BY <1>0, <1>1, RankFacts
  <1>3. ASSUME NEW i \in S, NEW j \in S, R(i) = R(j) PROVE i = j
    <2>1. i \in Nat /\ j \in Nat
      BY <1>0, <1>1
    <2>2. R(i) \in Nat
      BY <1>2
    <2>3. ~(i < j) /\ ~(j < i)
      BY <1>2, <1>3, <2>2
    <2> QED
      BY <2>1, <2>3
  <1>4. MessagesOf(s) = [k \in 1..n |-> MessageAt(s, CHOOSE i \in S : R(i) = k)]
    BY DEF MessagesOf
  <1>5. ASSUME NEW i \in S PROVE MessagesOf(s)[R(i)] = MessageAt(s, i)
    <2>1. PICK k \in 1..n : k = R(i)
      BY <1>2
    <2>2. (CHOOSE j \in S : R(j) = k) \in S /\ R(CHOOSE j \in S : R(j) = k) = k
      <3> HIDE DEF S, R
      <3> QED
        BY <2>1
    <2>3. (CHOOSE j \in S : R(j) = k) = i
      <3> HIDE DEF S, R
      <3> QED
        BY <1>3, <2>1, <2>2
    <2>4. MessagesOf(s)[k] = MessageAt(s, CHOOSE j \in S : R(j) = k)
      <3> HIDE DEF S, R
      <3> QED
        BY <1>4
    <2> QED
      BY <2>1, <2>3, <2>4
  <1>6. ASSUME NEW k \in 1..n PROVE MessagesOf(s)[k] \in MessageSet
    <2>1. PICK i \in S : R(i) = k
      BY <1>2
    <2>2. i \in DOMAIN s /\ s[i] \in Item /\ s[i].kind \in Users
      BY <1>0 DEF RowsOf
    <2>3. MessageAt(s, i) \in MessageSet
      BY <2>2 DEF MessageAt, MessageSet, Item
    <2> QED
      BY <1>5, <2>1, <2>3
  <1>7. /\ MessagesOf(s) \in Seq(MessageSet) /\ Len(MessagesOf(s)) = n /\ DOMAIN MessagesOf(s) = 1..n
    <2>1. MessagesOf(s) = [k \in 1..n |-> MessagesOf(s)[k]]
      BY <1>4
    <2> HIDE DEF n
    <2>2. MessagesOf(s) \in [1..n -> MessageSet]
      BY <1>6, <2>1
    <2> QED
      BY <1>2, <2>2
  <1> QED
    BY <1>2, <1>5, <1>7

LEMMA SameMessages ==
    ASSUME NEW s \in Seq(Item), NEW z \in Seq(Item), DOMAIN s \subseteq DOMAIN z,
           \A i \in DOMAIN s : z[i].kind = s[i].kind /\ z[i].turn = s[i].turn,
           \A i \in DOMAIN z \ DOMAIN s : z[i].kind \notin Users
    PROVE  MessagesOf(z) = MessagesOf(s)
  <1>1. RowsOf(z) = RowsOf(s)
    BY DEF RowsOf
  <1>2. DOMAIN MessagesOf(z) = DOMAIN MessagesOf(s)
    BY <1>1, MessagesFacts
  <1>3. ASSUME NEW k \in DOMAIN MessagesOf(s) PROVE MessagesOf(z)[k] = MessagesOf(s)[k]
    <2>1. PICK i \in RowsOf(s) : Cardinality(Upto(RowsOf(s), i)) = k
      BY MessagesFacts
    <2>2. MessagesOf(s)[k] = MessageAt(s, i)
      BY <2>1, MessagesFacts
    <2>3. MessagesOf(z)[k] = MessageAt(z, i)
      BY <1>1, <2>1, MessagesFacts
    <2>4. MessageAt(z, i) = MessageAt(s, i)
      BY DEF RowsOf, MessageAt
    <2> QED
      BY <2>2, <2>3, <2>4
  <1>4. MessagesOf(s) \in Seq(MessageSet) /\ MessagesOf(z) \in Seq(MessageSet)
    BY MessagesFacts
  <1> QED
    BY <1>2, <1>3, <1>4

(* The rows before m stay, m is a user's, and no row after it is. *)
CutAt(s, z, m) ==
    /\ m \in DOMAIN z /\ z[m].kind \in Users
    /\ \A i \in DOMAIN z : i < m => i \in DOMAIN s /\ z[i].kind = s[i].kind /\ z[i].turn = s[i].turn
    /\ \A i \in DOMAIN z : i > m => z[i].kind \notin Users

LEMMA MoreMessages ==
    ASSUME NEW s \in Seq(Item), NEW z \in Seq(Item), NEW m, CutAt(s, z, m)
    PROVE  LET c == Cardinality({i \in RowsOf(s) : i < m})
           IN  /\ c \in 0..Len(MessagesOf(s))
               /\ MessagesOf(z) = Append(SubSeq(MessagesOf(s), 1, c), MessageAt(z, m))
  <1> DEFINE S == RowsOf(s)
             Z == RowsOf(z)
             K == {i \in S : i < m}
             c == Cardinality(K)
             M == MessagesOf(s)
  <1>0. /\ DOMAIN s = 1..Len(s) /\ Len(s) \in Nat /\ DOMAIN z = 1..Len(z) /\ Len(z) \in Nat
        /\ m \in 1..Len(z) /\ m \in Nat
    BY SeqFacts DEF CutAt
  <1>1. Z = K \cup {m} /\ m \notin K
    <2>1. \A i \in DOMAIN z : i < m \/ i = m \/ i > m
      BY <1>0
    <2>2. \A i \in K : i \in DOMAIN z
      BY <1>0 DEF RowsOf
    <2>3. m \notin K
      BY <1>0
    <2>4. m \in Z
      BY DEF RowsOf, CutAt
    <2>5. ASSUME NEW i \in Z, i # m PROVE i \in K
      <3>1. i \in DOMAIN z /\ z[i].kind \in Users
        BY DEF RowsOf
      <3>2. i < m
        BY <2>1, <2>5, <3>1 DEF CutAt
      <3> QED
        BY <3>1, <3>2 DEF RowsOf, CutAt
    <2>6. ASSUME NEW i \in K PROVE i \in Z
      BY <2>2 DEF RowsOf, CutAt
    <2> QED
      BY <2>3, <2>4, <2>5, <2>6
  <1>2. /\ IsFiniteSet(S) /\ Cardinality(S) \in Nat /\ M \in Seq(MessageSet)
        /\ Len(M) = Cardinality(S) /\ DOMAIN M = 1..Cardinality(S)
    BY MessagesFacts
  <1>3. IsFiniteSet(K) /\ c \in Nat /\ c <= Cardinality(S)
    <2>1. K \in SUBSET S
      OBVIOUS
    <2>2. IsFiniteSet(K) /\ c <= Cardinality(S)
      <3> HIDE DEF S, K
      <3> QED
        BY <1>2, <2>1, FS_Subset
    <2> QED
      BY <2>2, FS_CardinalityType
  <1>4. Cardinality(Z) = c + 1
    <2> HIDE DEF S, K, Z
    <2> QED
      BY <1>1, <1>3, FS_AddElement
  <1>5. Upto(Z, m) = Z
    <2>1. \A i \in K : i \in Nat /\ i < m
      BY <1>0 DEF RowsOf
    <2>2. \A i \in Z : i <= m
      BY <1>0, <1>1, <2>1
    <2> HIDE DEF Z, K
    <2> QED
      BY <2>2 DEF Upto
  <1>6. ASSUME NEW i \in K PROVE Upto(Z, i) = Upto(S, i) /\ i \in S
    <2>1. i \in Nat /\ i < m
      BY <1>0 DEF RowsOf
    <2>2. ASSUME NEW j \in Upto(Z, i) PROVE j \in Upto(S, i)
      <3>1. j # m
        BY <1>0, <2>1 DEF Upto
      <3> QED
        BY <1>1, <3>1 DEF Upto
    <2>3. ASSUME NEW j \in Upto(S, i) PROVE j \in Upto(Z, i)
      <3>1. j \in S /\ j <= i /\ j \in Nat
        BY <1>0 DEF Upto, RowsOf
      <3>2. j < m
        BY <1>0, <2>1, <3>1
      <3> QED
        BY <1>1, <3>1, <3>2 DEF Upto
    <2> QED
      BY <2>2, <2>3
  <1>7. /\ DOMAIN MessagesOf(z) = 1..(c + 1) /\ MessagesOf(z) \in Seq(MessageSet)
        /\ MessagesOf(z)[c + 1] = MessageAt(z, m)
    <2>1. m \in Z
      BY <1>1
    <2> HIDE DEF S, K, c
    <2> QED
      BY <1>4, <1>5, <2>1, MessagesFacts
  <1>8. ASSUME NEW k \in 1..c PROVE MessagesOf(z)[k] = M[k]
    <2>1. PICK i \in Z : Cardinality(Upto(Z, i)) = k
      <3>1. k \in 1..Cardinality(Z)
        BY <1>3, <1>4
      <3> QED
        BY <3>1, MessagesFacts
    <2>2. i # m
      BY <1>3, <1>4, <1>5, <2>1
    <2>3. i \in K
      BY <1>1, <2>2
    <2>4. Cardinality(Upto(S, i)) = k /\ i \in S
      BY <1>6, <2>1, <2>3
    <2>5. M[k] = MessageAt(s, i)
      BY <2>4, MessagesFacts
    <2>6. MessagesOf(z)[k] = MessageAt(z, i)
      BY <2>1, MessagesFacts
    <2>7. MessageAt(z, i) = MessageAt(s, i)
      BY <2>3 DEF CutAt, RowsOf, MessageAt
    <2> QED
      BY <2>5, <2>6, <2>7
  <1>9. c \in 0..Len(M)
    BY <1>2, <1>3
  <1>10. MessagesOf(z) = Append(SubSeq(M, 1, c), MessageAt(z, m))
    <2> DEFINE x == MessageAt(z, m)
               N == MessagesOf(z)
    <2>1. x \in MessageSet
      <3>1. c + 1 \in DOMAIN N
        BY <1>3, <1>7
      <3> QED
        BY <1>7, <3>1
    <2>2. /\ SubSeq(M, 1, c) \in Seq(MessageSet) /\ Len(SubSeq(M, 1, c)) = c
          /\ \A k \in 1..c : SubSeq(M, 1, c)[k] = M[k]
      <3> HIDE DEF M, c
      <3> QED
        BY <1>2, <1>3, <1>9
    <2> HIDE DEF M, c, x, N
    <2>3. PICK w \in Seq(MessageSet) : w = SubSeq(M, 1, c)
      BY <2>2
    <2>4. /\ Append(w, x) \in Seq(MessageSet) /\ Len(Append(w, x)) = c + 1
          /\ \A k \in 1..c : Append(w, x)[k] = w[k]
          /\ Append(w, x)[c + 1] = x
      BY <2>1, <2>2, <2>3
    <2>5. Len(N) = c + 1 /\ N \in Seq(MessageSet) /\ N[c + 1] = x /\ \A k \in 1..c : N[k] = M[k]
      BY <1>3, <1>7, <1>8 DEF N, x
    <2>6. \A k \in 1..(c + 1) : N[k] = Append(w, x)[k]
      BY <1>3, <2>2, <2>3, <2>4, <2>5
    <2>7. N = Append(w, x)
      BY <2>4, <2>5, <2>6
    <2> QED
      BY <2>3, <2>7 DEF N, x
  <1> QED
    BY <1>9, <1>10

-----------------------------------------------------------------------------
(* Every step of the thread is a step of the transcript, or none.          *)

SameUsers ==
    /\ items' \in Seq(Item) /\ DOMAIN items \subseteq DOMAIN items'
    /\ \A i \in DOMAIN items : items'[i].kind = items[i].kind /\ items'[i].turn = items[i].turn
    /\ \A i \in DOMAIN items' \ DOMAIN items : items'[i].kind \notin Users

LEMMA UsersStay ==
    ASSUME TypeOK, SameUsers PROVE UNCHANGED UserMessages
  <1>1. items \in Seq(Item)
    BY DEF TypeOK
  <1>2. MessagesOf(items') = MessagesOf(items)
    BY <1>1, SameMessages DEF SameUsers
  <1> QED
    BY <1>2, MessagesDefined

LEMMA UnchangedUsers ==
    ASSUME TypeOK, UNCHANGED items PROVE SameUsers
  BY DEF TypeOK, SameUsers

(* The events that show the user nothing of theirs. *)
LEMMA RequestUsers ==
    ASSUME IInv, NEW p \in Processes,
           \/ \E r \in Requests : StartRequest(p, r)
           \/ ReportRequest(p)
           \/ \E kind \in {"assistant", "reasoning"} : Delta(p, kind)
           \/ \E verified \in BOOLEAN : EndRequest(p, verified)
    PROVE  SameUsers /\ UNCHANGED turns
  <1> USE DEF IInv
  <1>0. UNCHANGED turns
    BY DEF StartRequest, ReportRequest, Delta, EndRequest
  <1>1. PICK t, r0 : t = process[p].turn /\ r0 = process[p].request
    OBVIOUS
  <1>2. ASSUME NEW r \in Requests, items' = BindPlaceholder(t, r) PROVE SameUsers
    BY <1>2, BindFacts DEF SameUsers
  <1>3. CASE \E r \in Requests : StartRequest(p, r)
    <2>1. \E r \in Requests : items' = BindPlaceholder(t, r)
      BY <1>1, <1>3 DEF StartRequest
    <2> QED
      BY <1>0, <1>2, <2>1
  <1>4. ASSUME process[p].at = "turn", process[p].phase = "request" PROVE r0 \in Requests
    BY <1>1, <1>4 DEF Streams
  <1>5. CASE ReportRequest(p)
    <2>1. r0 \in Requests /\ items' = BindPlaceholder(t, r0)
      BY <1>1, <1>4, <1>5 DEF ReportRequest, InTurn
    <2> QED
      BY <1>0, <1>2, <2>1
  <1>6. CASE \E verified \in BOOLEAN : EndRequest(p, verified)
    <2>1. r0 \in Requests /\ (items' = MarkVerified(r0) \/ items' = items)
      BY <1>1, <1>4, <1>6 DEF EndRequest, InTurn
    <2>2. CASE items' = items
      BY <1>0, <2>2, UnchangedUsers
    <2>3. CASE items' = MarkVerified(r0)
      <3>1. SameUsers
        BY <2>1, <2>3, MarkFacts DEF SameUsers
      <3> QED
        BY <1>0, <3>1
    <2> QED
      BY <2>1, <2>2, <2>3
  <1>7. CASE \E kind \in {"assistant", "reasoning"} : Delta(p, kind)
    <2>0. PICK kind \in {"assistant", "reasoning"} : Delta(p, kind)
      BY <1>7
    <2>1. /\ process[p].at = "turn" /\ process[p].phase = "request"
          /\ items' = append_turn_content(t, kind, r0)
      BY <1>1, <2>0 DEF Delta, InTurn
    <2>2. r0 \in Requests /\ t \in Turns
      BY <1>1, <1>4, <2>1, DriverRunning
    <2>3. PICK z \in 0..MaxRequests : z = RunningRequest(t)
      <3>1. 0 \in 0..MaxRequests /\ r0 \in 0..MaxRequests
        BY <2>2, JournalAssumption DEF Requests
      <3> QED
        BY <1>1, <2>1, <3>1, RunningRequestFacts
    <2>4. PICK i, old : Piece(i, old, t, kind, z, r0)
      BY <2>1, <2>2, <2>3, AppendContentFacts
    <2>5. SameUsers
      BY <2>4 DEF Piece, SameUsers, Users
    <2> QED
      BY <1>0, <2>5
  <1> QED
    BY <1>3, <1>5, <1>6, <1>7

LEMMA ExternalUsers ==
    ASSUME TypeOK, NEW kind \in {"tool", "notice"}, NEW call \in 0..MaxTurns, NEW t \in 0..MaxTurns,
           NEW s \in Statuses, NEW b \in Turns,
           items' = PutExternal(kind, call, t, s, b) \/ items' = SetExternal(kind, call, s, b)
    PROVE  SameUsers
  <1>0. items \in Seq(Item)
    BY DEF TypeOK
  <1>1. CASE items' = items
    BY <1>1, UnchangedUsers
  <1>2. CASE FindItem(kind, call) # 0 /\ items' # items
    <2>1. PICK i \in DOMAIN items : i = FindItem(kind, call)
      BY <1>2, FindItemFacts
    <2>2. items' = [items EXCEPT ![i].status = s, ![i].by = b]
      BY <1>2, <2>1 DEF PutExternal, SetExternal
    <2>3. DOMAIN items' = DOMAIN items /\ \A j \in DOMAIN items : j # i => items'[j] = items[j]
      BY <2>2
    <2>4. items'[i] = [items[i] EXCEPT !.status = s, !.by = b] /\ items[i] \in Item
      BY <2>2, Typed
    <2>5. items'[i] \in Item /\ items'[i].turn = items[i].turn /\ items'[i].kind = items[i].kind
      BY ONLY <2>4, s \in Statuses, b \in Turns DEF Item, Statuses
    <2>6. items' \in Seq(Item)
      <3>1. \A j \in DOMAIN items : items'[j] \in Item
        BY <2>3, <2>5, Typed
      <3>2. items' \in [DOMAIN items -> Item]
        BY <2>2, <3>1
      <3> QED
        BY <1>0, <3>2, FunctionIsSeq
    <2> QED
      BY <2>3, <2>5, <2>6 DEF SameUsers
  <1>3. CASE FindItem(kind, call) = 0 /\ items' # items
    <2> DEFINE row == RowOf(t, kind, call, s, b)
    <2>1. items' = Append(items, row)
      BY <1>3 DEF PutExternal, SetExternal, RowOf
    <2>2. row \in Item /\ row.kind = kind
      <3>1. 0 \in 0..MaxTurns /\ 0 \in 0..MaxRequests /\ <<>> \in Seq(Requests)
        BY JournalAssumption
      <3> QED
        BY <3>1 DEF RowOf, NewItem, Item, Statuses, Users
    <2> HIDE DEF row
    <2>3. /\ items' \in Seq(Item) /\ DOMAIN items' = DOMAIN items \cup {Len(items) + 1}
          /\ \A i \in DOMAIN items : items'[i] = items[i]
          /\ items'[Len(items) + 1] = row
      BY <1>0, <2>1, <2>2, AppendFacts
    <2> QED
      BY <2>2, <2>3 DEF SameUsers, Users
  <1> QED
    BY <1>1, <1>2, <1>3

LEMMA ToolUsers ==
    ASSUME IInv, NEW p \in Processes,
           \/ ProposeTool(p) \/ RunTool(p) \/ Ask(p)
           \/ \E success \in BOOLEAN : CompleteTool(p, success)
           \/ \E yes \in BOOLEAN : Resolve(p, yes)
    PROVE  SameUsers /\ UNCHANGED turns
  <1> USE DEF IInv
  <1>1. PICK t, a : t = process[p].turn /\ a = ActiveTurn
    OBVIOUS
  <1>2. UNCHANGED turns /\ process[p].at = "turn"
    BY DEF ProposeTool, RunTool, Ask, CompleteTool, Resolve, InTurn
  <1>3. t \in Turns /\ t \in 0..MaxTurns /\ a \in 0..MaxTurns
    BY <1>1, <1>2, DriverRunning, ActiveTurnFacts
  <1>4. \E kind \in {"tool", "notice"}, s \in Statuses :
          \/ items' = PutExternal(kind, t, t, s, t) \/ items' = PutExternal(kind, t, a, s, t)
          \/ items' = SetExternal(kind, t, s, t)
    <2>1. CASE ProposeTool(p)
      BY <1>1, <2>1 DEF ProposeTool, Statuses
    <2>2. CASE RunTool(p)
      BY <1>1, <2>2 DEF RunTool, Statuses
    <2>3. CASE Ask(p)
      BY <1>1, <2>3 DEF Ask, Statuses
    <2>4. CASE \E success \in BOOLEAN : CompleteTool(p, success)
      BY <1>1, <2>4 DEF CompleteTool, Statuses
    <2>5. CASE \E yes \in BOOLEAN : Resolve(p, yes)
      BY <1>1, <2>5 DEF Resolve, Statuses
    <2> QED
      BY <2>1, <2>2, <2>3, <2>4, <2>5
  <1> QED
    BY <1>2, <1>3, <1>4, ExternalUsers

LEMMA OtherUsers ==
    ASSUME IInv, NEW p \in Processes,
           \/ Crash(p) \/ Load(p) \/ Look(p) \/ Annotate(p) \/ AppendFails(p)
           \/ AbandonRevision(p) \/ \E u \in Turns : PrepareRevision(p, u)
    PROVE  SameUsers /\ UNCHANGED turns
  <1>1. UNCHANGED <<turns, items>>
    BY DEF Crash, Load, Look, Annotate, AppendFails, AbandonRevision, PrepareRevision, database
  <1> QED
    BY <1>1, UnchangedUsers DEF IInv

LEMMA WholeMessages ==
    ASSUME NEW s \in Seq(Item), NEW z \in Seq(Item), CutAt(s, z, Len(s) + 1)
    PROVE  MessagesOf(z) = Append(MessagesOf(s), MessageAt(z, Len(s) + 1))
  <1> DEFINE K == {i \in RowsOf(s) : i < Len(s) + 1}
             M == MessagesOf(s)
  <1>1. K = RowsOf(s)
    BY SeqFacts DEF RowsOf
  <1>2. M \in Seq(MessageSet) /\ Len(M) = Cardinality(RowsOf(s))
    BY MessagesFacts
  <1>3. MessagesOf(z) = Append(SubSeq(M, 1, Cardinality(K)), MessageAt(z, Len(s) + 1))
    BY MoreMessages
  <1>4. SubSeq(M, 1, Len(M)) = M
    <2> HIDE DEF M
    <2> QED
      BY <1>2
  <1> QED
    BY <1>1, <1>2, <1>3, <1>4

LEMMA SteerSteers ==
    ASSUME IInv, NEW p \in Processes, Steer(p) PROVE Journal!Next
  <1> USE DEF IInv
  <1>0. PICK t : t = process[p].turn
    OBVIOUS
  <1>1. /\ process[p].at = "turn" /\ UNCHANGED turns
        /\ items' = Append(items, NewItem(t, "steering", "completed", t))
    BY <1>0 DEF Steer, InTurn
  <1>2. t \in Turns /\ t \in 0..MaxTurns /\ turns[t] # "absent"
    BY <1>0, <1>1, DriverRunning DEF Drivers
  <1>3. PICK row : row = NewItem(t, "steering", "completed", t)
    OBVIOUS
  <1>4. row \in Item /\ row.turn = t /\ row.kind = "steering"
    <2>1. 0 \in 0..MaxTurns /\ 0 \in 0..MaxRequests /\ <<>> \in Seq(Requests)
      BY JournalAssumption
    <2> QED
      BY ONLY <1>2, <1>3, <2>1 DEF NewItem, Item, Users
  <1>5. /\ items \in Seq(Item) /\ items' \in Seq(Item)
        /\ DOMAIN items' = DOMAIN items \cup {Len(items) + 1}
        /\ \A i \in DOMAIN items : items'[i] = items[i]
        /\ items'[Len(items) + 1] = row
    BY <1>1, <1>3, <1>4, AppendFacts DEF TypeOK
  <1>6. CutAt(items, items', Len(items) + 1)
    <2>1. \A i \in DOMAIN items : i < Len(items) + 1
      BY Typed
    <2>2. Len(items) + 1 \in Nat
      BY Typed
    <2> QED
      BY <1>4, <1>5, <2>1, <2>2 DEF CutAt, Users
  <1>7. MessagesOf(items') = Append(MessagesOf(items), MessageAt(items', Len(items) + 1))
    BY <1>5, <1>6, WholeMessages
  <1>8. MessageAt(items', Len(items) + 1) = [turn |-> t, kind |-> "steering"]
    BY <1>4, <1>5 DEF MessageAt
  <1>9. UserMessages' = Append(UserMessages, [turn |-> t, kind |-> "steering"])
    BY <1>7, <1>8, MessagesDefined
  <1>10. Journal!Steer(t)
    BY <1>1, <1>2, <1>9 DEF Journal!Steer, Journal!Message
  <1> QED
    BY <1>2, <1>10 DEF Journal!Next

(* What the rows of a prompt add to the messages. *)
LEMMA PromptCuts ==
    ASSUME TypeOK, NEW t \in Turns, NEW kept, Prefix(kept),
           items' = kept \o <<PromptRow(t), ReplyRow(t)>>
    PROVE  /\ CutAt(items, items', Len(kept) + 1) /\ items' \in Seq(Item)
           /\ MessageAt(items', Len(kept) + 1) = [turn |-> t, kind |-> "prompt"]
  <1>0. kept \in Seq(Item) /\ DOMAIN kept = 1..Len(kept) /\ Len(kept) \in Nat
    BY SeqFacts DEF Prefix
  <1>1. PICK a, b, m : a = PromptRow(t) /\ b = ReplyRow(t) /\ m = Len(kept) + 1
    OBVIOUS
  <1>2. a \in Item /\ b \in Item /\ a.turn = t /\ a.kind = "prompt" /\ b.kind = "assistant"
    BY <1>1, RowsOfPrompt
  <1>3. items' = kept \o <<a, b>>
    BY <1>1
  <1>4. /\ items' \in Seq(Item) /\ DOMAIN items' = DOMAIN kept \cup {m, Len(kept) + 2}
        /\ \A i \in DOMAIN kept : items'[i] = kept[i]
        /\ items'[m] = a /\ items'[Len(kept) + 2] = b
    BY ONLY <1>0, <1>1, <1>2, <1>3, TwoRows
  <1>5. \A i \in DOMAIN items' : /\ i < m => i \in DOMAIN kept
                                 /\ i > m => i = Len(kept) + 2
    BY ONLY <1>0, <1>1, <1>4
  <1>6. \A i \in DOMAIN kept : i \in DOMAIN items /\ kept[i] = items[i]
    BY DEF Prefix
  <1>7. CutAt(items, items', m)
    <2>1. \A i \in DOMAIN items' : i < m => i \in DOMAIN items /\ items'[i] = items[i]
      BY ONLY <1>4, <1>5, <1>6
    <2>2. \A i \in DOMAIN items' : i > m => items'[i].kind = "assistant"
      BY ONLY <1>2, <1>4, <1>5
    <2> QED
      BY ONLY <1>2, <1>4, <2>1, <2>2 DEF CutAt, Users
  <1> QED
    BY <1>1, <1>2, <1>4, <1>7 DEF MessageAt

LEMMA PromptPrompts ==
    ASSUME IInv, NEW t \in Turns, Fresh(t),
           items' = items \o <<PromptRow(t), ReplyRow(t)>>,
           turns' = [turns EXCEPT ![t] = "running"]
    PROVE  Journal!Next
  <1> USE DEF IInv
  <1>1. Prefix(items)
    BY DEF Prefix, TypeOK
  <1>2. /\ CutAt(items, items', Len(items) + 1) /\ items' \in Seq(Item) /\ items \in Seq(Item)
        /\ MessageAt(items', Len(items) + 1) = [turn |-> t, kind |-> "prompt"]
    BY <1>1, PromptCuts DEF TypeOK
  <1>3. UserMessages' = Append(UserMessages, [turn |-> t, kind |-> "prompt"])
    BY <1>2, WholeMessages, MessagesDefined
  <1>4. Journal!Prompt(t)
    BY <1>3 DEF Fresh, Journal!Prompt, Journal!Message
  <1> QED
    BY <1>4 DEF Journal!Next

LEMMA RevisionRevises ==
    ASSUME IInv, NEW t \in Turns, Fresh(t), NEW u \in Turns, PromptOf(u) # 0,
           \A s \in Turns : turns[s] # "running",
           items' = Truncated(u) \o <<PromptRow(t), ReplyRow(t)>>,
           turns' = [s \in Turns |-> IF s = t THEN "running"
                                      ELSE IF s \in TurnsCut(u) THEN "removed" ELSE turns[s]]
    PROVE  Journal!Next
  <1> USE DEF IInv
  <1> DEFINE S == RowsOf(items)
             R(i) == Cardinality(Upto(S, i))
  <1>0. PICK m : m = PromptOf(u)
    OBVIOUS
  <1>1. /\ m \in DOMAIN items /\ items[m].kind = "prompt" /\ items[m].turn = u
        /\ items \in Seq(Item) /\ DOMAIN items = 1..Len(items) /\ Len(items) \in Nat
    BY <1>0, PromptOfFacts, Typed DEF TypeOK
  <1>2. m \in S
    BY <1>1 DEF RowsOf, Users
  <1>3. /\ Prefix(Truncated(u)) /\ Len(Truncated(u)) + 1 = m
    <2>1. Prefix(Truncated(u)) /\ Len(Truncated(u)) = m - 1
      BY <1>0, TruncatedFacts
    <2> QED
      BY <1>1, <2>1
  <1>4. /\ CutAt(items, items', m) /\ items' \in Seq(Item)
        /\ MessageAt(items', m) = [turn |-> t, kind |-> "prompt"]
    BY <1>3, PromptCuts
  <1>5. PICK M : M = MessagesOf(items)
    OBVIOUS
  <1>6. /\ Cardinality(S) \in Nat /\ IsFiniteSet(S)
        /\ M \in Seq(MessageSet) /\ Len(M) = Cardinality(S) /\ DOMAIN M = 1..Cardinality(S)
        /\ \A i \in S : R(i) \in 1..Cardinality(S) /\ M[R(i)] = MessageAt(items, i)
        /\ \A i, j \in S : i < j => R(i) < R(j)
        /\ \A k \in 1..Cardinality(S) : \E i \in S : R(i) = k
    BY <1>1, <1>5, MessagesFacts
  <1>7. PICK n \in 1..Cardinality(S) : n = R(m)
    BY <1>2, <1>6
  <1>8. Cardinality({i \in S : i < m}) = n - 1
    <2> DEFINE K == {i \in S : i < m}
    <2>1. \A i \in S : i \in Nat
      BY <1>1 DEF RowsOf
    <2>2. Upto(S, m) = K \cup {m} /\ m \notin K
      <3>1. \A i \in S : i <= m <=> i < m \/ i = m
        BY <1>2, <2>1
      <3>2. ~(m < m)
        BY <1>2, <2>1
      <3> HIDE DEF S
      <3> QED
        BY <1>2, <3>1, <3>2 DEF Upto
    <2>3. IsFiniteSet(K)
      <3>1. K \in SUBSET S
        OBVIOUS
      <3> HIDE DEF K, S
      <3> QED
        BY <1>6, <3>1, FS_Subset
    <2>4. Cardinality(K \cup {m}) = Cardinality(K) + 1 /\ Cardinality(K) \in Nat
      <3> HIDE DEF K, S
      <3> QED
        BY <2>2, <2>3, FS_AddElement, FS_CardinalityType
    <2>5. n = Cardinality(K) + 1
      BY <1>7, <2>2, <2>4
    <2> QED
      BY <2>4, <2>5
  <1>9. UserMessages' = Append(SubSeq(UserMessages, 1, n - 1), [turn |-> t, kind |-> "prompt"])
    <2>1. MessagesOf(items') = Append(SubSeq(MessagesOf(items), 1, Cardinality({i \in S : i < m})),
                                      MessageAt(items', m))
      BY <1>1, <1>4, MoreMessages
    <2> QED
      BY <1>4, <1>8, <2>1, MessagesDefined
  <1>10. M[n].kind = "prompt" /\ n \in DOMAIN M
    <2>1. M[n] = MessageAt(items, m)
      BY <1>2, <1>6, <1>7
    <2> QED
      BY <1>1, <1>6, <1>7, <2>1 DEF MessageAt
  <1> DEFINE cut == {M[i].turn : i \in {j \in n..Len(M) : M[j].kind = "prompt"}}
  <1>11. ASSUME NEW s \in Turns PROVE s \in TurnsCut(u) <=> s \in cut
    <2>1. ASSUME s \in TurnsCut(u) PROVE s \in cut
      <3>1. PICK i : i = PromptOf(s)
        OBVIOUS
      <3>2. i # 0 /\ i >= m
        BY <1>0, <2>1, <3>1 DEF TurnsCut
      <3>3. i \in DOMAIN items /\ items[i].kind = "prompt" /\ items[i].turn = s
        BY <3>1, <3>2, PromptOfFacts
      <3>4. i \in S
        BY <3>3 DEF RowsOf, Users
      <3>5. R(i) \in n..Len(M)
        <4>1. i = m \/ m < i
          BY <1>1, <3>2, <3>3
        <4>2. n <= R(i)
          BY <1>2, <1>6, <1>7, <3>4, <4>1
        <4> QED
          BY <1>6, <1>7, <3>4, <4>2
      <3>6. M[R(i)] = MessageAt(items, i)
        BY <1>6, <3>4
      <3>7. M[R(i)].kind = "prompt" /\ M[R(i)].turn = s
        BY <3>3, <3>6 DEF MessageAt
      <3> HIDE DEF R
      <3> QED
        BY <3>5, <3>7
    <2>2. ASSUME s \in cut PROVE s \in TurnsCut(u)
      <3>1. PICK j \in n..Len(M) : M[j].kind = "prompt" /\ M[j].turn = s
        BY <2>2
      <3>2. PICK i \in S : R(i) = j
        BY <1>6, <1>7, <3>1
      <3>3. M[j] = MessageAt(items, i) /\ i \in DOMAIN items
        BY <1>6, <3>2 DEF RowsOf
      <3>4. items[i].kind = "prompt" /\ items[i].turn = s
        BY <3>1, <3>3 DEF MessageAt
      <3>5. PromptOf(s) = i
        <4>1. PromptOf(s) # 0
          BY <3>3, <3>4, PromptOfFacts
        <4>2. /\ PromptOf(s) \in DOMAIN items /\ items[PromptOf(s)].kind = "prompt"
              /\ items[PromptOf(s)].turn = s
          BY <4>1, PromptOfFacts
        <4> QED
          BY <3>3, <3>4, <4>2 DEF Shapes
      <3>6. i >= m /\ i # 0
        <4>1. ~(i < m)
          BY <1>2, <1>6, <1>7, <3>1, <3>2
        <4> QED
          BY <1>1, <3>3, <4>1
      <3> QED
        BY <1>0, <3>5, <3>6 DEF TurnsCut
    <2> QED
      BY <2>1, <2>2
  <1>12. turns' = [s \in Turns |-> IF s = t THEN "running" ELSE IF s \in cut THEN "removed" ELSE turns[s]]
    BY <1>11
  <1>13. M = UserMessages
    BY <1>5, MessagesDefined
  <1>14. Journal!Revise(n, t)
    BY <1>9, <1>10, <1>12, <1>13 DEF Fresh, Journal!Revise, Journal!Message
  <1>15. n \in DOMAIN UserMessages
    BY <1>10, <1>13
  <1> QED
    BY <1>14, <1>15 DEF Journal!Next


(* The abstract step, or none. *)
Transcribed == Journal!Next \/ (UNCHANGED turns /\ UNCHANGED UserMessages)

LEMMA BeginTranscribed ==
    ASSUME IInv, NEW p \in Processes, NEW t \in Turns, NEW ok \in BOOLEAN,
           SubmitPrompt(p, t, ok) \/ StartImage(p, t, ok)
    PROVE  Transcribed
  <1> USE DEF IInv
  <1>0. PICK u : u = process[p].revise
    OBVIOUS
  <1>1. Fresh(t)
    BY DEF SubmitPrompt, StartImage
  <1>2. CASE UNCHANGED <<turns, items>>
    BY <1>2, UnchangedUsers, UsersStay DEF Transcribed
  <1>3. CASE StartImage(p, t, ok) /\ ok
    <2>1. turns' = [turns EXCEPT ![t] = "running"] /\ UNCHANGED items
      BY <1>3 DEF StartImage
    <2>2. UNCHANGED UserMessages
      BY <2>1, UnchangedUsers, UsersStay
    <2>3. Journal!Regenerate(t)
      BY <1>1, <2>1, <2>2 DEF Fresh, Journal!Regenerate
    <2> QED
      BY <2>3 DEF Transcribed, Journal!Next
  <1>4. CASE StartImage(p, t, ok) /\ ~ok
    BY <1>2, <1>4 DEF StartImage, database
  <1>5. CASE SubmitPrompt(p, t, ok) /\ ok /\ u = 0
    <2>1. /\ items' = items \o <<PromptRow(t), ReplyRow(t)>>
          /\ turns' = [s \in Turns |-> IF s = t THEN "running" ELSE turns[s]]
      BY <1>0, <1>5 DEF SubmitPrompt, PromptRow, ReplyRow
    <2>2. turns' = [turns EXCEPT ![t] = "running"]
      BY <2>1 DEF TypeOK
    <2> QED
      BY <1>1, <2>1, <2>2, PromptPrompts DEF Transcribed
  <1>6. CASE SubmitPrompt(p, t, ok) /\ ok /\ u # 0 /\ Truncatable(u, view[p].revision)
    <2>1. /\ items' = Truncated(u) \o <<PromptRow(t), ReplyRow(t)>>
          /\ turns' = [s \in Turns |-> IF s = t THEN "running"
                                        ELSE IF s \in TurnsCut(u) THEN "removed" ELSE turns[s]]
      BY <1>0, <1>6 DEF SubmitPrompt, PromptRow, ReplyRow
    <2>2. u \in Turns
      <3>1. process[p] \in Process
        BY DEF TypeOK
      <3>2. u \in 0..MaxTurns
        BY <1>0, <3>1 DEF Process
      <3> QED
        BY <1>6, <3>2, JournalAssumption DEF Turns
    <2>3. PromptOf(u) # 0 /\ \A s \in Turns : turns[s] # "running"
      BY <1>6 DEF Truncatable
    <2> QED
      BY <1>1, <2>1, <2>2, <2>3, RevisionRevises DEF Transcribed
  <1>7. CASE SubmitPrompt(p, t, ok) /\ ~(ok /\ (u # 0 => Truncatable(u, view[p].revision)))
    BY <1>0, <1>2, <1>7 DEF SubmitPrompt, database
  <1> QED
    BY <1>3, <1>4, <1>5, <1>6, <1>7

LEMMA ClosedUsers ==
    ASSUME TypeOK, Closes PROVE UNCHANGED UserMessages
  <1>1. SameUsers
    BY DEF Closes, Kept, SameUsers
  <1> QED
    BY <1>1, UsersStay

LEMMA EndTranscribed ==
    ASSUME IInv, NEW p \in Processes,
           \/ \E s \in {"completed", "cancelled", "failed"}, ok \in BOOLEAN : EndTurn(p, s, ok)
           \/ \E s \in {"cancelled", "failed"}, ok \in BOOLEAN : FailActivePrompt(p, s, ok)
    PROVE  Transcribed
  <1> USE DEF IInv
  <1>1. Driving(p)
    BY DEF EndTurn, FailActivePrompt, Driving
  <1>2. PICK t \in Turns : t = process[p].turn
    BY <1>1, TurnOfDriver
  <1>3. PICK s \in {"completed", "cancelled", "failed"}, ok \in BOOLEAN : WriteEnd(t, s, ok)
    BY <1>2 DEF EndTurn, FailActivePrompt
  <1>4. CASE ok /\ Finishable(t)
    <2>1. /\ turns' = [turns EXCEPT ![t] = s] /\ items' = SettleItems(t, s)
          /\ requests' = SettleRequests(t, s)
      BY <1>3, <1>4 DEF WriteEnd, finish_turn
    <2>2. s \in Ends
      BY DEF Ends
    <2>3. UNCHANGED UserMessages
      BY <2>1, <2>2, SettleFacts, ClosedUsers
    <2>4. Journal!End(t, s)
      BY <1>4, <2>1, <2>3 DEF Finishable, Journal!End
    <2>5. s \in Journal!Ended \ {"interrupted"}
      BY DEF Journal!Ended
    <2> QED
      BY <2>4, <2>5 DEF Transcribed, Journal!Next
  <1>5. CASE ~(ok /\ Finishable(t))
    <2>1. UNCHANGED <<turns, items>>
      BY <1>3, <1>5 DEF WriteEnd, database
    <2> QED
      BY <2>1, UnchangedUsers, UsersStay DEF Transcribed
  <1> QED
    BY <1>4, <1>5

LEMMA OpenTranscribed ==
    ASSUME IInv, NEW p \in Processes, Open(p) PROVE Transcribed
  <1> USE DEF IInv
  <1>0. PICK running : running = {t \in Turns : turns[t] = "running"}
    OBVIOUS
  <1>1. IF running = {} THEN UNCHANGED <<turns, items>>
        ELSE /\ turns' = [t \in Turns |-> IF t \in running THEN "interrupted" ELSE turns[t]]
             /\ items' = [i \in DOMAIN items |->
                            IF items[i].status = "open" /\ items[i].turn # 0
                               /\ (items[i].turn \in running \/ turns[items[i].turn] = "interrupted")
                            THEN [items[i] EXCEPT !.status = "ended"] ELSE items[i]]
    BY <1>0 DEF Open
  <1>2. CASE running = {}
    BY <1>1, <1>2, UnchangedUsers, UsersStay DEF Transcribed
  <1>3. CASE running # {}
    <2>1. PICK C : C = {i \in DOMAIN items :
                          items[i].status = "open" /\ items[i].turn # 0
                          /\ (items[i].turn \in running \/ turns[items[i].turn] = "interrupted")}
      OBVIOUS
    <2>2. items' = [i \in DOMAIN items |->
                      IF i \in C THEN [items[i] EXCEPT !.status = "ended"] ELSE items[i]]
      BY <1>1, <1>3, <2>1
    <2>3. \A i \in DOMAIN items : i \in C => items[i].status = "open"
      BY <2>1
    <2>4. UNCHANGED UserMessages
      BY <2>2, <2>3, CloseFacts, ClosedUsers
    <2>5. turns' = [t \in Turns |-> IF turns[t] = "running" THEN "interrupted" ELSE turns[t]]
      BY <1>0, <1>1, <1>3
    <2>6. Journal!Interrupt
      BY <1>0, <1>3, <2>4, <2>5 DEF Journal!Interrupt
    <2> QED
      BY <2>6 DEF Transcribed, Journal!Next
  <1> QED
    BY <1>2, <1>3

LEMMA NextTranscribed == IInv /\ [Next]_vars => Transcribed
  <1> SUFFICES ASSUME IInv, [Next]_vars PROVE Transcribed
    OBVIOUS
  <1>0. TypeOK
    BY DEF IInv
  <1>1. CASE UNCHANGED vars
    BY <1>0, <1>1, UnchangedUsers, UsersStay DEF vars, database, Transcribed
  <1>2. ASSUME NEW p \in Processes,
               \/ Crash(p) \/ Load(p) \/ Look(p) \/ Annotate(p) \/ AppendFails(p)
               \/ AbandonRevision(p) \/ \E u \in Turns : PrepareRevision(p, u)
        PROVE  Transcribed
    BY <1>0, <1>2, OtherUsers, UsersStay DEF Transcribed
  <1>3. ASSUME NEW p \in Processes, NEW t \in Turns, NEW ok \in BOOLEAN,
               SubmitPrompt(p, t, ok) \/ StartImage(p, t, ok)
        PROVE  Transcribed
    BY <1>3, BeginTranscribed
  <1>4. ASSUME NEW p \in Processes,
               \/ \E r \in Requests : StartRequest(p, r)
               \/ ReportRequest(p)
               \/ \E kind \in {"assistant", "reasoning"} : Delta(p, kind)
               \/ \E verified \in BOOLEAN : EndRequest(p, verified)
        PROVE  Transcribed
    BY <1>0, <1>4, RequestUsers, UsersStay DEF Transcribed
  <1>5. ASSUME NEW p \in Processes,
               \/ ProposeTool(p) \/ RunTool(p) \/ Ask(p)
               \/ \E success \in BOOLEAN : CompleteTool(p, success)
               \/ \E yes \in BOOLEAN : Resolve(p, yes)
        PROVE  Transcribed
    BY <1>0, <1>5, ToolUsers, UsersStay DEF Transcribed
  <1>6. ASSUME NEW p \in Processes, Steer(p) PROVE Transcribed
    BY <1>6, SteerSteers DEF Transcribed
  <1>7. ASSUME NEW p \in Processes,
               \/ \E s \in {"completed", "cancelled", "failed"}, ok \in BOOLEAN : EndTurn(p, s, ok)
               \/ \E s \in {"cancelled", "failed"}, ok \in BOOLEAN : FailActivePrompt(p, s, ok)
        PROVE  Transcribed
    BY <1>7, EndTranscribed
  <1>8. ASSUME NEW p \in Processes, Open(p) PROVE Transcribed
    BY <1>8, OpenTranscribed
  <1> QED
    BY <1>1, <1>2, <1>3, <1>4, <1>5, <1>6, <1>7, <1>8 DEF Next

(* The database implements the transcript: a turn ends once and keeps its  *)
(* outcome, and the user's messages are only appended, or cut together     *)
(* with their replacement, whichever processes crash, interrupt each other *)
(* or fail to write (append_prompt_revision, finish_turn,                  *)
(* interrupt_incomplete_turns).                                            *)
THEOREM TranscriptIsImplemented == Spec => ImplementsTranscript
  <1>1. IInv /\ [Next]_vars => [Journal!Next]_<<turns, UserMessages>>
    <2>1. Transcribed => [Journal!Next]_<<turns, UserMessages>>
      BY DEF Transcribed
    <2> QED
      BY <2>1, NextTranscribed
  <1> QED
    BY <1>1, JournalBegins, Invariance, PTL DEF Spec, ImplementsTranscript, Journal!Spec,
       Journal!transcriptVars
=============================================================================
