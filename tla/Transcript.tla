----------------------------- MODULE Transcript -----------------------------
(***************************************************************************)
(* What the local database promises about one conversation, whatever       *)
(* processes write it, fail or die: the user's messages are appended to,   *)
(* or cut back together with the prompt that replaces the cut, and a turn  *)
(* that has ended keeps its outcome.  ThreadJournal implements it.         *)
(***************************************************************************)
EXTENDS Naturals, Sequences

CONSTANT Turns      \* turn ids, in the order in which turns begin

VARIABLES
    status,         \* the state of each turn
    messages        \* the user's messages: the turn they belong to and their kind

transcriptVars == <<status, messages>>

Ended == {"completed", "cancelled", "failed", "interrupted"}

Init ==
    /\ status = [t \in Turns |-> "absent"]
    /\ messages = <<>>

Message(t, k) == [turn |-> t, kind |-> k]

(* A prompt is accepted; an image regeneration begins without one.         *)
Prompt(t) ==
    /\ status[t] = "absent"
    /\ status' = [status EXCEPT ![t] = "running"]
    /\ messages' = Append(messages, Message(t, "prompt"))

Regenerate(t) ==
    /\ status[t] = "absent"
    /\ status' = [status EXCEPT ![t] = "running"]
    /\ UNCHANGED messages

Steer(t) ==
    /\ status[t] # "absent"
    /\ messages' = Append(messages, Message(t, "steering"))
    /\ UNCHANGED status

End(t, s) ==
    /\ status[t] = "running"
    /\ status' = [status EXCEPT ![t] = s]
    /\ UNCHANGED messages

(* A process that opens the database interrupts every running turn at once. *)
Interrupt ==
    /\ \E t \in Turns : status[t] = "running"
    /\ status' = [t \in Turns |-> IF status[t] = "running" THEN "interrupted" ELSE status[t]]
    /\ UNCHANGED messages

(* Nothing runs while the conversation is cut at the n-th message, which   *)
(* started a turn; t takes its place.                                      *)
Revise(n, t) ==
    /\ \A u \in Turns : status[u] # "running"
    /\ messages[n].kind = "prompt"
    /\ status[t] = "absent"
    /\ LET cut == {messages[i].turn : i \in {j \in n..Len(messages) : messages[j].kind = "prompt"}}
       IN status' = [u \in Turns |-> IF u = t THEN "running"
                                     ELSE IF u \in cut THEN "removed" ELSE status[u]]
    /\ messages' = Append(SubSeq(messages, 1, n - 1), Message(t, "prompt"))

Next ==
    \/ \E t \in Turns : Prompt(t) \/ Regenerate(t) \/ Steer(t)
    \/ \E t \in Turns, s \in Ended \ {"interrupted"} : End(t, s)
    \/ Interrupt
    \/ \E n \in DOMAIN messages, t \in Turns : Revise(n, t)

Spec == Init /\ [][Next]_transcriptVars
=============================================================================
