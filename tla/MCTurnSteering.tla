--------------------------- MODULE MCTurnSteering ---------------------------
(* TurnSteering on small instances: three steer_turn requests, so that two *)
(* of them can be retries of one message or fill the inbox.                *)
EXTENDS TurnSteering, TLC

CONSTANTS t1, t2
MCTexts == {t1, t2}
MCTextBytes == (t1 :> 1) @@ (t2 :> 2)
MCRequests == 1..3
MCIds == {"i1", "i2", "i3"}
Before == [i1 |-> {"i1"}, i2 |-> {"i1", "i2"}, i3 |-> {"i2", "i3"}]
(* Requests, and ids, are interchangeable: their first uses come in order. *)
MCInOrder ==
    \A r \in Requests : asked'[r] # NoMessage =>
        /\ \A q \in 1..(r - 1) : asked'[q] # NoMessage
        /\ asked'[r].id = "i1" \/ \E q \in 1..(r - 1) : asked'[q].id \in Before[asked'[r].id]
=============================================================================
