--------------------------- MODULE MCMessageQueue ---------------------------
(* MessageQueue on small instances; accounts and messages are              *)
(* interchangeable.                                                        *)
EXTENDS MessageQueue, TLC

MCSymmetry == Permutations(Accounts) \cup Permutations(Messages)

(* A second interruption only where nothing else goes wrong.               *)
MCBound == mq'.serial + native'.runtime + native'.revision + faults' <= 2
=============================================================================
