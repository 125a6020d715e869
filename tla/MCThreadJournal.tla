--------------------------- MODULE MCThreadJournal ---------------------------
(* ThreadJournal for TLC: interchangeable processes.                       *)
EXTENDS ThreadJournal, TLC

Symmetric == Permutations(Processes)
=============================================================================
