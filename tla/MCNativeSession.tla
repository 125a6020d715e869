--------------------------- MODULE MCNativeSession ---------------------------
(* NativeSession on small instances; accounts are interchangeable.      *)
EXTENDS NativeSession, TLC

MCSymmetry == Permutations(Accounts)
=============================================================================
