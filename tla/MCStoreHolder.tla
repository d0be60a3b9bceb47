---------------------------- MODULE MCStoreHolder ----------------------------
(***************************************************************************)
(* StoreHolder on small instances.                                         *)
(***************************************************************************)
EXTENDS StoreHolder

CONSTANTS g1, g2, r1

CallerPair == {g1, g2}
OneReader  == {r1}

=============================================================================
