---------------------------- MODULE MCSessionPool ----------------------------
(***************************************************************************)
(* SessionPool on small instances.                                         *)
(***************************************************************************)
EXTENDS SessionPool

CONSTANTS g1, g2, alice, bob

GetterPair == {g1, g2}
TwoUsers   == {alice, bob}

=============================================================================
