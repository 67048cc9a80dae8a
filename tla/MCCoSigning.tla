---------------------------- MODULE MCCoSigning ----------------------------
(***************************************************************************)
(* Instances of CoSigning for TLC.  Of two keys that first differ in bytes *)
(* with another number of digits, the shorter need not come first.         *)
(***************************************************************************)
EXTENDS CoSigning

ThreeKeys == {<<9, 120>>, <<10, 7>>, <<200, 30>>}
TwoKeys == {<<9, 120>>, <<10, 7>>}
=============================================================================
