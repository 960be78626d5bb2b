------------------------- MODULE MCLoginAttachment -------------------------
(* Instances of LoginAttachment for TLC.                                   *)
EXTENDS LoginAttachment, TLC

Symmetry == Permutations(Transfers)
=============================================================================
