------------------------ MODULE MCCoordinationOutbox ------------------------
(***************************************************************************)
(* Instances of CoordinationOutbox for TLC.                                *)
(***************************************************************************)
EXTENDS CoordinationOutbox, TLC

CONSTANTS b1, b2

WorkerSymmetry == Permutations(Workers)
Fresh == {<<>>}
FreshOrLegacy == {<<>>, <<<<1, b1>>>>}
=============================================================================
