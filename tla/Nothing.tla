------------------------------- MODULE Nothing -------------------------------
(***************************************************************************)
(* The value of a file, a record, a holder or a call that is not there.    *)
(***************************************************************************)
CONSTANT None
=============================================================================
