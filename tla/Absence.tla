------------------------------- MODULE Absence -------------------------------
(***************************************************************************)
(* The value of what is not there: Option::None of the code, shared by the *)
(* modules that are checked together.                                      *)
(***************************************************************************)
CONSTANT None
=============================================================================
