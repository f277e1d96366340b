----------------------------- MODULE MCAccounts -----------------------------
(***************************************************************************)
(* Small instances of Accounts.                                            *)
(***************************************************************************)
EXTENDS Accounts

CONSTANTS a1, l1, l2, c1, c2, p1
=============================================================================
