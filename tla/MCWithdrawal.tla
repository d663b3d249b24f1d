----------------------------- MODULE MCWithdrawal -----------------------------
(***************************************************************************)
(* Small instances of Withdrawal for TLC.                                  *)
(***************************************************************************)
EXTENDS Withdrawal, TLC

Interchangeable == Permutations(Requests)
===============================================================================
