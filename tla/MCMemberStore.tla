----------------------------- MODULE MCMemberStore -----------------------------
(***************************************************************************)
(* Small instances of MemberStore for TLC.                                 *)
(***************************************************************************)
EXTENDS MemberStore, TLC

Interchangeable == Permutations(Requests)
===============================================================================
