-------------------------------- MODULE MCPaging --------------------------------
(***************************************************************************)
(* Small instances of Paging for TLC.                                      *)
(***************************************************************************)
EXTENDS Paging, TLC

Interchangeable == Permutations(Members)
===============================================================================
