----------------------------- MODULE MCTurnRecord -----------------------------
(***************************************************************************)
(* Small instances of TurnRecord for TLC.                                  *)
(***************************************************************************)
EXTENDS TurnRecord, TLC

\* A whole turn, and a demand sent without min_turn.
Bodies == {[target |-> 1, min |-> 1], [target |-> 1, min |-> None]}

Interchangeable == Permutations(Requests)
===============================================================================
