------------------------------- MODULE MCLookups -------------------------------
(***************************************************************************)
(* Small instances of Lookups for TLC.  "john" is a member of company "co" *)
(* and agent "ag"; "coagjohn" is the name the game providers know it by    *)
(* and "xxxxjohn" decodes to it as well.  The second member is called      *)
(* "coagjohn" itself, and its row has the company in capitals.             *)
(***************************************************************************)
EXTENDS Lookups, TLC

MCUsers == {"john", "coagjohn"}
MCNames == {"john", "coagjohn", "xxxxjohn", "coagcoagjohn", "COagcoagjohn", "nobody"}
MCLower == [n \in MCNames |-> IF n = "COagcoagjohn" THEN "coagcoagjohn" ELSE n]
MCTail == [n \in MCNames |-> CASE n \in {"coagjohn", "xxxxjohn"} -> "john"
                               [] n \in {"coagcoagjohn", "COagcoagjohn"} -> "coagjohn"
                               [] OTHER -> "nobody"]
MCSeamless == [u \in MCUsers |-> IF u = "john" THEN "coagjohn" ELSE "COagcoagjohn"]
Interchangeable == Permutations(Requests)
===============================================================================
