------------------------------ MODULE MCTurnDiff ------------------------------
(***************************************************************************)
(* A small instance of TurnDiff for TLC: the member bets on three of the   *)
(* seven game types, and the report lists some or all of the three in any  *)
(* order before the other four.                                            *)
(***************************************************************************)
EXTENDS TurnDiff, Functions

Bets == {"SL", "LC", "FH"}
Others == <<"SB", "ES", "OT", "LT">>
SomeDemands == {d \in [Types -> 0..2] : \A i \in DOMAIN Others : d[Others[i]] = 2}
SomeOrders == {o \o Others : o \in {l \in UNION {[1..n -> Bets] : n \in 0..3} : IsInjective(l)}}
===============================================================================
