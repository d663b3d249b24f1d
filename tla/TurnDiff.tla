------------------------------- MODULE TurnDiff -------------------------------
(***************************************************************************)
(* The arithmetic of a turn over the game types, GET WdCheck and GET Sync  *)
(* of member.turn.controller.ts with calculateTurnDiff of                  *)
(* member.turn.service.ts, one request at a time while the member bets.    *)
(* Concurrent requests, the row and its cached copy are in TurnRecord.     *)
(*                                                                         *)
(* ALL_WINLOSE answers a list of game types with their turnover.  A step   *)
(* of the loop over that list is an action, since its order matters: an SL *)
(* entry also writes FH, and a type that is not in the list stays at 0.    *)
(***************************************************************************)
EXTENDS Integers, Sequences

CONSTANTS
    Demands,  \* the turnovers by type that a promotion may demand
    Orders,   \* the lists of game types that ALL_WINLOSE may answer
    Played,   \* the types the member bets on
    None,     \* nothing announced yet
    MaxBet    \* bound on the turnover in one type

\* The keys of turn_dif in the order Object.keys gives them.
Rank == [SL |-> 1, LC |-> 2, SB |-> 3, ES |-> 4, OT |-> 5, LT |-> 6, FH |-> 7]
Types == {"SL", "LC", "SB", "ES", "OT", "LT", "FH"}

ASSUME DemandsAssumption == Demands \subseteq [Types -> Nat]
ASSUME OrdersAssumption == Orders \subseteq Seq(Types)
ASSUME BetsAssumption == Played \subseteq Types /\ MaxBet \in Nat

VARIABLES
    demand,    \* the columns SL..FH of the member_turn row
    minTurn,   \* its min_turn
    turnover,  \* what the member has bet since the promotion, by type
    order,     \* the order in which ALL_WINLOSE lists the types
    handler,   \* the request in flight, or "none"
    list,      \* the types listed in the report it works on
    seen,      \* the turnover in that report
    next,      \* index of the entry that calculateTurnDiff looks at next
    diff,      \* turn_dif
    answer,    \* the last answer of WdCheck
    told       \* history: what the last refusal told the member to bet

reportVars == <<list, seen, next, diff>>
vars == <<demand, minTurn, turnover, order, handler, reportVars, answer, told>>

Handlers == {"WdCheck", "Sync"}
Nothing == [t \in Types |-> 0]

\* The list that getWinloseForSync makes up when ALL_WINLOSE fails.
FallbackOrder == <<"SB", "ES", "SL", "LC", "OT", "LT", "FH">>

Bet(t) ==
    /\ t \in Played /\ turnover[t] < MaxBet
    /\ turnover' = [turnover EXCEPT ![t] = @ + 1]
    /\ UNCHANGED <<demand, minTurn, order, handler, reportVars, answer, told>>

\* A turn with nothing left is let through without a report.
PassAtOnce ==
    /\ handler = "none" /\ minTurn <= 0
    /\ answer' = "ok"
    /\ UNCHANGED <<demand, minTurn, turnover, order, handler, reportVars, told>>

\* Mutation: turn_dif outlives the call, and starts with the last result.
CalculateOn(h, entries, bets) ==
    /\ handler = "none"
    /\ handler' = h
    /\ list' = entries /\ seen' = bets /\ next' = 1 /\ diff' = diff
    /\ answer' = "none"
    /\ UNCHANGED <<demand, minTurn, turnover, order, told>>

Calculate(h, entries, bets) ==
    /\ handler = "none"
    /\ handler' = h
    /\ list' = entries /\ seen' = bets /\ next' = 1 /\ diff' = Nothing
    /\ answer' = "none"
    /\ UNCHANGED <<demand, minTurn, turnover, order, told>>

Ask == \/ minTurn > 0 /\ Calculate("WdCheck", order, turnover)
       \/ Calculate("Sync", order, turnover)

AskFails == Calculate("Sync", FallbackOrder, Nothing)

\* Mutation: fishing is not counted with the slots.
WrittenAlone(type) == {type}

\* An SL entry is written to SL and to FH.
Written(type) == {type} \cup (IF type = "SL" THEN {"FH"} ELSE {})

Owed(type) == demand[type] - seen[type]

Entry ==
    /\ handler # "none" /\ next <= Len(list)
    /\ LET type == list[next]
       IN diff' = [t \in Types |-> IF t \in Written(type) THEN Owed(type) ELSE diff[t]]
    /\ next' = next + 1
    /\ UNCHANGED <<demand, minTurn, turnover, order, handler, list, seen, answer, told>>

\* Mutation: a sort that is not stable.
ShownAny(t) == \A u \in Types : diff[t] < diff[u] \/ (diff[t] = diff[u] /\ Rank[t] >= Rank[u])

\* Mutation: the member has to meet every type, not one of them.
ShownLargest(t) == \A u \in Types : diff[t] > diff[u] \/ (diff[t] = diff[u] /\ Rank[t] <= Rank[u])

\* The first key after a stable sort of the keys by their difference.
Shown(t) == \A u \in Types : diff[t] < diff[u] \/ (diff[t] = diff[u] /\ Rank[t] <= Rank[u])

\* Mutation: who bet more than the demand is refused as well.
RefusesBoth(d) == d # 0

Refuses(d) == d > 0

\* The smallest difference is saved as min_turn; Sync answers no more than that.
Finish ==
    /\ handler # "none" /\ next = Len(list) + 1
    /\ \E t \in Types :
          /\ Shown(t)
          /\ minTurn' = diff[t]
          /\ IF handler = "Sync" THEN UNCHANGED <<answer, told>>
             ELSE IF Refuses(diff[t])
             THEN /\ answer' = "refused"
                  /\ told' = [type |-> t, more |-> diff[t], from |-> seen[t]]
             ELSE answer' = "ok" /\ UNCHANGED told
    /\ handler' = "none"
    /\ UNCHANGED <<demand, turnover, order, reportVars>>

\* createTurnV2 and the promotions write min_turn together with the columns.
Init ==
    /\ demand \in Demands
    /\ \E t \in Types : minTurn = demand[t] /\ \A u \in Types : demand[t] <= demand[u]
    /\ turnover = Nothing
    /\ order \in Orders
    /\ handler = "none" /\ list = << >> /\ seen = Nothing /\ next = 1 /\ diff = Nothing
    /\ answer = "none" /\ told = None

Next == (\E t \in Types : Bet(t)) \/ PassAtOnce \/ Ask \/ AskFails \/ Entry \/ Finish
Spec == Init /\ [][Next]_vars
-------------------------------------------------------------------------------
(* Properties.                                                             *)

\* Every variable keeps its type.
TypeOK ==
    /\ demand \in Demands /\ minTurn \in Int
    /\ turnover \in [Types -> Nat] /\ seen \in [Types -> Nat]
    /\ order \in Orders /\ list \in Seq(Types) /\ next \in 1..(Len(list) + 1)
    /\ handler \in Handlers \cup {"none"} /\ diff \in [Types -> Int]
    /\ answer \in {"none", "ok", "refused"}
    /\ told \in [type : Types, more : Nat, from : Nat] \cup {None}

Met(t) == turnover[t] >= demand[t]

\* A report that lists every type but FH lets nobody through who has met no
\* type (member.turn.service.ts:548-559: SL stands for FH, and a type left at
\* its initial 0 would pass).
Listed == {order[i] : i \in DOMAIN order}
PassIsEarned == answer = "ok" /\ Types \ {"FH"} \subseteq Listed => \E t \in Types : Met(t)

\* The refusal names a game type and a sum (member.turn.controller.ts:256):
\* that sum is what the member lacked in that very type, and no listed type
\* but FH was met.
RefusalIsJust ==
    answer = "refused" =>
        /\ told.more = demand[told.type] - told.from
        /\ \A t \in Listed \ {"FH"} : seen[t] < demand[t]

\* Who bets the announced sum in the announced type is not refused again,
\* whatever was bet elsewhere and whatever Sync wrote in between.
PaidUpPasses ==
    [][answer # "refused" /\ answer' = "refused" /\ told # None
       => seen[told.type] < told.from + told.more]_vars

\* The loop and the sort of WdCheck and Sync (member.turn.service.ts:551,
\* member.turn.controller.ts:240) come to what TurnVerdict says of the whole
\* report: no entry is skipped or counted twice, nothing stays from an earlier
\* report, and the minimum saved is the least of what is lacking.
Verdict == INSTANCE TurnVerdict
ImplementsVerdict == Verdict!Spec
-------------------------------------------------------------------------------
(* The inductive invariant behind PassIsEarned and RefusalIsJust.          *)

LookedAt == {list[i] : i \in 1..(next - 1)}

\* A difference is what is owed in a type that counts for it, or still 0.
DiffCorrect ==
    handler # "none" =>
        \A t \in Types :
            \/ \E type \in LookedAt : t \in Written(type) /\ diff[t] = Owed(type)
            \/ diff[t] = 0 /\ \A type \in LookedAt : t \notin Written(type)

\* A report is the one of ALL_WINLOSE or, for Sync, the made-up one.
ReportSound ==
    /\ \A t \in Types : seen[t] <= turnover[t]
    /\ handler = "WdCheck" => list = order
    /\ handler = "Sync" => list \in {order, FallbackOrder}
    /\ handler # "none" => answer = "none"

\* A min_turn of 0 or less was earned.
MinTurnEarned == minTurn <= 0 /\ Types \ {"FH"} \subseteq Listed => \E t \in Types : Met(t)

RefusalSound ==
    answer = "refused" => /\ told \in [type : Types, more : Nat, from : Nat]
                          /\ RefusalIsJust

TurnInvariant ==
    TypeOK /\ DiffCorrect /\ ReportSound /\ MinTurnEarned /\ PassIsEarned /\ RefusalSound

(* What PaidUpPasses and ImplementsVerdict need besides.                   *)

\* A difference is what is owed in the last entry so far that wrote it, or 0.
LastEntryCounts ==
    handler # "none" =>
        \A t \in Types :
            \/ \E i \in 1..(next - 1) :
                  /\ t \in Written(list[i]) /\ diff[t] = Owed(list[i])
                  /\ \A j \in (i + 1)..(next - 1) : t \notin Written(list[j])
            \/ diff[t] = 0 /\ \A i \in 1..(next - 1) : t \notin Written(list[i])

\* Of the entries of l, the last one that writes FH is an FH entry.
FishingLast(l) ==
    \E i \in 1..Len(l) : l[i] = "FH" /\ \A j \in (i + 1)..Len(l) : l[j] # "SL"

\* What was announced is a listed type with what it lacked; FH is announced
\* only on a list on which it has its own difference.
AnnouncedSound ==
    told # None =>
        /\ told.type \in Listed
        /\ told.more = demand[told.type] - told.from
        /\ told.type = "FH" => FishingLast(order)

VerdictInvariant == TurnInvariant /\ LastEntryCounts /\ AnnouncedSound
===============================================================================
