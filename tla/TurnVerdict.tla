----------------------------- MODULE TurnVerdict -----------------------------
(***************************************************************************)
(* What a turn check promises, without the loop over the report and the    *)
(* sort of its result: the report is judged as a whole.  What a member     *)
(* lacks in a type is decided by the last entry that counts for it, the    *)
(* turn then keeps the least of that, and a refusal names a type with what *)
(* the member lacks in that very type.                                     *)
(***************************************************************************)
EXTENDS Integers, Sequences, FiniteSetsExt

CONSTANTS Types, None

VARIABLES
    demand,    \* what the promotion demands, by type
    minTurn,   \* what the turn says is left
    turnover,  \* what the member has bet, by type
    order,     \* the order in which the bets are reported
    handler,   \* the check in progress, or "none"
    list,      \* the types in its report
    seen,      \* the bets in its report
    answer,    \* the last answer
    told       \* what the last refusal announced

report == <<list, seen>>
vars == <<demand, minTurn, turnover, order, handler, report, answer, told>>

\* Slots count for fishing, too.
CountsFor(entry, t) == entry = t \/ (entry = "SL" /\ t = "FH")

Counting(t) == {i \in 1..Len(list) : CountsFor(list[i], t)}

Lacking(t) ==
    IF Counting(t) = {} THEN 0
    ELSE LET entry == list[Max(Counting(t))] IN demand[entry] - seen[entry]

Bet ==
    /\ \A t \in Types : turnover'[t] >= turnover[t]
    /\ UNCHANGED <<demand, minTurn, order, handler, report, answer, told>>

PassAtOnce ==
    /\ handler = "none" /\ minTurn <= 0
    /\ answer' = "ok"
    /\ UNCHANGED <<demand, minTurn, turnover, order, handler, report, told>>

\* A check works on the bets there are; a synchronisation that gets no
\* report takes a complete one without bets.
Ask ==
    /\ handler = "none"
    /\ \/ handler' = "WdCheck" /\ minTurn > 0 /\ list' = order /\ seen' = turnover
       \/ handler' = "Sync" /\ list' = order /\ seen' = turnover
       \/ /\ handler' = "Sync"
          /\ \A t \in Types : seen'[t] = 0 /\ \E i \in 1..Len(list') : list'[i] = t
    /\ answer' = "none"
    /\ UNCHANGED <<demand, minTurn, turnover, order, told>>

Refuse(t) ==
    /\ Lacking(t) > 0 /\ Lacking(t) = demand[t] - seen[t]
    /\ answer' = "refused"
    /\ told' = [type |-> t, more |-> Lacking(t), from |-> seen[t]]

Judge ==
    /\ handler # "none" /\ handler' = "none"
    /\ \E t \in Types :
          /\ \A u \in Types : Lacking(t) <= Lacking(u)
          /\ minTurn' = Lacking(t)
          /\ \/ handler = "Sync" /\ UNCHANGED <<answer, told>>
             \/ handler = "WdCheck" /\ Refuse(t)
             \/ handler = "WdCheck" /\ Lacking(t) <= 0 /\ answer' = "ok" /\ UNCHANGED told
    /\ UNCHANGED <<demand, turnover, order, report>>

Init ==
    /\ \E t \in Types : minTurn = demand[t] /\ \A u \in Types : demand[t] <= demand[u]
    /\ \A t \in Types : turnover[t] = 0
    /\ handler = "none" /\ answer = "none" /\ told = None

Next == Bet \/ PassAtOnce \/ Ask \/ Judge
Spec == Init /\ [][Next]_vars
===============================================================================
