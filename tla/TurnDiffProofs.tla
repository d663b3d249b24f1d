---------------------------- MODULE TurnDiffProofs ----------------------------
(***************************************************************************)
(* Theorems about TurnDiff, for every demand, every bound on the bets and  *)
(* every list of game types that ALL_WINLOSE may answer, also lists with a *)
(* type missing or listed twice.                                           *)
(***************************************************************************)
EXTENDS TurnDiff, TLAPS

\* Only an SL entry counts for another type, FH.
LEMMA WrittenTo ==
    ASSUME NEW type \in Types
    PROVE  /\ type \in Written(type)
           /\ \A t \in Written(type) : t = type \/ (t = "FH" /\ type = "SL")
BY DEF Written

\* The made-up report lists every type.
LEMMA FallbackComplete ==
    /\ FallbackOrder \in Seq(Types) /\ Len(FallbackOrder) = 7
    /\ \A t \in Types : \E i \in 1..7 : FallbackOrder[i] = t
BY DEF FallbackOrder, Types

\* The initial states are well typed.
LEMMA TypeInit == Init => TypeOK
<1> SUFFICES ASSUME Init PROVE TypeOK
    OBVIOUS
<1>1. demand \in [Types -> Nat] /\ minTurn \in Int
    BY DemandsAssumption DEF Init
<1>2. Nothing \in [Types -> Nat] /\ Nothing \in [Types -> Int]
    BY DEF Nothing
<1>3. << >> \in Seq(Types) /\ 1 \in 1..(Len(<< >>) + 1)
    OBVIOUS
<1> QED
    BY <1>1, <1>2, <1>3 DEF Init, TypeOK

\* Every step keeps the types.
LEMMA TypeStep == TypeOK /\ [Next]_vars => TypeOK'
<1> SUFFICES ASSUME TypeOK, [Next]_vars PROVE TypeOK'
    OBVIOUS
<1>0. demand \in [Types -> Nat]
    BY DemandsAssumption DEF TypeOK
<1>1. ASSUME NEW t \in Types, Bet(t) PROVE TypeOK'
    BY <1>1 DEF Bet, TypeOK, reportVars
<1>2. CASE PassAtOnce
    BY <1>2 DEF PassAtOnce, TypeOK, reportVars
<1>3. ASSUME NEW h \in Handlers, NEW l \in Seq(Types), NEW b \in [Types -> Nat], Calculate(h, l, b)
      PROVE  TypeOK'
    BY <1>3 DEF Calculate, TypeOK, Nothing
<1>4. CASE Ask
  <2>1. order \in Seq(Types) /\ turnover \in [Types -> Nat]
      BY OrdersAssumption DEF TypeOK
  <2> QED
      BY <1>3, <1>4, <2>1 DEF Ask, Handlers
<1>5. CASE AskFails
  <2>1. Nothing \in [Types -> Nat]
      BY DEF Nothing
  <2> QED
      BY <1>3, <1>5, <2>1, FallbackComplete DEF AskFails, Handlers
<1>6. CASE Entry
  <2>1. list[next] \in Types /\ next + 1 \in 1..(Len(list) + 1)
      BY <1>6 DEF Entry, TypeOK
  <2>2. Owed(list[next]) \in Int
      BY <1>0, <2>1 DEF Owed, TypeOK
  <2>3. diff' \in [Types -> Int]
      BY <1>6, <2>2 DEF Entry, TypeOK
  <2> QED
      BY <1>6, <2>1, <2>3 DEF Entry, TypeOK
<1>7. CASE Finish
  <2>1. PICK t \in Types :
           /\ minTurn' = diff[t]
           /\ IF handler = "Sync" THEN UNCHANGED <<answer, told>>
              ELSE IF Refuses(diff[t])
              THEN /\ answer' = "refused"
                   /\ told' = [type |-> t, more |-> diff[t], from |-> seen[t]]
              ELSE answer' = "ok" /\ UNCHANGED told
      BY <1>7 DEF Finish
  <2>2. minTurn' \in Int
      BY <2>1 DEF TypeOK
  <2>3. answer' \in {"none", "ok", "refused"}
      BY <2>1 DEF TypeOK
  <2>4. told' \in [type : Types, more : Nat, from : Nat] \cup {None}
    <3>1. CASE handler # "Sync" /\ Refuses(diff[t])
      <4>1. diff[t] \in Nat /\ seen[t] \in Nat
          BY <3>1 DEF Refuses, TypeOK
      <4> QED
          BY <2>1, <3>1, <4>1
    <3>2. CASE ~(handler # "Sync" /\ Refuses(diff[t]))
        BY <2>1, <3>2 DEF TypeOK
    <3> QED
        BY <3>1, <3>2
  <2> QED
      BY <1>7, <2>2, <2>3, <2>4 DEF Finish, TypeOK, reportVars
<1>8. CASE UNCHANGED vars
    BY <1>8 DEF vars, reportVars, TypeOK
<1> QED
    BY <1>1, <1>2, <1>4, <1>5, <1>6, <1>7, <1>8 DEF Next

\* TypeOK holds in every reachable state.
THEOREM TypeCorrect == Spec => []TypeOK
<1> QED
    BY TypeInit, TypeStep, PTL DEF Spec
-------------------------------------------------------------------------------
\* The initial states satisfy the inductive invariant.
LEMMA TurnInit == Init => TurnInvariant
<1> SUFFICES ASSUME Init PROVE TurnInvariant
    OBVIOUS
<1>1. TypeOK
    BY TypeInit
<1>2. DiffCorrect /\ PassIsEarned /\ RefusalSound
    BY DEF Init, DiffCorrect, PassIsEarned, RefusalSound
<1>3. ReportSound
    BY DEF Init, ReportSound, Nothing
<1>4. MinTurnEarned
  <2>1. PICK t \in Types : minTurn = demand[t]
      BY DEF Init
  <2>2. minTurn <= 0 => Met(t)
      BY <2>1, <1>1 DEF Init, Met, Nothing, TypeOK
  <2> QED
      BY <2>2 DEF MinTurnEarned
<1> QED
    BY <1>1, <1>2, <1>3, <1>4 DEF TurnInvariant

\* A type that is met stays met: the turnover only grows.
LEMMA BetStep ==
    ASSUME TurnInvariant, NEW t \in Types, Bet(t)
    PROVE  TurnInvariant'
<1>1. TypeOK /\ TypeOK'
    BY TypeStep DEF TurnInvariant, Next
<1>2. demand \in [Types -> Nat]
    BY <1>1, DemandsAssumption DEF TypeOK
<1>3. \A u \in Types : turnover[u] <= turnover'[u]
  <2>1. turnover \in [Types -> Nat] /\ turnover' = [turnover EXCEPT ![t] = turnover[t] + 1]
      BY <1>1 DEF Bet, TypeOK
  <2> QED
      BY <2>1
<1>4. \A u \in Types : Met(u) => Met(u)'
    BY <1>1, <1>2, <1>3 DEF Met, Bet, TypeOK
<1>5. Listed' = Listed
    BY DEF Bet, Listed
<1>6. DiffCorrect'
  <2>1. UNCHANGED <<handler, diff, next, list, demand, seen>>
      BY DEF Bet, reportVars
  <2>2. LookedAt' = LookedAt /\ \A type : Owed(type)' = Owed(type)
      BY <2>1 DEF LookedAt, Owed
  <2> QED
      BY <2>1, <2>2 DEF TurnInvariant, DiffCorrect
<1>7. ReportSound'
  <2>1. \A u \in Types : seen[u] <= turnover'[u]
      BY <1>1, <1>3, SMTT(20) DEF TurnInvariant, ReportSound, TypeOK
  <2> QED
      BY <2>1 DEF TurnInvariant, ReportSound, Bet, reportVars, FallbackOrder
<1>8. MinTurnEarned'
    BY <1>4, <1>5 DEF TurnInvariant, MinTurnEarned, Bet
<1>9. PassIsEarned'
    BY <1>4, <1>5 DEF TurnInvariant, PassIsEarned, Bet
<1>10. RefusalSound'
    BY <1>5 DEF TurnInvariant, RefusalSound, RefusalIsJust, Bet, reportVars
<1> QED
    BY <1>1, <1>6, <1>7, <1>8, <1>9, <1>10 DEF TurnInvariant

\* A turn whose min_turn is 0 passes, and that min_turn was earned.
LEMMA PassStep ==
    ASSUME TurnInvariant, PassAtOnce
    PROVE  TurnInvariant'
<1>1. TypeOK'
    BY TypeStep DEF TurnInvariant, Next
<1>2. Listed' = Listed /\ \A u \in Types : Met(u)' = Met(u)
    BY DEF PassAtOnce, Listed, Met
<1>3. DiffCorrect' /\ RefusalSound'
    BY DEF TurnInvariant, DiffCorrect, RefusalSound, PassAtOnce
<1>4. ReportSound'
    BY DEF TurnInvariant, ReportSound, PassAtOnce, reportVars
<1>5. MinTurnEarned' /\ PassIsEarned'
    BY <1>2 DEF TurnInvariant, MinTurnEarned, PassIsEarned, PassAtOnce
<1> QED
    BY <1>1, <1>3, <1>4, <1>5 DEF TurnInvariant

\* A report starts with every difference at 0.
LEMMA CalculateStep ==
    ASSUME TurnInvariant, TypeOK',
           NEW h \in Handlers, NEW l, NEW b, Calculate(h, l, b),
           \A t \in Types : b[t] <= turnover[t],
           h = "WdCheck" => l = order, l \in {order, FallbackOrder}
    PROVE  TurnInvariant'
<1>1. Listed' = Listed /\ \A u \in Types : Met(u)' = Met(u)
    BY DEF Calculate, Listed, Met
<1>2. DiffCorrect'
    BY DEF Calculate, DiffCorrect, LookedAt, Nothing
<1>3. ReportSound'
    BY DEF Calculate, ReportSound, FallbackOrder
<1>4. MinTurnEarned' /\ PassIsEarned' /\ RefusalSound'
    BY <1>1 DEF TurnInvariant, Calculate, MinTurnEarned, PassIsEarned, RefusalSound
<1> QED
    BY <1>2, <1>3, <1>4 DEF TurnInvariant

\* An entry writes what is owed in its type to the types it counts for.
LEMMA EntryStep ==
    ASSUME TurnInvariant, Entry
    PROVE  TurnInvariant'
<1>1. TypeOK /\ TypeOK'
    BY TypeStep DEF TurnInvariant, Next
<1> DEFINE type == list[next]
<1>2. type \in Types /\ next \in 1..Len(list)
    BY <1>1 DEF Entry, TypeOK
<1>3. LookedAt' = LookedAt \cup {type}
  <2>1. next' = next + 1 /\ list' = list
      BY DEF Entry
  <2>2. 1..(next' - 1) = (1..(next - 1)) \cup {next}
      BY <1>2, <2>1
  <2> QED
      BY <2>1, <2>2 DEF LookedAt
<1>4. \A u : Owed(u)' = Owed(u) /\ Written(u)' = Written(u)
    BY DEF Entry, Owed, Written
<1>5. DiffCorrect'
  <2> SUFFICES ASSUME NEW t \in Types
               PROVE  \/ \E u \in LookedAt' : t \in Written(u) /\ diff'[t] = Owed(u)
                      \/ diff'[t] = 0 /\ \A u \in LookedAt' : t \notin Written(u)
      BY <1>4 DEF DiffCorrect
  <2>1. CASE t \in Written(type)
    <3>1. diff'[t] = Owed(type)
        BY <2>1 DEF Entry
    <3> QED
        BY <2>1, <3>1, <1>3
  <2>2. CASE t \notin Written(type)
    <3>1. diff'[t] = diff[t]
        BY <2>2 DEF Entry
    <3>2. \/ \E u \in LookedAt : t \in Written(u) /\ diff[t] = Owed(u)
          \/ diff[t] = 0 /\ \A u \in LookedAt : t \notin Written(u)
        BY DEF TurnInvariant, DiffCorrect, Entry
    <3> QED
        BY <2>2, <3>1, <3>2, <1>3
  <2> QED
      BY <2>1, <2>2
<1>6. ReportSound'
    BY DEF TurnInvariant, ReportSound, Entry, FallbackOrder
<1>7. MinTurnEarned' /\ PassIsEarned'
    BY DEF TurnInvariant, MinTurnEarned, PassIsEarned, Entry, Listed, Met
<1>8. RefusalSound'
    BY DEF TurnInvariant, ReportSound, RefusalSound, Entry
<1> QED
    BY <1>1, <1>5, <1>6, <1>7, <1>8 DEF TurnInvariant

\* When the loop has ended every listed type has been looked at.
LEMMA ListExhausted ==
    ASSUME TypeOK, ReportSound, handler \in Handlers, next = Len(list) + 1
    PROVE  /\ LookedAt \subseteq Types
           /\ handler = "WdCheck" => LookedAt = Listed
           /\ Types \ {"FH"} \subseteq Listed => Types \ {"FH"} \subseteq LookedAt
<1>1. list \in Seq(Types) /\ order \in Seq(Types)
    BY OrdersAssumption DEF TypeOK
<1>2. LookedAt = {list[i] : i \in 1..Len(list)}
    BY <1>1 DEF LookedAt
<1>3. LookedAt \subseteq Types
    BY <1>1, <1>2
<1>4. CASE list = order
    BY <1>1, <1>2, <1>3, <1>4 DEF Listed
<1>5. CASE list = FallbackOrder /\ handler = "Sync"
  <2>1. \A t \in Types : \E i \in 1..Len(list) : list[i] = t
      BY <1>5, FallbackComplete
  <2> QED
      BY <1>2, <1>3, <1>5, <2>1
<1> QED
    BY <1>4, <1>5 DEF ReportSound, Handlers

\* On a report that lists every type but FH, a difference of 0 or less means
\* that some type is met: no type was left at its initial 0.
LEMMA SmallestIsEarned ==
    ASSUME TypeOK, ReportSound, DiffCorrect, handler \in Handlers, next = Len(list) + 1,
           Types \ {"FH"} \subseteq Listed, NEW t \in Types, diff[t] <= 0
    PROVE  \E u \in Types : Met(u)
<1>1. LookedAt \subseteq Types /\ Types \ {"FH"} \subseteq LookedAt
    BY ListExhausted
<1>2. \E type \in LookedAt : t \in Written(type)
  <2>1. CASE t # "FH"
      BY <1>1, <2>1, WrittenTo
  <2>2. CASE t = "FH"
    <3>1. "SL" \in LookedAt
        BY <1>1 DEF Types
    <3> QED
        BY <2>2, <3>1 DEF Written
  <2> QED
      BY <2>1, <2>2
<1>3. PICK type \in LookedAt : diff[t] = Owed(type)
    BY <1>2 DEF DiffCorrect, Handlers
<1>4. type \in Types
    BY <1>1
<1>5. demand[type] \in Nat /\ seen[type] \in Nat /\ turnover[type] \in Nat
    BY <1>4, DemandsAssumption DEF TypeOK
<1>6. seen[type] <= turnover[type] /\ demand[type] - seen[type] <= 0
    BY <1>3, <1>4 DEF Owed, ReportSound
<1>7. turnover[type] >= demand[type]
    BY <1>5, <1>6
<1> QED
    BY <1>4, <1>7 DEF Met

\* A looked-at type other than FH has its own difference.
LEMMA OwnDifference ==
    ASSUME TypeOK, DiffCorrect, handler \in Handlers, LookedAt \subseteq Types,
           NEW t \in LookedAt, t # "FH"
    PROVE  diff[t] = Owed(t)
<1>1. t \in Types /\ t \in Written(t)
    BY WrittenTo
<1>2. PICK type \in LookedAt : t \in Written(type) /\ diff[t] = Owed(type)
    BY <1>1 DEF DiffCorrect, Handlers
<1>3. type = t
    BY <1>2, WrittenTo
<1> QED
    BY <1>2, <1>3

\* The type that a refusal shows has its own difference, also when it is FH: a
\* difference that FH has from SL is shown as that of SL, which comes first.
LEMMA ShownOwnDifference ==
    ASSUME TypeOK, DiffCorrect, handler \in Handlers, LookedAt \subseteq Types,
           NEW t \in Types, Shown(t), diff[t] > 0
    PROVE  diff[t] = Owed(t)
<1>1. PICK type \in LookedAt : t \in Written(type) /\ diff[t] = Owed(type)
    BY SMTT(20) DEF DiffCorrect, Handlers, TypeOK
<1>2. type = t \/ (t = "FH" /\ type = "SL")
    BY <1>1, WrittenTo
<1>3. ASSUME t = "FH", type = "SL" PROVE FALSE
  <2>1. diff["SL"] = Owed("SL")
      BY <1>1, <1>3, OwnDifference
  <2>2. diff["FH"] = diff["SL"]
      BY <1>1, <1>3, <2>1
  <2>3. "SL" \in Types /\ diff["SL"] \in Int
      BY DEF TypeOK, Types
  <2>4. Rank["FH"] <= Rank["SL"]
      BY <1>3, <2>2, <2>3 DEF Shown
  <2> QED
      BY <2>4 DEF Rank
<1> QED
    BY <1>1, <1>2, <1>3

\* The answer is sound when the loop over the report has ended.
LEMMA FinishStep ==
    ASSUME TurnInvariant, Finish
    PROVE  TurnInvariant'
<1>1. TypeOK /\ TypeOK' /\ ReportSound /\ DiffCorrect
    BY TypeStep DEF TurnInvariant, Next
<1>2. handler \in Handlers /\ next = Len(list) + 1 /\ answer = "none"
    BY <1>1 DEF Finish, TypeOK, ReportSound
<1>3. PICK t \in Types :
         /\ Shown(t) /\ minTurn' = diff[t]
         /\ IF handler = "Sync" THEN UNCHANGED <<answer, told>>
            ELSE IF Refuses(diff[t])
            THEN /\ answer' = "refused"
                 /\ told' = [type |-> t, more |-> diff[t], from |-> seen[t]]
            ELSE answer' = "ok" /\ UNCHANGED told
    BY DEF Finish
<1>4. diff[t] \in Int /\ seen[t] \in Nat
    BY <1>1 DEF TypeOK
<1>5. Listed' = Listed /\ \A u \in Types : Met(u)' = Met(u)
    BY DEF Finish, Listed, Met
<1>6. diff[t] <= 0 /\ Types \ {"FH"} \subseteq Listed => \E u \in Types : Met(u)
    BY <1>1, <1>2, SmallestIsEarned
<1>7. DiffCorrect'
    BY DEF Finish, DiffCorrect
<1>8. ReportSound'
    BY <1>1 DEF Finish, ReportSound, reportVars
<1>9. MinTurnEarned'
    BY <1>3, <1>5, <1>6 DEF MinTurnEarned
<1>10. PassIsEarned'
  <2>1. answer' = "ok" => diff[t] <= 0
      BY <1>2, <1>3, <1>4 DEF Refuses
  <2> QED
      BY <1>5, <1>6, <2>1 DEF PassIsEarned
<1>11. RefusalSound'
  <2> SUFFICES ASSUME answer' = "refused"
               PROVE  told' \in [type : Types, more : Nat, from : Nat] /\ RefusalIsJust'
      BY DEF RefusalSound
  <2>1. handler = "WdCheck" /\ diff[t] > 0 /\ told' = [type |-> t, more |-> diff[t], from |-> seen[t]]
      BY <1>2, <1>3 DEF Handlers, Refuses
  <2>2. LookedAt = Listed /\ LookedAt \subseteq Types
      BY <1>1, <1>2, <2>1, ListExhausted
  <2>3. diff[t] = Owed(t)
      BY <1>1, <1>2, <1>3, <2>1, <2>2, ShownOwnDifference
  <2>4. told' \in [type : Types, more : Nat, from : Nat]
      BY <1>4, <2>1
  <2>5. demand' = demand /\ seen' = seen
      BY DEF Finish, reportVars
  <2>6. told'.more = demand'[told'.type] - told'.from
      BY <2>1, <2>3, <2>5 DEF Owed
  <2>7. ASSUME NEW u \in Listed \ {"FH"} PROVE seen[u] < demand[u]
    <3>1. u \in Types /\ diff[u] = Owed(u)
        BY <1>1, <1>2, <2>2, <2>7, OwnDifference
    <3>2. diff[u] \in Int /\ demand[u] \in Nat /\ seen[u] \in Nat
        BY <1>1, <3>1, DemandsAssumption DEF TypeOK
    <3>3. diff[u] > 0
        BY <1>3, <1>4, <2>1, <3>1, <3>2 DEF Shown
    <3> QED
        BY <3>1, <3>2, <3>3 DEF Owed
  <2> QED
      BY <1>5, <2>4, <2>5, <2>6, <2>7 DEF RefusalIsJust
<1> QED
    BY <1>1, <1>7, <1>8, <1>9, <1>10, <1>11 DEF TurnInvariant

\* Every step keeps the inductive invariant.
LEMMA TurnStep == TurnInvariant /\ [Next]_vars => TurnInvariant'
<1> SUFFICES ASSUME TurnInvariant, [Next]_vars PROVE TurnInvariant'
    OBVIOUS
<1>1. TypeOK /\ TypeOK'
    BY TypeStep DEF TurnInvariant
<1>2. CASE \E t \in Types : Bet(t)
    BY <1>2, BetStep
<1>3. CASE PassAtOnce
    BY <1>3, PassStep
<1>4. CASE Ask
  <2>1. \A t \in Types : turnover[t] <= turnover[t]
      BY <1>1 DEF TypeOK
  <2> QED
      BY <1>1, <1>4, <2>1, CalculateStep DEF Ask, Handlers
<1>5. CASE AskFails
  <2>1. \A t \in Types : Nothing[t] <= turnover[t]
      BY <1>1 DEF TypeOK, Nothing
  <2> QED
      BY <1>1, <1>5, <2>1, CalculateStep DEF AskFails, Handlers
<1>6. CASE Entry
    BY <1>6, EntryStep
<1>7. CASE Finish
    BY <1>7, FinishStep
<1>8. CASE UNCHANGED vars
  <2>1. DiffCorrect' /\ ReportSound'
      BY <1>8 DEF vars, reportVars, TurnInvariant, DiffCorrect, ReportSound, LookedAt, Owed,
                  Written, FallbackOrder
  <2>2. MinTurnEarned' /\ PassIsEarned' /\ RefusalSound'
      BY <1>8 DEF vars, reportVars, TurnInvariant, MinTurnEarned, PassIsEarned, RefusalSound,
                  RefusalIsJust, Listed, Met
  <2> QED
      BY <1>1, <2>1, <2>2 DEF TurnInvariant
<1> QED
    BY <1>2, <1>3, <1>4, <1>5, <1>6, <1>7, <1>8 DEF Next

\* The inductive invariant holds in every reachable state.
THEOREM TurnCorrect == Spec => []TurnInvariant
<1> QED
    BY TurnInit, TurnStep, PTL DEF Spec

\* A report that lists every type but FH lets only those through who met a type.
THEOREM EarnedPass == Spec => []PassIsEarned
<1>1. TurnInvariant => PassIsEarned
    BY DEF TurnInvariant
<1> QED
    BY TurnCorrect, <1>1, PTL

\* A refusal names what is lacking, and whoever is refused lacks it.
THEOREM JustRefusal == Spec => []RefusalIsJust
<1>1. TurnInvariant => RefusalIsJust
    BY DEF TurnInvariant, RefusalSound, RefusalIsJust
<1> QED
    BY TurnCorrect, <1>1, PTL
-------------------------------------------------------------------------------
\* The initial states satisfy the stronger invariant.
LEMMA VerdictInit == Init => VerdictInvariant
BY TurnInit DEF Init, VerdictInvariant, LastEntryCounts, AnnouncedSound

\* The entry just looked at is the last one for the types it writes.
LEMMA LastEntryStep ==
    ASSUME TypeOK, LastEntryCounts, Entry
    PROVE  LastEntryCounts'
<1>1. list \in Seq(Types) /\ next \in 1..Len(list) /\ handler # "none"
    BY DEF TypeOK, Entry
<1>2. /\ list' = list /\ next' - 1 = next /\ demand' = demand /\ seen' = seen
      /\ 1..next = (1..(next - 1)) \cup {next}
    BY <1>1 DEF Entry
<1>3. \A u : Owed(u)' = Owed(u) /\ Written(u)' = Written(u)
    BY <1>2 DEF Owed, Written
<1> SUFFICES ASSUME NEW t \in Types
             PROVE  \/ \E i \in 1..next :
                          /\ t \in Written(list[i]) /\ diff'[t] = Owed(list[i])
                          /\ \A j \in (i + 1)..next : t \notin Written(list[j])
                    \/ diff'[t] = 0 /\ \A i \in 1..next : t \notin Written(list[i])
    BY <1>2, <1>3 DEF LastEntryCounts
<1>4. CASE t \in Written(list[next])
  <2>1. diff'[t] = Owed(list[next]) /\ next \in 1..next /\ (next + 1)..next = {}
      BY <1>1, <1>4 DEF Entry
  <2> QED
      BY <1>4, <2>1
<1>5. CASE t \notin Written(list[next])
  <2>1. diff'[t] = diff[t]
      BY <1>5 DEF Entry
  <2>2. \/ \E i \in 1..(next - 1) :
              /\ t \in Written(list[i]) /\ diff[t] = Owed(list[i])
              /\ \A j \in (i + 1)..(next - 1) : t \notin Written(list[j])
        \/ diff[t] = 0 /\ \A i \in 1..(next - 1) : t \notin Written(list[i])
      BY <1>1 DEF LastEntryCounts
  <2>3. ASSUME NEW i \in 1..(next - 1), NEW j \in (i + 1)..next
        PROVE  j = next \/ j \in (i + 1)..(next - 1)
      BY <1>1
  <2> QED
      BY <1>2, <1>5, <2>1, <2>2, <2>3
<1> QED
    BY <1>4, <1>5

\* At the end of the loop, FH has its own difference or that of SL.
LEMMA FishingCounted ==
    ASSUME TypeOK, LastEntryCounts, handler \in Handlers, next = Len(list) + 1
    PROVE  IF FishingLast(list) THEN diff["FH"] = Owed("FH")
           ELSE "SL" \in LookedAt => diff["FH"] = Owed("SL")
<1>1. list \in Seq(Types) /\ next - 1 = Len(list) /\ Len(list) \in Nat
    BY DEF TypeOK
<1>2. \A i \in 1..Len(list) : "FH" \in Written(list[i]) <=> list[i] \in {"FH", "SL"}
    BY DEF Written
<1>3. \/ \E i \in 1..Len(list) :
            /\ "FH" \in Written(list[i]) /\ diff["FH"] = Owed(list[i])
            /\ \A j \in (i + 1)..Len(list) : "FH" \notin Written(list[j])
      \/ \A i \in 1..Len(list) : "FH" \notin Written(list[i])
    BY <1>1 DEF LastEntryCounts, Handlers, Types
<1>4. ASSUME FishingLast(list) PROVE diff["FH"] = Owed("FH")
  <2>1. PICK k \in 1..Len(list) : list[k] = "FH" /\ \A j \in (k + 1)..Len(list) : list[j] # "SL"
      BY <1>4 DEF FishingLast
  <2>2. PICK i \in 1..Len(list) :
           /\ "FH" \in Written(list[i]) /\ diff["FH"] = Owed(list[i])
           /\ \A j \in (i + 1)..Len(list) : "FH" \notin Written(list[j])
      BY <1>2, <1>3, <2>1
  <2>3. k \notin (i + 1)..Len(list)
      BY <1>2, <2>1, <2>2
  <2>4. i = k \/ i \in (k + 1)..Len(list)
      BY <1>1, <2>3
  <2> QED
      BY <1>2, <2>1, <2>2, <2>4
<1>5. ASSUME ~FishingLast(list), "SL" \in LookedAt PROVE diff["FH"] = Owed("SL")
  <2>1. PICK k \in 1..Len(list) : list[k] = "SL"
      BY <1>1, <1>5 DEF LookedAt
  <2>2. PICK i \in 1..Len(list) :
           /\ "FH" \in Written(list[i]) /\ diff["FH"] = Owed(list[i])
           /\ \A j \in (i + 1)..Len(list) : "FH" \notin Written(list[j])
      BY <1>2, <1>3, <2>1
  <2>3. \A j \in (i + 1)..Len(list) : list[j] # "SL"
      BY <1>1, <1>2, <2>2
  <2>4. list[i] # "FH"
      BY <1>5, <2>3 DEF FishingLast
  <2> QED
      BY <1>2, <2>2, <2>4
<1> QED
    BY <1>4, <1>5

\* What a refusal newly announces.
LEMMA AnnouncedFinish ==
    ASSUME TurnInvariant, LastEntryCounts, Finish, answer' = "refused"
    PROVE  /\ handler = "WdCheck" /\ told' \in [type : Types, more : Nat, from : Nat]
           /\ told'.type \in Listed
           /\ told'.more = demand[told'.type] - told'.from
           /\ told'.type = "FH" => FishingLast(order)
           /\ FishingLast(order) => seen["FH"] < demand["FH"]
<1>1. TypeOK /\ ReportSound /\ DiffCorrect
    BY DEF TurnInvariant
<1>2. handler \in Handlers /\ next = Len(list) + 1 /\ answer = "none"
    BY <1>1 DEF Finish, TypeOK, ReportSound
<1>3. PICK t \in Types :
         /\ Shown(t)
         /\ IF handler = "Sync" THEN UNCHANGED <<answer, told>>
            ELSE IF Refuses(diff[t])
            THEN /\ answer' = "refused"
                 /\ told' = [type |-> t, more |-> diff[t], from |-> seen[t]]
            ELSE answer' = "ok" /\ UNCHANGED told
    BY DEF Finish
<1>4. handler = "WdCheck" /\ diff[t] > 0 /\ told' = [type |-> t, more |-> diff[t], from |-> seen[t]]
    BY <1>2, <1>3 DEF Handlers, Refuses
<1>5. list = order /\ LookedAt = Listed /\ LookedAt \subseteq Types
    BY <1>1, <1>2, <1>4, ListExhausted DEF ReportSound
<1>6. diff[t] = Owed(t)
    BY <1>1, <1>2, <1>3, <1>4, <1>5, ShownOwnDifference
<1>7. \A u \in Types : diff[u] \in Int /\ seen[u] \in Nat /\ demand[u] \in Nat
    BY <1>1, DemandsAssumption DEF TypeOK
<1>8. \A u \in Types : diff[u] > 0
    BY <1>3, <1>4, <1>7 DEF Shown
<1>9. told' \in [type : Types, more : Nat, from : Nat]
    BY <1>4, <1>7
<1>10. told'.more = demand[told'.type] - told'.from
    BY <1>4, <1>6 DEF Owed
<1>11. PICK writer \in LookedAt : t \in Written(writer)
    BY <1>2, <1>7, <1>8, SMTT(20) DEF TurnInvariant, DiffCorrect, Handlers
<1>12. t = writer \/ (t = "FH" /\ writer = "SL")
    BY <1>5, <1>11, WrittenTo
<1>13. order \in Seq(Types) /\ next - 1 = Len(order)
    BY <1>1, <1>2, <1>5, OrdersAssumption DEF TypeOK
<1>14. FishingLast(order) => diff["FH"] = Owed("FH")
    BY <1>1, <1>2, <1>5, FishingCounted
<1>15. "FH" \in Types /\ "SL" \in Types
    BY DEF Types
<1>16. FishingLast(order) => seen["FH"] < demand["FH"]
    BY <1>7, <1>8, <1>14, <1>15 DEF Owed
<1>17. ASSUME t = "FH" PROVE "SL" \in LookedAt => FishingLast(order)
  <2> SUFFICES ASSUME "SL" \in LookedAt, ~FishingLast(order) PROVE FALSE
      OBVIOUS
  <2>1. diff["FH"] = Owed("SL")
      BY <1>1, <1>2, <1>5, FishingCounted
  <2>2. diff["SL"] = Owed("SL")
      BY <1>1, <1>2, <1>5, OwnDifference
  <2>3. Rank["FH"] <= Rank["SL"]
      BY <1>3, <1>7, <1>15, <1>17, <2>1, <2>2 DEF Shown
  <2> QED
      BY <2>3 DEF Rank
<1>18. ASSUME t = "FH" PROVE "SL" \notin LookedAt => FishingLast(order)
  <2> SUFFICES ASSUME "SL" \notin LookedAt PROVE FishingLast(order)
      OBVIOUS
  <2>1. writer = "FH"
      BY <1>11, <1>12, <1>18
  <2>2. PICK i \in 1..Len(order) : order[i] = "FH"
      BY <1>11, <1>5, <1>13, <2>1 DEF LookedAt
  <2>3. \A j \in (i + 1)..Len(order) : order[j] # "SL"
      BY <1>5, <1>13 DEF LookedAt
  <2> QED
      BY <2>2, <2>3 DEF FishingLast
<1>19. t \in Listed
  <2>1. CASE t # "FH"
      BY <1>5, <1>11, <1>12, <2>1
  <2>2. CASE t = "FH"
    <3>1. FishingLast(order)
        BY <1>17, <1>18, <2>2
    <3>2. PICK i \in 1..Len(order) : order[i] = "FH"
        BY <3>1 DEF FishingLast
    <3> QED
        BY <1>13, <2>2, <3>2 DEF Listed
  <2> QED
      BY <2>1, <2>2
<1> QED
    BY <1>4, <1>9, <1>10, <1>16, <1>17, <1>18, <1>19

\* Every step keeps the stronger invariant.
LEMMA VerdictStep == VerdictInvariant /\ [Next]_vars => VerdictInvariant'
<1> SUFFICES ASSUME VerdictInvariant, [Next]_vars PROVE VerdictInvariant'
    OBVIOUS
<1>1. TurnInvariant /\ TypeOK /\ LastEntryCounts /\ AnnouncedSound /\ TurnInvariant'
    BY TurnStep DEF VerdictInvariant, TurnInvariant
<1>2. demand' = demand /\ order' = order /\ Listed' = Listed
    BY DEF Next, Bet, PassAtOnce, Ask, AskFails, Calculate, Entry, Finish, vars, Listed
<1>3. told' = told => AnnouncedSound'
    BY <1>1, <1>2 DEF AnnouncedSound
<1>4. CASE Finish
  <2>1. LastEntryCounts'
      BY <1>4 DEF Finish, LastEntryCounts
  <2>2. ASSUME told' # told PROVE answer' = "refused"
      BY <1>4, <2>2 DEF Finish
  <2>3. answer' = "refused" => AnnouncedSound'
      BY <1>1, <1>2, <1>4, AnnouncedFinish DEF AnnouncedSound
  <2> QED
      BY <1>1, <1>3, <2>1, <2>2, <2>3 DEF VerdictInvariant
<1>5. CASE Entry
  <2>1. told' = told
      BY <1>5 DEF Entry
  <2> QED
      BY <1>1, <1>3, <1>5, <2>1, LastEntryStep DEF VerdictInvariant
<1>6. ASSUME NEW h, NEW l, NEW b, Calculate(h, l, b) PROVE LastEntryCounts' /\ AnnouncedSound'
  <2>1. told' = told /\ next' = 1 /\ \A t \in Types : diff'[t] = 0
      BY <1>6 DEF Calculate, Nothing
  <2>2. 1..(next' - 1) = {}
      BY <2>1
  <2> QED
      BY <1>3, <2>1, <2>2 DEF LastEntryCounts
<1>7. CASE Ask \/ AskFails
    BY <1>1, <1>6, <1>7 DEF Ask, AskFails, VerdictInvariant
<1>8. CASE (\E t \in Types : Bet(t)) \/ PassAtOnce \/ UNCHANGED vars
  <2>1. told' = told /\ UNCHANGED <<handler, reportVars>>
      BY <1>8 DEF Bet, PassAtOnce, vars
  <2>2. LastEntryCounts'
      BY <1>1, <1>2, <2>1 DEF LastEntryCounts, reportVars, Owed, Written
  <2> QED
      BY <1>1, <1>3, <2>1, <2>2 DEF VerdictInvariant
<1> QED
    BY <1>4, <1>5, <1>7, <1>8 DEF Next

\* Who bets the announced sum in the announced type is not refused again.
THEOREM PaidUpMembersPass == Spec => PaidUpPasses
<1>1. ASSUME VerdictInvariant, VerdictInvariant', [Next]_vars
      PROVE  [answer # "refused" /\ answer' = "refused" /\ told # None
              => seen[told.type] < told.from + told.more]_vars
  <2> SUFFICES ASSUME answer # "refused", answer' = "refused", told # None
               PROVE  seen[told.type] < told.from + told.more
      OBVIOUS
  <2>1. Finish
      BY <1>1 DEF Next, Bet, PassAtOnce, Ask, AskFails, Calculate, Entry, vars
  <2>2. TurnInvariant /\ TurnInvariant' /\ TypeOK /\ LastEntryCounts
      BY <1>1 DEF VerdictInvariant, TurnInvariant
  <2>3. /\ told.type \in Listed /\ told.more = demand[told.type] - told.from
        /\ told.type = "FH" => FishingLast(order)
      BY <1>1 DEF VerdictInvariant, AnnouncedSound
  <2>4. told \in [type : Types, more : Nat, from : Nat]
      BY <2>2 DEF TypeOK
  <2>5. seen[told.type] < demand[told.type]
    <3>1. CASE told.type = "FH"
        BY <2>1, <2>2, <2>3, <3>1, AnnouncedFinish
    <3>2. CASE told.type # "FH"
      <4>1. seen' = seen /\ demand' = demand /\ Listed' = Listed
          BY <2>1 DEF Finish, reportVars, Listed
      <4>2. RefusalIsJust'
          BY <2>2 DEF TurnInvariant, RefusalSound
      <4> QED
          BY <2>3, <3>2, <4>1, <4>2 DEF RefusalIsJust
    <3> QED
        BY <3>1, <3>2
  <2>6. demand[told.type] \in Nat /\ seen[told.type] \in Nat
      BY <2>2, <2>4, DemandsAssumption DEF TypeOK
  <2> QED
      BY <2>3, <2>4, <2>5, <2>6
<1>2. Spec => []VerdictInvariant
    BY VerdictInit, VerdictStep, PTL DEF Spec
<1> QED
    BY <1>1, <1>2, PTL DEF Spec, PaidUpPasses

-------------------------------------------------------------------------------
(* The loop and the sort implement TurnVerdict.                            *)

\* The last counting entry is the largest index.
LEMMA LastCounting ==
    ASSUME NEW t, NEW i \in Verdict!Counting(t), Verdict!Counting(t) \subseteq Nat,
           \A j \in Verdict!Counting(t) : j <= i
    PROVE  Verdict!Max(Verdict!Counting(t)) = i
<1> DEFINE S == Verdict!Counting(t)
<1>1. \A x \in S : (\A y \in S : x >= y) => x = i
    OBVIOUS
<1>2. \A y \in S : i >= y
    OBVIOUS
<1> HIDE DEF S
<1>3. (CHOOSE x \in S : \A y \in S : x >= y) = i
    BY <1>1, <1>2
<1> QED
    BY <1>3 DEF Verdict!Max, S

\* When the loop has ended, turn_dif is what is lacking by the whole report.
LEMMA LoopComputesLacking ==
    ASSUME TypeOK, LastEntryCounts, handler \in Handlers, next = Len(list) + 1, NEW t \in Types
    PROVE  diff[t] = Verdict!Lacking(t)
<1>1. list \in Seq(Types) /\ next - 1 = Len(list) /\ Len(list) \in Nat
    BY DEF TypeOK
<1>2. \A i \in 1..Len(list) : t \in Written(list[i]) <=> Verdict!CountsFor(list[i], t)
    BY <1>1 DEF Written, Verdict!CountsFor
<1>3. \A i \in 1..Len(list) : i \in Verdict!Counting(t) <=> t \in Written(list[i])
    BY <1>2 DEF Verdict!Counting
<1>4. Verdict!Counting(t) \subseteq 1..Len(list)
    BY DEF Verdict!Counting
<1>5. ASSUME NEW i \in 1..Len(list), t \in Written(list[i]), diff[t] = Owed(list[i]),
             \A j \in (i + 1)..Len(list) : t \notin Written(list[j])
      PROVE  diff[t] = Verdict!Lacking(t)
  <2>1. i \in Verdict!Counting(t)
      BY <1>3, <1>5
  <2>2. ASSUME NEW j \in Verdict!Counting(t) PROVE j <= i
    <3>1. j \in 1..Len(list) /\ t \in Written(list[j])
        BY <1>3, <1>4
    <3> QED
        BY <1>1, <1>5, <3>1
  <2>3. Verdict!Max(Verdict!Counting(t)) = i
    <3>1. Verdict!Counting(t) \subseteq Nat
        BY <1>4
    <3> QED
        BY <2>1, <2>2, <3>1, LastCounting
  <2>4. Verdict!Lacking(t) = demand[list[i]] - seen[list[i]]
      BY <2>1, <2>3 DEF Verdict!Lacking
  <2> QED
      BY <1>5, <2>4 DEF Owed
<1>6. ASSUME diff[t] = 0, \A i \in 1..Len(list) : t \notin Written(list[i])
      PROVE  diff[t] = Verdict!Lacking(t)
  <2>1. Verdict!Counting(t) = {}
      BY <1>3, <1>4, <1>6
  <2> QED
      BY <1>6, <2>1 DEF Verdict!Lacking
<1> QED
    BY <1>1, <1>5, <1>6 DEF LastEntryCounts, Handlers

\* The decision after the loop is a judgement of the whole report.
LEMMA FinishJudges ==
    ASSUME VerdictInvariant, Finish
    PROVE  Verdict!Judge
<1>1. TypeOK /\ DiffCorrect /\ ReportSound /\ LastEntryCounts /\ TurnInvariant
    BY DEF VerdictInvariant, TurnInvariant
<1>2. handler \in Handlers /\ next = Len(list) + 1
    BY <1>1 DEF Finish, TypeOK
<1>3. \A u \in Types : diff[u] = Verdict!Lacking(u) /\ diff[u] \in Int
    BY <1>1, <1>2, LoopComputesLacking DEF TypeOK
<1>4. PICK t \in Types :
         /\ Shown(t) /\ minTurn' = diff[t]
         /\ IF handler = "Sync" THEN UNCHANGED <<answer, told>>
            ELSE IF Refuses(diff[t])
            THEN /\ answer' = "refused"
                 /\ told' = [type |-> t, more |-> diff[t], from |-> seen[t]]
            ELSE answer' = "ok" /\ UNCHANGED told
    BY DEF Finish
<1>5. \A u \in Types : Verdict!Lacking(t) <= Verdict!Lacking(u)
    BY <1>3, <1>4 DEF Shown
<1>6. ASSUME handler = "WdCheck", diff[t] > 0 PROVE Verdict!Refuse(t)
  <2>1. LookedAt \subseteq Types
      BY <1>1, <1>2, ListExhausted
  <2>2. diff[t] = demand[t] - seen[t]
      BY <1>1, <1>2, <1>4, <1>6, <2>1, ShownOwnDifference DEF Owed
  <2> QED
      BY <1>3, <1>4, <1>6, <2>2 DEF Verdict!Refuse, Refuses
<1>7. ASSUME handler = "WdCheck", diff[t] <= 0 PROVE answer' = "ok" /\ UNCHANGED told
    BY <1>3, <1>4, <1>7 DEF Refuses
<1>8. \/ handler = "Sync" /\ UNCHANGED <<answer, told>>
      \/ handler = "WdCheck" /\ Verdict!Refuse(t)
      \/ handler = "WdCheck" /\ Verdict!Lacking(t) <= 0 /\ answer' = "ok" /\ UNCHANGED told
    BY <1>2, <1>3, <1>4, <1>6, <1>7 DEF Handlers
<1>9. UNCHANGED <<demand, turnover, order, list, seen>> /\ handler # "none" /\ handler' = "none"
    BY DEF Finish, reportVars
<1> QED
    BY <1>3, <1>4, <1>5, <1>8, <1>9 DEF Verdict!Judge, Verdict!report

\* Every other step is one of TurnVerdict, or of the loop, which it does not see.
LEMMA StepRefines ==
    ASSUME VerdictInvariant, [Next]_vars
    PROVE  [Verdict!Next]_(Verdict!vars)
<1>1. TypeOK /\ turnover \in [Types -> Nat]
    BY DEF VerdictInvariant, TurnInvariant, TypeOK
<1>2. ASSUME NEW t \in Types, Bet(t) PROVE Verdict!Bet
  <2>1. turnover' = [turnover EXCEPT ![t] = turnover[t] + 1]
      BY <1>2 DEF Bet
  <2>2. \A u \in Types : turnover'[u] >= turnover[u]
      BY <1>1, <2>1
  <2> QED
      BY <1>2, <2>2 DEF Bet, reportVars, Verdict!Bet, Verdict!report
<1>3. ASSUME PassAtOnce PROVE Verdict!PassAtOnce
    BY <1>3 DEF PassAtOnce, reportVars, Verdict!PassAtOnce, Verdict!report
<1>4. ASSUME Ask PROVE Verdict!Ask
    BY <1>4 DEF Ask, Calculate, Verdict!Ask
<1>5. ASSUME AskFails PROVE Verdict!Ask
  <2>1. list' = FallbackOrder /\ seen' = Nothing
      BY <1>5 DEF AskFails, Calculate
  <2>2. \A t \in Types : seen'[t] = 0 /\ \E i \in 1..Len(list') : list'[i] = t
      BY <2>1, FallbackComplete DEF Nothing
  <2> QED
      BY <1>5, <2>2 DEF AskFails, Calculate, Verdict!Ask
<1>6. ASSUME Entry PROVE UNCHANGED Verdict!vars
    BY <1>6 DEF Entry, Verdict!vars, Verdict!report
<1>7. ASSUME Finish PROVE Verdict!Judge
    BY <1>7, FinishJudges
<1>8. ASSUME UNCHANGED vars PROVE UNCHANGED Verdict!vars
    BY <1>8 DEF vars, reportVars, Verdict!vars, Verdict!report
<1> QED
    BY <1>2, <1>3, <1>4, <1>5, <1>6, <1>7, <1>8 DEF Next, Verdict!Next

\* For every demand and every report, the loop over the entries and the sort of
\* its result decide what TurnVerdict decides of the report as a whole.
THEOREM LoopImplementsVerdict == Spec => ImplementsVerdict
<1>1. Init => Verdict!Init
    BY DEF Init, Nothing, Verdict!Init
<1>2. VerdictInvariant /\ [Next]_vars => [Verdict!Next]_(Verdict!vars)
    BY StepRefines
<1>3. Spec => []VerdictInvariant
    BY VerdictInit, VerdictStep, PTL DEF Spec
<1> QED
    BY <1>1, <1>2, <1>3, PTL DEF Spec, Verdict!Spec, ImplementsVerdict
===============================================================================
