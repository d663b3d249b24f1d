--------------------------- MODULE WithdrawalProofs ---------------------------
(***************************************************************************)
(* Theorems about Withdrawal, for every set of requests, every setting and *)
(* every value of the other constants.                                     *)
(***************************************************************************)
EXTENDS Withdrawal, TLAPS

\* The amounts a request can cut and list are numbers.
LEMMA AmountsTyped ==
    ASSUME RequestTyped, SeenTyped, NEW r \in Requests
    PROVE  Amount(r) \in Nat /\ Kind(r) \in Kinds /\ CutAmount(r) \in Nat /\ PayAmount(r) \in Nat
<1>1. Amount(r) \in Nat /\ Kind(r) \in Kinds
    BY DEF RequestTyped, Amount, Kind
<1> QED
    BY <1>1 DEF SeenTyped, CutAmount, PayAmount

\* Every handler moves between known labels and gives known replies.
LEMMA ControlMove ==
    ASSUME ControlTyped, NEW r \in Requests,
           (\E l \in Labels : Goto(r, l)) \/ (\E w \in Replies : Answer(r, w))
    PROVE  ControlTyped'
<1> "done" \in Labels
    BY DEF Labels
<1> QED
    BY DEF ControlTyped, Goto, Answer

\* The initial states are well typed.
LEMMA TypeInit == Init => TypeOK
<1> SUFFICES ASSUME Init PROVE TypeOK
    OBVIOUS
<1> USE DEF Init
<1>1. ControlTyped
    BY DEF ControlTyped, Labels, Replies
<1>2. RequestTyped
  <2>1. [kind : Offered, amount : Amounts, spelling : Spellings]
           \subseteq [kind : Kinds, amount : Nat, spelling : Spellings]
    BY KindsAssumption, NumbersAssumption
  <2>2. req \in [Requests -> [kind : Offered, amount : Amounts, spelling : Spellings]]
    OBVIOUS
  <2> HIDE DEF Init
  <2>3. req \in [Requests -> [kind : Kinds, amount : Nat, spelling : Spellings]]
    BY <2>1, <2>2
  <2>4. marks = {} /\ earlier = [r \in Requests |-> {}] /\ overlapped = {}
    BY DEF Init
  <2> QED
    BY <2>3, <2>4 DEF RequestTyped
<1>3. SeenTyped
    BY DEF SeenTyped
<1>4. MoneyTyped
    BY NumbersAssumption DEF MoneyTyped
<1>5. ListTyped
    BY NumbersAssumption DEF ListTyped
<1>6. TurnTyped
  <2>1. hasTurn \in BOOLEAN /\ syncCopies \subseteq BOOLEAN
    OBVIOUS
  <2>2. minTurn \in {0, 1} /\ limit \in Nat
    BY <2>1, NumbersAssumption
  <2> QED
    BY <2>1, <2>2 DEF TurnTyped
<1> QED
    BY <1>1, <1>2, <1>3, <1>4, <1>5, <1>6 DEF TypeOK

\* Each call of a handler keeps the control state well typed.
LEMMA ControlStep == ASSUME ControlTyped, NEW r \in Requests, Step(r) PROVE ControlTyped'
<1>1. CASE Arrive(r)
    BY <1>1, ControlMove DEF Arrive, Labels, Steps, Replies
<1>2. CASE Validate(r)
    BY <1>2, ControlMove DEF Validate, Labels, Steps, Replies
<1>3. CASE GuardGet(r)
    BY <1>3, ControlMove DEF GuardGet, Labels, Steps, Replies
<1>4. CASE GuardSet(r)
    BY <1>4, ControlMove DEF GuardSet, Labels, Steps, Replies
<1>5. CASE Load(r)
    BY <1>5, ControlMove DEF Load, AfterSetting, Labels, Steps, Replies
<1>6. CASE CheckLimits(r)
    BY <1>6, ControlMove DEF CheckLimits, Labels, Steps, Replies
<1>7. CASE ReadTurn(r)
    BY <1>7, ControlMove DEF ReadTurn, UseTurn, Labels, Steps, Replies
<1>8. CASE CreateTurn(r)
    BY <1>8, ControlMove DEF CreateTurn, AfterCreate, UseTurn, Labels, Steps, Replies
<1>9. CASE InsertTurn(r)
    BY <1>9, ControlMove DEF InsertTurn, AfterCreate, UseTurn, Labels, Steps, Replies
<1>10. CASE ReadBalance(r)
    BY <1>10, ControlMove DEF ReadBalance, Labels, Steps, Replies
<1>11. CASE CutCredit(r)
    BY <1>11, ControlMove DEF CutCredit, Labels, Steps, Replies
<1>12. CASE CutAffiliate(r)
    BY <1>12, ControlMove DEF CutAffiliate, Labels, Steps, Replies
<1>13. CASE PostList(r)
    BY <1>13, ControlMove DEF PostList, Labels, Steps, Replies
<1>14. CASE RecordWheel(r)
    BY <1>14, ControlMove DEF RecordWheel, Labels, Steps, Replies
<1>15. CASE SaveMember(r)
    BY <1>15, ControlMove DEF SaveMember, Labels, Steps, Replies
<1>16. CASE Notify(r)
    BY <1>16, ControlMove DEF Notify, Labels, Steps, Replies
<1>17. CASE SyncTopup(r)
    BY <1>17, ControlMove DEF SyncTopup, Labels, Steps, Replies
<1>18. CASE SyncCut(r)
    BY <1>18, ControlMove DEF SyncCut, Labels, Steps, Replies
<1>19. CASE SyncSave(r)
    BY <1>19, ControlMove DEF SyncSave, Labels, Steps, Replies
<1> QED
    BY <1>1, <1>2, <1>3, <1>4, <1>5, <1>6, <1>7, <1>8, <1>9, <1>10, <1>11, <1>12, <1>13, <1>14, <1>15, <1>16, <1>17, <1>18, <1>19
    DEF Step, Enter, Turn, Pay, Sync

\* Each call of a handler keeps the data well typed.
LEMMA DataStep ==
    ASSUME TypeOK, NEW r \in Requests, Step(r)
    PROVE  RequestTyped' /\ SeenTyped' /\ MoneyTyped' /\ ListTyped' /\ TurnTyped'
<1> USE DEF TypeOK
<1>a. Amount(r) \in Nat /\ CutAmount(r) \in Nat /\ PayAmount(r) \in Nat
    BY AmountsTyped
<1>1. CASE Arrive(r)
  <2>1. RequestTyped'
    BY <1>1 DEF Arrive, RequestTyped, requestVars
  <2> QED
    BY <1>1, <2>1
    DEF Arrive, SeenTyped, MoneyTyped, ListTyped, TurnTyped, seenVars, moneyVars, listVars, turnVars
<1>2. CASE Validate(r)
    BY <1>2 DEF Validate, RequestTyped, SeenTyped, MoneyTyped, ListTyped, TurnTyped, requestVars, seenVars, moneyVars, listVars, turnVars
<1>3. CASE GuardGet(r)
    BY <1>3 DEF GuardGet, RequestTyped, SeenTyped, MoneyTyped, ListTyped, TurnTyped, requestVars, seenVars, moneyVars, listVars, turnVars
<1>4. CASE GuardSet(r)
  <2>1. RequestTyped'
    BY <1>4 DEF GuardSet, RequestTyped, requestVars
  <2> QED
    BY <1>4, <2>1
    DEF GuardSet, SeenTyped, MoneyTyped, ListTyped, TurnTyped, seenVars, moneyVars, listVars, turnVars
<1>5. CASE Load(r)
  <2>1. SeenTyped'
    BY <1>5 DEF Load, SeenTyped, seenVars, TurnTyped
  <2> QED
    BY <1>5, <2>1
    DEF Load, RequestTyped, MoneyTyped, ListTyped, TurnTyped, requestVars, moneyVars, listVars, turnVars
<1>6. CASE CheckLimits(r)
    BY <1>6 DEF CheckLimits, RequestTyped, SeenTyped, MoneyTyped, ListTyped, TurnTyped, requestVars, seenVars, moneyVars, listVars, turnVars
<1>7. CASE ReadTurn(r)
  <2>1. SeenTyped'
    BY <1>7 DEF ReadTurn, UseTurn, SeenTyped, seenVars, TurnTyped
  <2> QED
    BY <1>7, <2>1
    DEF ReadTurn, UseTurn, RequestTyped, MoneyTyped, ListTyped, TurnTyped, requestVars, moneyVars, listVars, turnVars
<1>8. CASE CreateTurn(r)
  <2>1. SeenTyped'
    BY <1>8 DEF CreateTurn, AfterCreate, UseTurn, SeenTyped, seenVars, TurnTyped
  <2> QED
    BY <1>8, <2>1
    DEF CreateTurn, AfterCreate, UseTurn, RequestTyped, MoneyTyped, ListTyped, TurnTyped, requestVars, moneyVars, listVars, turnVars
<1>9. CASE InsertTurn(r)
  <2>1. SeenTyped'
    <3>1. seenLimit' = seenLimit \/ seenLimit' = [seenLimit EXCEPT ![r] = 0]
      BY <1>9 DEF InsertTurn, AfterCreate, UseTurn
    <3>2. UNCHANGED <<seenSync, seenBal>>
      BY <1>9 DEF InsertTurn
    <3> QED
      BY <3>1, <3>2 DEF SeenTyped
  <2>2. TurnTyped'
    <3>1. (hasTurn' = TRUE /\ minTurn' = 0 /\ limit' = 0) \/ UNCHANGED turnVars
      BY <1>9 DEF InsertTurn
    <3>2. UNCHANGED syncCopies
      BY <1>9 DEF InsertTurn
    <3>3. hasTurn' \in BOOLEAN
      BY <3>1, Zenon DEF TurnTyped, turnVars
    <3>4. minTurn' \in {0, 1} /\ limit' \in Nat
      BY <3>1 DEF TurnTyped, turnVars
    <3> QED
      BY <3>2, <3>3, <3>4 DEF TurnTyped
  <2> QED
    BY <1>9, <2>1, <2>2
    DEF InsertTurn, AfterCreate, UseTurn, RequestTyped, MoneyTyped, ListTyped, requestVars, moneyVars, listVars
<1>10. CASE ReadBalance(r)
  <2>1. SeenTyped'
    BY <1>10 DEF ReadBalance, SeenTyped, seenVars, MoneyTyped
  <2> QED
    BY <1>10, <2>1
    DEF ReadBalance, RequestTyped, MoneyTyped, ListTyped, TurnTyped, requestVars, moneyVars, listVars, turnVars
<1>11. CASE CutCredit(r)
  <2>1. MoneyTyped'
    BY <1>11, <1>a, NumbersAssumption DEF CutCredit, MoneyTyped, moneyVars
  <2> QED
    BY <1>11, <2>1
    DEF CutCredit, RequestTyped, SeenTyped, ListTyped, TurnTyped, requestVars, seenVars, listVars, turnVars
<1>12. CASE CutAffiliate(r)
  <2>1. MoneyTyped'
    BY <1>12, <1>a, NumbersAssumption DEF CutAffiliate, MoneyTyped, moneyVars
  <2> QED
    BY <1>12, <2>1
    DEF CutAffiliate, RequestTyped, SeenTyped, ListTyped, TurnTyped, requestVars, seenVars, listVars, turnVars
<1>13. CASE PostList(r)
  <2>1. ListTyped'
    BY <1>13, <1>a, NumbersAssumption DEF PostList, ListTyped, listVars
  <2> QED
    BY <1>13, <2>1
    DEF PostList, RequestTyped, SeenTyped, MoneyTyped, TurnTyped, requestVars, seenVars, moneyVars, turnVars
<1>14. CASE RecordWheel(r)
    BY <1>14 DEF RecordWheel, RequestTyped, SeenTyped, MoneyTyped, ListTyped, TurnTyped, requestVars, seenVars, moneyVars, listVars, turnVars
<1>15. CASE SaveMember(r)
    BY <1>15 DEF SaveMember, RequestTyped, SeenTyped, MoneyTyped, ListTyped, TurnTyped, requestVars, seenVars, moneyVars, listVars, turnVars
<1>16. CASE Notify(r)
    BY <1>16 DEF Notify, RequestTyped, SeenTyped, MoneyTyped, ListTyped, TurnTyped, requestVars, seenVars, moneyVars, listVars, turnVars
<1>17. CASE SyncTopup(r)
  <2>1. MoneyTyped'
    BY <1>17, <1>a, NumbersAssumption DEF SyncTopup, MoneyTyped, moneyVars
  <2> QED
    BY <1>17, <2>1
    DEF SyncTopup, RequestTyped, SeenTyped, ListTyped, TurnTyped, requestVars, seenVars, listVars, turnVars
<1>18. CASE SyncCut(r)
  <2>1. MoneyTyped'
    BY <1>18, <1>a, NumbersAssumption DEF SyncCut, MoneyTyped, moneyVars
  <2> QED
    BY <1>18, <2>1
    DEF SyncCut, RequestTyped, SeenTyped, ListTyped, TurnTyped, requestVars, seenVars, listVars, turnVars
<1>19. CASE SyncSave(r)
  <2>1. TurnTyped'
    BY <1>19 DEF SyncSave, TurnTyped, turnVars
  <2> QED
    BY <1>19, <2>1
    DEF SyncSave, RequestTyped, SeenTyped, MoneyTyped, ListTyped, requestVars, seenVars, moneyVars, listVars
<1> QED
    BY <1>1, <1>2, <1>3, <1>4, <1>5, <1>6, <1>7, <1>8, <1>9, <1>10, <1>11, <1>12, <1>13, <1>14, <1>15, <1>16, <1>17, <1>18, <1>19
    DEF Step, Enter, Turn, Pay, Sync

\* The surroundings keep the types.
LEMMA TypeEnvironment ==
    ASSUME TypeOK, Environment \/ Rest \/ (\E r \in Requests : Expire(Key(r)))
    PROVE  TypeOK'
<1> USE NumbersAssumption DEF TypeOK, ControlTyped, RequestTyped, SeenTyped, MoneyTyped, ListTyped, TurnTyped
<1>1. CASE Play
    BY <1>1 DEF Play, requestVars, seenVars, turnVars, listVars
<1>2. CASE ChangeTurn
    BY <1>2 DEF ChangeTurn, requestVars, seenVars, moneyVars, listVars
<1>3. CASE Midnight
    BY <1>3 DEF Midnight, requestVars, seenVars, moneyVars, turnVars
<1>4. CASE Crash
    BY <1>4 DEF Crash, Labels, requestVars, seenVars, moneyVars, turnVars, listVars
<1>5. CASE \E r \in Requests : Expire(Key(r))
    BY <1>5 DEF Expire, requestVars, seenVars, moneyVars, turnVars, listVars
<1>6. CASE Rest
    BY <1>6 DEF Rest, vars, requestVars, seenVars, moneyVars, turnVars, listVars
<1> QED
    BY <1>1, <1>2, <1>3, <1>4, <1>5, <1>6 DEF Environment

\* Every reachable state is well typed, whatever the constants are.
THEOREM TypeCorrect == Spec => []TypeOK
<1>1. TypeOK /\ [Next]_vars => TypeOK'
  <2> SUFFICES ASSUME TypeOK, [Next]_vars PROVE TypeOK'
    OBVIOUS
  <2>1. CASE UNCHANGED vars
    BY <2>1 DEF TypeOK, ControlTyped, RequestTyped, SeenTyped, MoneyTyped, ListTyped, TurnTyped,
                vars, requestVars, seenVars, moneyVars, turnVars, listVars
  <2>2. CASE \E r \in Requests : Step(r)
    BY <2>2, ControlStep, DataStep DEF TypeOK
  <2>3. CASE Environment \/ Rest \/ (\E r \in Requests : Expire(Key(r)))
    BY <2>3, TypeEnvironment
  <2> QED
    BY <2>1, <2>2, <2>3 DEF Next
<1> QED
    BY TypeInit, <1>1, PTL DEF Spec

-------------------------------------------------------------------------------
(* A payout is never larger than the credit taken for it.                  *)

\* What MoneyInv says of a request depends on these variables at that request only.
LocalTo(q) == <<pc[q], reply[q], seenLimit[q], seenBal[q], cut[q], listed[q]>>

\* A call of one handler changes no other request.
LEMMA StepLocal ==
    ASSUME TypeOK, NEW r \in Requests, Step(r)
    PROVE  /\ req' = req
           /\ \A q \in Requests \ {r} : LocalTo(q)' = LocalTo(q)
<1> USE DEF LocalTo, TypeOK, ControlTyped, SeenTyped, MoneyTyped, ListTyped, Goto, Answer,
            requestVars, seenVars, moneyVars, listVars
<1>1. CASE Arrive(r)
    BY <1>1 DEF Arrive
<1>2. CASE Validate(r)
    BY <1>2 DEF Validate
<1>3. CASE GuardGet(r)
    BY <1>3 DEF GuardGet
<1>4. CASE GuardSet(r)
    BY <1>4 DEF GuardSet
<1>5. CASE Load(r)
    BY <1>5 DEF Load
<1>6. CASE CheckLimits(r)
    BY <1>6 DEF CheckLimits
<1>7. CASE ReadTurn(r)
    BY <1>7 DEF ReadTurn, UseTurn
<1>8. CASE CreateTurn(r)
    BY <1>8 DEF CreateTurn, AfterCreate, UseTurn
<1>9. CASE InsertTurn(r)
    BY <1>9 DEF InsertTurn, AfterCreate, UseTurn
<1>10. CASE ReadBalance(r)
    BY <1>10 DEF ReadBalance
<1>11. CASE CutCredit(r)
    BY <1>11 DEF CutCredit
<1>12. CASE CutAffiliate(r)
    BY <1>12 DEF CutAffiliate
<1>13. CASE PostList(r)
    BY <1>13 DEF PostList
<1>14. CASE RecordWheel(r)
    BY <1>14 DEF RecordWheel
<1>15. CASE SaveMember(r)
    BY <1>15 DEF SaveMember
<1>16. CASE Notify(r)
    BY <1>16 DEF Notify
<1>17. CASE SyncTopup(r)
    BY <1>17 DEF SyncTopup
<1>18. CASE SyncCut(r)
    BY <1>18 DEF SyncCut
<1>19. CASE SyncSave(r)
    BY <1>19 DEF SyncSave
<1> QED
    BY <1>1, <1>2, <1>3, <1>4, <1>5, <1>6, <1>7, <1>8, <1>9, <1>10, <1>11, <1>12, <1>13, <1>14, <1>15, <1>16, <1>17, <1>18, <1>19
    DEF Step, Enter, Turn, Pay, Sync

\* A call keeps the money invariant of its own request.
LEMMA MoneyStep == ASSUME TypeOK, NEW r \in Requests, MoneyInv(r), Step(r) PROVE MoneyInv(r)'
<1>a. Amount(r) \in Nat /\ Kind(r) \in Kinds /\ CutAmount(r) \in Nat /\ PayAmount(r) \in Nat
    BY AmountsTyped DEF TypeOK
<1>b. Kind(r)' = Kind(r) /\ Amount(r)' = Amount(r)
    BY StepLocal DEF Kind, Amount
<1> USE <1>a, <1>b DEF TypeOK, ControlTyped, SeenTyped, MoneyTyped, ListTyped,
                       MoneyInv, BeforeCut, BeforeGuard, Steps, Labels, Goto, Answer
<1>1. CASE Arrive(r)
    BY <1>1 DEF Arrive, moneyVars, listVars, seenVars
<1>2. CASE Validate(r)
    BY <1>2 DEF Validate, moneyVars, listVars, seenVars
<1>3. CASE GuardGet(r)
    BY <1>3 DEF GuardGet, moneyVars, listVars, seenVars
<1>4. CASE GuardSet(r)
    BY <1>4 DEF GuardSet, moneyVars, listVars, seenVars
<1>5. CASE Load(r)
    BY <1>5 DEF Load, AfterSetting, moneyVars, listVars
<1>6. CASE CheckLimits(r)
    BY <1>6 DEF CheckLimits, moneyVars, listVars, seenVars
<1>7. CASE ReadTurn(r)
    BY <1>7 DEF ReadTurn, UseTurn, moneyVars, listVars
<1>8. CASE CreateTurn(r)
    BY <1>8 DEF CreateTurn, AfterCreate, UseTurn, moneyVars, listVars
<1>9. CASE InsertTurn(r)
    BY <1>9 DEF InsertTurn, AfterCreate, UseTurn, moneyVars, listVars
<1>10. CASE ReadBalance(r)
    BY <1>10 DEF ReadBalance, moneyVars, listVars
<1>11. CASE CutCredit(r)
    BY <1>11 DEF CutCredit, CutAmount, PayAmount, Capped, seenVars, listVars
<1>12. CASE CutAffiliate(r)
    BY <1>12 DEF CutAffiliate, PayAmount, Capped, seenVars, listVars
<1>13. CASE PostList(r)
    BY <1>13 DEF PostList, moneyVars, seenVars
<1>14. CASE RecordWheel(r)
    BY <1>14 DEF RecordWheel, moneyVars, listVars, seenVars
<1>15. CASE SaveMember(r)
    BY <1>15 DEF SaveMember, moneyVars, listVars, seenVars
<1>16. CASE Notify(r)
    BY <1>16 DEF Notify, moneyVars, listVars, seenVars
<1>17. CASE SyncTopup(r)
    BY <1>17 DEF SyncTopup, moneyVars, listVars, seenVars
<1>18. CASE SyncCut(r)
    BY <1>18 DEF SyncCut, moneyVars, listVars, seenVars
<1>19. CASE SyncSave(r)
    BY <1>19 DEF SyncSave, moneyVars, listVars, seenVars
<1> QED
    BY <1>1, <1>2, <1>3, <1>4, <1>5, <1>6, <1>7, <1>8, <1>9, <1>10, <1>11, <1>12, <1>13, <1>14, <1>15, <1>16, <1>17, <1>18, <1>19
    DEF Step, Enter, Turn, Pay, Sync

\* The surroundings change none of the variables MoneyInv is about, except that a
\* crash ends the requests in flight without a reply.
LEMMA MoneyEnvironment ==
    ASSUME TypeOK, MoneyInvariant, Environment \/ Rest \/ (\E r \in Requests : Expire(Key(r)))
    PROVE  MoneyInvariant'
<1> SUFFICES ASSUME NEW q \in Requests PROVE MoneyInv(q)'
    BY DEF MoneyInvariant
<1>a. MoneyInv(q)
    BY DEF MoneyInvariant
<1>b. req' = req
    BY DEF Environment, Play, ChangeTurn, Midnight, Crash, Rest, Expire, vars, requestVars
<1>c. Kind(q)' = Kind(q) /\ Amount(q)' = Amount(q)
    BY <1>b DEF Kind, Amount
<1>1. CASE LocalTo(q)' = LocalTo(q)
    BY <1>1, <1>a, <1>c DEF LocalTo, MoneyInv, PayAmount, Capped
<1>2. CASE Crash
  <2>1. UNCHANGED <<reply, seenLimit, seenBal, cut, listed>>
    BY <1>2 DEF Crash, seenVars, moneyVars, listVars
  <2>2. pc'[q] = pc[q] \/ (Active(q) /\ pc'[q] = "done")
    BY <1>2 DEF Crash
  <2>3. CASE pc'[q] = pc[q]
    BY <2>1, <2>3, <1>1 DEF LocalTo
  <2>4. CASE Active(q) /\ pc'[q] = "done"
    <3>1. cut[q] \in Nat /\ listed[q] \in Nat /\ PayAmount(q) \in Nat
      BY AmountsTyped DEF TypeOK, MoneyTyped, ListTyped
    <3> QED
      BY <2>1, <2>4, <1>a, <1>c, <3>1
      DEF MoneyInv, Active, BeforeCut, BeforeGuard, Labels, Steps
  <2> QED
    BY <2>2, <2>3, <2>4
<1>3. CASE Play \/ ChangeTurn \/ Midnight \/ Rest \/ \E r \in Requests : Expire(Key(r))
  <2>1. LocalTo(q)' = LocalTo(q)
    BY <1>3 DEF Play, ChangeTurn, Midnight, Rest, Expire, LocalTo, vars, requestVars, seenVars, moneyVars, listVars
  <2> QED
    BY <2>1, <1>1
<1> QED
    BY <1>2, <1>3 DEF Environment

\* The money invariant holds in every reachable state.
THEOREM MoneyCorrect == Spec => []MoneyInvariant
<1>1. Init => MoneyInvariant
    BY DEF Init, MoneyInvariant, MoneyInv, BeforeGuard, BeforeCut, Steps
<1>2. TypeOK /\ MoneyInvariant /\ [Next]_vars => MoneyInvariant'
  <2> SUFFICES ASSUME TypeOK, MoneyInvariant, [Next]_vars PROVE MoneyInvariant'
    OBVIOUS
  <2>1. CASE UNCHANGED vars
    BY <2>1 DEF MoneyInvariant, MoneyInv, Kind, Amount, PayAmount, Capped,
                vars, requestVars, seenVars, moneyVars, listVars
  <2>2. ASSUME NEW r \in Requests, Step(r) PROVE MoneyInvariant'
    <3>1. MoneyInv(r)'
      BY <2>2, MoneyStep DEF MoneyInvariant
    <3>2. ASSUME NEW q \in Requests \ {r} PROVE MoneyInv(q)'
      <4>1. LocalTo(q)' = LocalTo(q) /\ req' = req
        BY <2>2, StepLocal
      <4>2. MoneyInv(q)
        BY DEF MoneyInvariant
      <4> QED
        BY <4>1, <4>2 DEF LocalTo, MoneyInv, Kind, Amount, PayAmount, Capped
    <3> QED
      BY <3>1, <3>2 DEF MoneyInvariant
  <2> QED
    BY <2>1, <2>2, MoneyEnvironment DEF Next
<1> QED
    BY TypeCorrect, <1>1, <1>2, PTL DEF Spec

\* No listed withdrawal exceeds the credit taken for it, for every number of
\* concurrent requests, every cap and every failure.
THEOREM PayoutsAreCovered == Spec => []PayoutCovered
<1>1. TypeOK /\ MoneyInvariant => PayoutCovered
  <2> SUFFICES ASSUME TypeOK, MoneyInvariant, NEW r \in Requests PROVE listed[r] <= cut[r]
    BY DEF PayoutCovered
  <2>1. pc[r] \in Labels /\ cut[r] \in Nat /\ listed[r] \in Nat
    BY DEF TypeOK, ControlTyped, MoneyTyped, ListTyped
  <2>2. MoneyInv(r)
    BY DEF MoneyInvariant
  <2>3. CASE pc[r] \in BeforeCut
    BY <2>1, <2>2, <2>3 DEF MoneyInv
  <2>4. CASE pc[r] \in {"list", "record", "save", "notify", "done"}
    BY <2>1, <2>2, <2>4 DEF MoneyInv
  <2> QED
    BY <2>1, <2>3, <2>4 DEF BeforeCut
<1> QED
    BY TypeCorrect, MoneyCorrect, <1>1, PTL

\* Success is told only after credit was taken and the withdrawal listed.
THEOREM SuccessIsTrue == Spec => []OkMeansPaid
<1>1. TypeOK /\ MoneyInvariant => OkMeansPaid
    BY DEF MoneyInvariant, MoneyInv, OkMeansPaid, TypeOK, MoneyTyped, ListTyped
<1> QED
    BY TypeCorrect, MoneyCorrect, <1>1, PTL

-------------------------------------------------------------------------------
(* A repeated submission takes nothing while the first one's guard lives.  *)

\* How a call moves between the phases before and after the guard.
LEMMA GuardPhases ==
    ASSUME TypeOK, GuardInvariant, NEW r \in Requests, Step(r)
    PROVE  /\ pc[r] \notin BeforeGuard => pc'[r] \notin BeforeGuard
           /\ pc'[r] \in BeforeGuard => cut'[r] = cut[r]
           /\ cut'[r] > 0 => cut[r] > 0 \/ pc[r] \in {"cut", "affcut"}
           /\ pc'[r] \in Steps \ {"validate", "get"} =>
                 pc[r] = "get" \/ pc[r] \in Steps \ {"validate", "get"}
<1> USE DEF TypeOK, ControlTyped, MoneyTyped, BeforeGuard, Steps, Goto, Answer
<1>1. CASE Arrive(r)
    BY <1>1 DEF Arrive, moneyVars
<1>2. CASE Validate(r)
    BY <1>2 DEF Validate, moneyVars
<1>3. CASE GuardGet(r)
    BY <1>3 DEF GuardGet, moneyVars
<1>4. CASE GuardSet(r)
    BY <1>4 DEF GuardSet, moneyVars
<1>5. CASE Load(r)
    BY <1>5 DEF Load, AfterSetting, moneyVars
<1>6. CASE CheckLimits(r)
    BY <1>6 DEF CheckLimits, moneyVars
<1>7. CASE ReadTurn(r)
    BY <1>7 DEF ReadTurn, UseTurn, moneyVars
<1>8. CASE CreateTurn(r)
    BY <1>8 DEF CreateTurn, AfterCreate, UseTurn, moneyVars
<1>9. CASE InsertTurn(r)
    BY <1>9 DEF InsertTurn, AfterCreate, UseTurn, moneyVars
<1>10. CASE ReadBalance(r)
    BY <1>10 DEF ReadBalance, moneyVars
<1>11. CASE CutCredit(r)
    BY <1>11 DEF CutCredit
<1>12. CASE CutAffiliate(r)
    BY <1>12 DEF CutAffiliate
<1>13. CASE PostList(r)
    BY <1>13 DEF PostList, moneyVars
<1>14. CASE RecordWheel(r)
    BY <1>14 DEF RecordWheel, moneyVars
<1>15. CASE SaveMember(r)
    BY <1>15 DEF SaveMember, moneyVars
<1>16. CASE Notify(r)
    BY <1>16 DEF Notify, moneyVars
<1>17. CASE SyncTopup(r)
    BY <1>17 DEF SyncTopup, moneyVars
<1>18. CASE SyncCut(r)
    BY <1>18 DEF SyncCut, moneyVars
<1>19. CASE SyncSave(r)
    BY <1>19 DEF SyncSave, moneyVars
<1> QED
    BY <1>1, <1>2, <1>3, <1>4, <1>5, <1>6, <1>7, <1>8, <1>9, <1>10, <1>11, <1>12, <1>13, <1>14, <1>15, <1>16, <1>17, <1>18, <1>19
    DEF Step, Enter, Turn, Pay, Sync

\* Marks and arrivals change only in GuardSet and Arrive.
LEMMA GuardFrame ==
    ASSUME TypeOK, NEW r \in Requests, Step(r)
    PROVE  /\ (marks' = marks \/ (pc[r] = "set" /\ pc'[r] \notin BeforeGuard /\ marks' = marks \cup {r}))
           /\ \/ earlier' = earlier
              \/ /\ pc[r] = "idle" /\ pc'[r] \in {"get", "validate", "done"} /\ cut'[r] = cut[r]
                 /\ earlier' = [earlier EXCEPT ![r] = marks] /\ marks' = marks
           /\ pc[r] = "get" /\ pc'[r] \in Steps => \A q \in marks : Key(q) # Key(r)
<1> USE DEF TypeOK, ControlTyped, BeforeGuard, Goto, Answer, Steps, Labels, requestVars, moneyVars
<1>1. CASE Arrive(r)
    BY <1>1 DEF Arrive
<1>2. CASE Validate(r)
    BY <1>2 DEF Validate
<1>3. CASE GuardGet(r)
    BY <1>3 DEF GuardGet
<1>4. CASE GuardSet(r)
    BY <1>4 DEF GuardSet
<1>5. CASE Load(r)
    BY <1>5 DEF Load, AfterSetting
<1>6. CASE CheckLimits(r)
    BY <1>6 DEF CheckLimits
<1>7. CASE ReadTurn(r)
    BY <1>7 DEF ReadTurn, UseTurn
<1>8. CASE CreateTurn(r)
    BY <1>8 DEF CreateTurn, AfterCreate, UseTurn
<1>9. CASE InsertTurn(r)
    BY <1>9 DEF InsertTurn, AfterCreate, UseTurn
<1>10. CASE ReadBalance(r)
    BY <1>10 DEF ReadBalance
<1>11. CASE CutCredit(r)
    BY <1>11 DEF CutCredit
<1>12. CASE CutAffiliate(r)
    BY <1>12 DEF CutAffiliate
<1>13. CASE PostList(r)
    BY <1>13 DEF PostList
<1>14. CASE RecordWheel(r)
    BY <1>14 DEF RecordWheel
<1>15. CASE SaveMember(r)
    BY <1>15 DEF SaveMember
<1>16. CASE Notify(r)
    BY <1>16 DEF Notify
<1>17. CASE SyncTopup(r)
    BY <1>17 DEF SyncTopup
<1>18. CASE SyncCut(r)
    BY <1>18 DEF SyncCut
<1>19. CASE SyncSave(r)
    BY <1>19 DEF SyncSave
<1> QED
    BY <1>1, <1>2, <1>3, <1>4, <1>5, <1>6, <1>7, <1>8, <1>9, <1>10, <1>11, <1>12, <1>13, <1>14, <1>15, <1>16, <1>17, <1>18, <1>19
    DEF Step, Enter, Turn, Pay, Sync

\* A call keeps the guard invariant.
LEMMA GuardStep == ASSUME TypeOK, GuardInvariant, NEW r \in Requests, Step(r) PROVE GuardInvariant'
<1>a. /\ req' = req
      /\ \A q \in Requests \ {r} : pc'[q] = pc[q] /\ cut'[q] = cut[q]
    BY StepLocal DEF LocalTo
<1>b. \A q \in Requests : Key(q)' = Key(q)
    BY <1>a DEF Key, Kind, Amount
<1>c. \A q \in Requests : pc[q] \notin BeforeGuard => pc'[q] \notin BeforeGuard
    BY <1>a, GuardPhases
<1>d. earlier \in [Requests -> SUBSET Requests] /\ marks \subseteq Requests
    BY DEF TypeOK, RequestTyped
<1>1. \A q \in marks' : pc'[q] \notin BeforeGuard
    BY <1>c, <1>d, GuardFrame DEF GuardInvariant
<1>2. \A p \in Requests : \A q \in earlier'[p] : pc'[q] \notin BeforeGuard
    BY <1>c, <1>d, GuardFrame DEF GuardInvariant
<1>3. \A p \in Requests : pc'[p] \in BeforeGuard => cut'[p] = 0
    BY <1>a, GuardPhases DEF GuardInvariant
<1>4. ASSUME NEW p \in Requests, pc'[p] \in Steps \ {"validate", "get"} \/ cut'[p] > 0,
             NEW q \in earlier'[p] \cap marks'
      PROVE  Key(q)' # Key(p)'
  <2>1. q \in Requests
    BY <1>d, GuardFrame
  <2>2. SUFFICES Key(q) # Key(p)
    BY <2>1, <1>b
  <2>3. q \in earlier[p] /\ earlier'[p] = earlier[p]
    <3>1. CASE earlier' = earlier
      BY <3>1
    <3>2. CASE earlier' # earlier
      <4>1. /\ pc[r] = "idle" /\ pc'[r] \in {"get", "validate", "done"} /\ cut'[r] = cut[r]
            /\ earlier' = [earlier EXCEPT ![r] = marks]
        BY <3>2, GuardFrame
      <4>2. cut'[r] = 0
        BY <4>1 DEF GuardInvariant, BeforeGuard
      <4>3. p # r
        BY <4>1, <4>2, <1>4 DEF Steps
      <4> QED
        BY <4>1, <4>3, <1>d
    <3> QED
      BY <3>1, <3>2
  <2>4. q \in marks
    <3>1. CASE marks' = marks
      BY <3>1
    <3>2. CASE pc[r] = "set" /\ marks' = marks \cup {r}
      <4>1. q # r
        BY <3>2, <2>3 DEF GuardInvariant, BeforeGuard
      <4> QED
        BY <3>2, <4>1
    <3> QED
      BY <3>1, <3>2, GuardFrame
  <2>5. CASE p # r
    <3>1. pc[p] \in Steps \ {"validate", "get"} \/ cut[p] > 0
      BY <1>a, <1>4, <2>5
    <3> QED
      BY <3>1, <2>3, <2>4 DEF GuardInvariant
  <2>6. CASE p = r
    <3>1. CASE pc[r] \in Steps \ {"validate", "get"} \/ cut[r] > 0
      BY <3>1, <2>3, <2>4, <2>6 DEF GuardInvariant
    <3>2. CASE pc[r] = "get" /\ pc'[r] \in Steps
      BY <3>2, <2>4, <2>6, GuardFrame
    <3> QED
      BY <3>1, <3>2, <1>4, <2>6, GuardPhases DEF Steps
  <2> QED
    BY <2>5, <2>6
<1>5. \A p \in Requests :
         pc'[p] \in Steps \ {"validate", "get"} \/ cut'[p] > 0 =>
             \A q \in earlier'[p] \cap marks' : Key(q)' # Key(p)'
    BY <1>4
<1> QED
    BY <1>1, <1>2, <1>3, <1>5 DEF GuardInvariant

\* The surroundings keep the guard invariant: keys only expire, requests only end.
LEMMA GuardEnvironment ==
    ASSUME TypeOK, GuardInvariant, Environment \/ Rest \/ (\E r \in Requests : Expire(Key(r)))
    PROVE  GuardInvariant'
<1>1. req' = req /\ earlier' = earlier /\ cut' = cut /\ marks' \subseteq marks
    BY DEF Environment, Play, ChangeTurn, Midnight, Crash, Rest, Expire, vars, requestVars, moneyVars
<1>2. \A q \in Requests : pc'[q] = pc[q] \/ pc'[q] = "done"
    BY DEF Environment, Play, ChangeTurn, Midnight, Crash, Rest, Expire, vars, TypeOK, ControlTyped
<1>3. \A q \in Requests : Key(q)' = Key(q)
    BY <1>1 DEF Key, Kind, Amount
<1>4. earlier \in [Requests -> SUBSET Requests] /\ marks \subseteq Requests /\ cut \in [Requests -> Nat]
    BY DEF TypeOK, RequestTyped, MoneyTyped
<1>5. "done" \notin BeforeGuard /\ "done" \notin Steps
    BY DEF BeforeGuard, Steps
<1> QED
    BY <1>1, <1>2, <1>3, <1>4, <1>5 DEF GuardInvariant

\* While a duplicate guard is alive, a later identical submission takes nothing.
THEOREM RetriesTakeNothing == Spec => []RetryTakesNothing
<1>1. Init => GuardInvariant
    BY DEF Init, GuardInvariant, BeforeGuard, Steps
<1>2. TypeOK /\ GuardInvariant /\ [Next]_vars => GuardInvariant'
  <2>1. ASSUME GuardInvariant, UNCHANGED vars PROVE GuardInvariant'
    BY <2>1 DEF GuardInvariant, Key, Kind, Amount, vars, requestVars, moneyVars
  <2> QED
    BY <2>1, GuardStep, GuardEnvironment DEF Next
<1>3. TypeOK /\ GuardInvariant => RetryTakesNothing
  <2> SUFFICES ASSUME TypeOK, GuardInvariant, NEW r \in Requests, NEW q \in Requests,
                      q \in earlier[r] \cap marks, Key(q) = Key(r)
               PROVE  cut[r] = 0
    BY DEF RetryTakesNothing
  <2>1. cut[r] \in Nat
    BY DEF TypeOK, MoneyTyped
  <2>2. ~(cut[r] > 0)
    BY DEF GuardInvariant
  <2> QED
    BY <2>1, <2>2
<1> QED
    BY TypeCorrect, <1>1, <1>2, <1>3, PTL DEF Spec

-------------------------------------------------------------------------------
(* A withdrawal that runs alone keeps the daily limits.                    *)

\* The report of the list service is not below the withdrawals of kind Withdraw.
LEMMA TallyCounts ==
    ASSUME NEW f \in [ListKinds -> Nat]
    PROVE  Tally(f) \in Nat /\ f["Withdraw"] <= Tally(f) /\ (Counted = {"Withdraw"} => Tally(f) = f["Withdraw"])
<1>1. {"Withdraw", "CutCreditV2", "WithdrawAff"} \subseteq ListKinds
    BY DEF ListKinds, Kinds
<1>2. \A k \in {"Withdraw", "CutCreditV2", "WithdrawAff"} : Part(f, k) \in Nat
    BY <1>1 DEF Part
<1>3. Part(f, "Withdraw") = f["Withdraw"]
    BY KindsAssumption DEF Part
<1>4. Counted = {"Withdraw"} => Part(f, "CutCreditV2") = 0 /\ Part(f, "WithdrawAff") = 0
    BY DEF Part
<1> QED
    BY <1>1, <1>2, <1>3, <1>4 DEF Tally

\* An amount within the limits leaves room for itself.
LEMMA LimitsLeaveRoom ==
    ASSUME TypeOK, LimitInvariant, NEW r \in Requests, WithinDailyLimits(Amount(r))
    PROVE  RoomLeft(r) /\ ~Closed
<1>1. total \in [ListKinds -> Nat] /\ times \in [ListKinds -> Nat] /\ Amount(r) \in Nat
    BY AmountsTyped DEF TypeOK, ListTyped
<1>2. /\ Tally(total) \in Nat /\ total["Withdraw"] <= Tally(total) /\ total["Withdraw"] \in Nat
      /\ Tally(times) \in Nat /\ times["Withdraw"] <= Tally(times) /\ times["Withdraw"] \in Nat
      /\ Counted = {"Withdraw"} => Tally(times) = times["Withdraw"]
    BY <1>1, TallyCounts DEF ListKinds, Kinds
<1>3. DayCredit \in Nat /\ DayTimes \in Nat
    BY SettingAssumption
<1>4. DayCredit > 0 => total["Withdraw"] + Amount(r) <= DayCredit
    BY <1>1, <1>2, <1>3 DEF WithinDailyLimits
<1>5. DayCredit > 0 /\ Counted = {"Withdraw"} => times["Withdraw"] # DayTimes
    BY <1>2 DEF WithinDailyLimits
<1>6. TimesOn /\ DayTimes > 0 => times["Withdraw"] + 1 <= DayTimes
    BY <1>2, <1>3 DEF WithinDailyLimits
<1> QED
    BY <1>4, <1>5, <1>6 DEF RoomLeft, Closed, LimitInvariant

\* What a call does to the totals of the list and to the phases of the limit check.
LEMMA LimitFrame ==
    ASSUME TypeOK, MoneyInvariant, NEW r \in Requests, Step(r)
    PROVE  /\ \/ UNCHANGED <<total, times, listed>>
              \/ /\ pc[r] = "list" /\ pc'[r] \notin AfterLimits
                 /\ total' = [total EXCEPT ![Kind(r)] = @ + PayAmount(r)]
                 /\ times' = [times EXCEPT ![Kind(r)] = @ + 1]
           /\ overlapped \subseteq overlapped' /\ (pc[r] # "idle" => overlapped' = overlapped)
           /\ \A q \in Requests : Active(q) /\ ~Active(r) => {q, r} \subseteq overlapped'
           /\ pc'[r] \in AfterLimits /\ Kind(r) = "Withdraw" =>
                 pc[r] \in AfterLimits \/ (pc[r] = "limits" /\ WithinDailyLimits(Amount(r)))
<1> USE DEF TypeOK, ControlTyped, Goto, Answer, Steps, Labels, AfterLimits, listVars, Active,
            requestVars
<1>1. CASE Arrive(r)
    BY <1>1 DEF Arrive
<1>2. CASE Validate(r)
    BY <1>2 DEF Validate
<1>3. CASE GuardGet(r)
    BY <1>3 DEF GuardGet
<1>4. CASE GuardSet(r)
    BY <1>4 DEF GuardSet
<1>5. CASE Load(r)
    BY <1>5 DEF Load, AfterSetting
<1>6. CASE CheckLimits(r)
    BY <1>6 DEF CheckLimits
<1>7. CASE ReadTurn(r)
    BY <1>7 DEF ReadTurn, UseTurn
<1>8. CASE CreateTurn(r)
    BY <1>8 DEF CreateTurn, AfterCreate, UseTurn
<1>9. CASE InsertTurn(r)
    BY <1>9 DEF InsertTurn, AfterCreate, UseTurn
<1>10. CASE ReadBalance(r)
    BY <1>10 DEF ReadBalance
<1>11. CASE CutCredit(r)
    BY <1>11 DEF CutCredit
<1>12. CASE CutAffiliate(r)
  <2>1. Kind(r) = "WithdrawAff"
    BY <1>12 DEF CutAffiliate, MoneyInvariant, MoneyInv
  <2> QED
    BY <1>12, <2>1 DEF CutAffiliate
<1>13. CASE PostList(r)
  <2>0. pc[r] = "list" /\ r \in DOMAIN pc
    BY <1>13 DEF PostList
  <2>1. pc[r] = "list" /\ pc'[r] \in {"save", "done"}
    <3>1. Goto(r, "save") \/ Answer(r, "error")
      BY <1>13 DEF PostList
    <3> QED
      BY <2>0, <3>1
  <2>2. \/ UNCHANGED <<total, times, listed>>
        \/ /\ total' = [total EXCEPT ![Kind(r)] = @ + PayAmount(r)]
           /\ times' = [times EXCEPT ![Kind(r)] = @ + 1]
    BY <1>13 DEF PostList
  <2>3. Active(r) /\ overlapped' = overlapped
    BY <1>13, <2>0 DEF PostList
  <2> QED
    BY <2>1, <2>2, <2>3
<1>14. CASE RecordWheel(r)
    BY <1>14 DEF RecordWheel
<1>15. CASE SaveMember(r)
    BY <1>15 DEF SaveMember
<1>16. CASE Notify(r)
    BY <1>16 DEF Notify
<1>17. CASE SyncTopup(r)
    BY <1>17 DEF SyncTopup
<1>18. CASE SyncCut(r)
    BY <1>18 DEF SyncCut
<1>19. CASE SyncSave(r)
    BY <1>19 DEF SyncSave
<1> QED
    BY <1>1, <1>2, <1>3, <1>4, <1>5, <1>6, <1>7, <1>8, <1>9, <1>10, <1>11, <1>12, <1>13, <1>14, <1>15, <1>16, <1>17, <1>18, <1>19
    DEF Step, Enter, Turn, Pay, Sync

\* What the property says of a step.
KeptBy(r) ==
    Kind(r) = "Withdraw" /\ r \notin overlapped /\ listed'[r] # listed[r] =>
      /\ DayCredit > 0 => total'["Withdraw"] <= DayCredit
      /\ TimesOn /\ DayTimes > 0 => times'["Withdraw"] <= DayTimes
      /\ DailyLimit => DailyLimit'

\* A call of a request that runs alone finds the report its check read; the others
\* know of each other.
LEMMA LimitStep ==
    ASSUME TypeOK, MoneyInvariant, LimitInvariant, NEW r \in Requests, Step(r)
    PROVE  LimitInvariant' /\ \A q \in Requests : KeptBy(q)
<1>a. /\ req' = req
      /\ \A q \in Requests \ {r} : pc'[q] = pc[q] /\ listed'[q] = listed[q]
    BY StepLocal DEF LocalTo
<1>b. /\ \A q \in Requests : Amount(q) \in Nat /\ Kind(q)' = Kind(q) /\ Amount(q)' = Amount(q)
      /\ PayAmount(r) \in Nat /\ PayAmount(r) <= Amount(r)
    BY <1>a, AmountsTyped DEF TypeOK, PayAmount, Capped, Kind, Amount, SeenTyped
<1>c. /\ total \in [ListKinds -> Nat] /\ times \in [ListKinds -> Nat] /\ "Withdraw" \in ListKinds
      /\ DayCredit \in Nat /\ DayTimes \in Nat
    BY SettingAssumption DEF TypeOK, ListTyped, ListKinds, Kinds
<1>d. pc[r] = "list" => Active(r) /\ pc[r] \in AfterLimits /\ pc[r] # "idle"
    BY DEF Active, Steps, AfterLimits
<1>e. \A q \in Requests : pc[q] \in AfterLimits => Active(q)
    BY DEF Active, Steps, AfterLimits
<1>1. CASE UNCHANGED <<total, times, listed>>
  <2>1. \A q \in Requests : KeptBy(q)
    BY <1>1 DEF KeptBy
  <2>2. \A p, q \in Requests : Active(p)' /\ Active(q)' /\ p # q => p \in overlapped'
    BY <1>a, LimitFrame DEF LimitInvariant, Active, Steps
  <2>3. ASSUME NEW q \in Requests, Kind(q)' = "Withdraw", pc'[q] \in AfterLimits
        PROVE  ~Closed /\ (q \notin overlapped' => RoomLeft(q)')
    <3>1. CASE pc[q] \in AfterLimits
      <4>1. ~Closed /\ (q \notin overlapped => RoomLeft(q))
        BY <1>b, <2>3, <3>1 DEF LimitInvariant
      <4>2. q \notin overlapped' => q \notin overlapped
        BY LimitFrame
      <4> QED
        BY <1>1, <1>b, <4>1, <4>2 DEF RoomLeft
    <3>2. CASE pc[q] \notin AfterLimits
      <4>1. q = r
        BY <1>a, <2>3, <3>2
      <4>2. WithinDailyLimits(Amount(r))
        BY <1>b, <2>3, <3>2, <4>1, LimitFrame
      <4>3. RoomLeft(r) /\ ~Closed
        BY <4>2, LimitsLeaveRoom
      <4> QED
        BY <1>1, <1>b, <4>1, <4>3 DEF RoomLeft
    <3> QED
      BY <3>1, <3>2
  <2> QED
    BY <1>1, <2>1, <2>2, <2>3 DEF LimitInvariant, Closed
<1>2. CASE /\ pc[r] = "list" /\ pc'[r] \notin AfterLimits
           /\ total' = [total EXCEPT ![Kind(r)] = @ + PayAmount(r)]
           /\ times' = [times EXCEPT ![Kind(r)] = @ + 1]
  <2>1. overlapped' = overlapped
    BY <1>2, <1>d, LimitFrame
  <2>2. \A q \in Requests : Active(q)' => Active(q)
    BY <1>2, <1>a, <1>d DEF Active
  <2>3. /\ Kind(r) = "Withdraw" =>
             /\ total'["Withdraw"] = total["Withdraw"] + PayAmount(r)
             /\ times'["Withdraw"] = times["Withdraw"] + 1
        /\ Kind(r) # "Withdraw" => UNCHANGED <<total["Withdraw"], times["Withdraw"]>>
    BY <1>2, <1>c
  <2>4. Kind(r) = "Withdraw" => ~Closed /\ (r \notin overlapped => RoomLeft(r))
    BY <1>2, <1>d DEF LimitInvariant
  <2>5. \A q \in Requests : KeptBy(q)
    <3>1. ASSUME NEW q \in Requests \ {r} PROVE KeptBy(q)
      BY <1>a, <3>1 DEF KeptBy
    <3>2. KeptBy(r)
      <4>1. SUFFICES ASSUME Kind(r) = "Withdraw", RoomLeft(r)
                     PROVE  KeptBy(r)
        BY <2>4 DEF KeptBy
      <4> QED
        BY <1>b, <1>c, <2>3, <4>1 DEF KeptBy, RoomLeft, DailyLimit
    <3> QED
      BY <3>1, <3>2
  <2>6. ASSUME NEW q \in Requests, Kind(q)' = "Withdraw", pc'[q] \in AfterLimits
        PROVE  ~Closed /\ (q \notin overlapped' => RoomLeft(q)')
    <3>1. q # r /\ pc[q] \in AfterLimits /\ Active(q) /\ Active(r)
      BY <1>2, <1>a, <1>d, <1>e, <2>6
    <3> QED
      BY <1>b, <2>1, <2>6, <3>1 DEF LimitInvariant
  <2> QED
    BY <2>1, <2>2, <2>3, <2>4, <2>5, <2>6 DEF LimitInvariant, Closed
<1> QED
    BY <1>1, <1>2, LimitFrame

\* The surroundings keep what was read; midnight starts the counts again.
LEMMA LimitEnvironment ==
    ASSUME TypeOK, LimitInvariant,
           Environment \/ Rest \/ (\E r \in Requests : Expire(Key(r))) \/ UNCHANGED vars
    PROVE  LimitInvariant' /\ \A q \in Requests : KeptBy(q)
<1>1. /\ UNCHANGED <<req, listed, overlapped>>
      /\ \A q \in Requests : pc'[q] = pc[q] \/ pc'[q] = "done"
    BY DEF Environment, Play, ChangeTurn, Midnight, Crash, Rest, Expire, vars, requestVars, listVars,
           TypeOK, ControlTyped
<1>2. \A q \in Requests : Kind(q)' = Kind(q) /\ Amount(q)' = Amount(q) /\ Amount(q) \in Nat
    BY <1>1, AmountsTyped DEF Kind, Amount, TypeOK
<1>3. /\ total \in [ListKinds -> Nat] /\ times \in [ListKinds -> Nat] /\ "Withdraw" \in ListKinds
      /\ DayCredit \in Nat /\ DayTimes \in Nat
    BY SettingAssumption DEF TypeOK, ListTyped, ListKinds, Kinds
<1>4. UNCHANGED <<total, times>> \/ (total'["Withdraw"] = 0 /\ times'["Withdraw"] = 0)
    BY <1>3 DEF Environment, Play, ChangeTurn, Midnight, Crash, Rest, Expire, vars, listVars
<1>5. \A q \in Requests : KeptBy(q)
    BY <1>1 DEF KeptBy
<1>6. \A q \in Requests : Active(q)' => Active(q)
    BY <1>1 DEF Active, Steps
<1>7. ASSUME NEW q \in Requests, Kind(q)' = "Withdraw", pc'[q] \in AfterLimits
      PROVE  ~Closed /\ (q \notin overlapped' => RoomLeft(q)')
  <2>1. ~Closed /\ (q \notin overlapped' => RoomLeft(q))
    BY <1>1, <1>2, <1>7 DEF LimitInvariant, AfterLimits
  <2>2. CASE UNCHANGED <<total, times>>
    BY <1>2, <2>1, <2>2 DEF RoomLeft
  <2>3. CASE total'["Withdraw"] = 0 /\ times'["Withdraw"] = 0
    <3>1. total["Withdraw"] \in Nat /\ times["Withdraw"] \in Nat
      BY <1>3
    <3> QED
      BY <1>2, <1>3, <2>1, <2>3, <3>1 DEF RoomLeft, Closed
  <2> QED
    BY <1>4, <2>2, <2>3
<1> QED
    BY <1>1, <1>4, <1>5, <1>6, <1>7 DEF LimitInvariant, Closed

\* A withdrawal that nobody ran beside never takes the day over a limit, whatever other
\* requests did before it, across crashes, lost answers and midnight.
THEOREM AloneWithinLimits == Spec => AloneKeepsLimits
<1>1. Init => LimitInvariant
  <2>1. "Withdraw" \in ListKinds
    BY DEF ListKinds, Kinds
  <2> QED
    BY <2>1 DEF Init, LimitInvariant, Active, Steps, AfterLimits
<1>2. TypeOK /\ MoneyInvariant /\ LimitInvariant /\ [Next]_vars =>
        LimitInvariant' /\ \A q \in Requests : KeptBy(q)
    BY LimitStep, LimitEnvironment DEF Next
<1>3. (\A q \in Requests : KeptBy(q)) =>
        \A r \in Requests :
          Kind(r) = "Withdraw" /\ r \notin overlapped /\ listed'[r] # listed[r] =>
            /\ DayCredit > 0 => total'["Withdraw"] <= DayCredit
            /\ TimesOn /\ DayTimes > 0 => times'["Withdraw"] <= DayTimes
            /\ DailyLimit => DailyLimit'
    BY DEF KeptBy
<1> QED
    BY TypeCorrect, MoneyCorrect, <1>1, <1>2, <1>3, PTL DEF Spec, AloneKeepsLimits

-------------------------------------------------------------------------------
(* The handlers implement CreditPayout.                                    *)

StatusFn == [r \in Requests |-> Status(r)]
Purchases == {r \in Requests : Kind(r) = "WheelBuy"}

\* The status of the other requests does not change, and a request that has ended
\* stays as it is.
LEMMA StatusFrame ==
    ASSUME TypeOK, NEW r \in Requests, Step(r)
    PROVE  /\ StatusFn' = [StatusFn EXCEPT ![r] = Status(r)']
           /\ Purchases' = Purchases
           /\ pc[r] # "done" /\ Status(r) = "open"
<1>1. \A q \in Requests \ {r} : Status(q)' = Status(q)
    BY StepLocal DEF LocalTo, Status
<1>2. Purchases' = Purchases
    BY StepLocal DEF Purchases, Kind
<1>3. pc[r] # "done"
    BY DEF Step, Enter, Turn, Pay, Sync, Arrive, Validate, GuardGet, GuardSet, Load, CheckLimits,
           ReadTurn, CreateTurn, InsertTurn, ReadBalance, CutCredit, CutAffiliate, PostList,
           RecordWheel, SaveMember, Notify, SyncTopup, SyncCut, SyncSave
<1> QED
    BY <1>1, <1>2, <1>3 DEF StatusFn, Status

\* Every call takes, pays, confirms, fails, or changes nothing of the promise.
LEMMA StepKinds ==
    ASSUME TypeOK, MoneyInvariant, NEW r \in Requests, Step(r)
    PROVE  \/ /\ cut[r] = 0 /\ cut'[r] > 0 /\ cut' = [cut EXCEPT ![r] = cut'[r]]
              /\ listed' = listed /\ Status(r)' \in {"open", "failed"}
           \/ /\ Kind(r) # "WheelBuy" /\ listed[r] = 0 /\ listed'[r] \in 1..cut[r]
              /\ listed' = [listed EXCEPT ![r] = listed'[r]]
              /\ cut' = cut /\ Status(r)' \in {"open", "failed"}
           \/ /\ cut[r] > 0 /\ (Kind(r) = "WheelBuy" \/ listed[r] > 0)
              /\ UNCHANGED <<cut, listed>> /\ Status(r)' = "confirmed"
           \/ UNCHANGED <<cut, listed>> /\ Status(r)' \in {"open", "failed"}
<1>a. Amount(r) \in Nat /\ Kind(r) \in Kinds /\ CutAmount(r) \in Nat /\ PayAmount(r) \in Nat
    BY AmountsTyped DEF TypeOK
<1>b. MoneyInv(r)
    BY DEF MoneyInvariant
<1> USE <1>a, <1>b DEF TypeOK, ControlTyped, SeenTyped, MoneyTyped, ListTyped, Status,
                       MoneyInv, BeforeCut, BeforeGuard, Steps, Labels, Goto, Answer
<1>1. CASE Arrive(r)
    BY <1>1 DEF Arrive, moneyVars, listVars
<1>2. CASE Validate(r)
    BY <1>2 DEF Validate, moneyVars, listVars
<1>3. CASE GuardGet(r)
    BY <1>3 DEF GuardGet, moneyVars, listVars
<1>4. CASE GuardSet(r)
    BY <1>4 DEF GuardSet, moneyVars, listVars
<1>5. CASE Load(r)
    BY <1>5 DEF Load, AfterSetting, moneyVars, listVars
<1>6. CASE CheckLimits(r)
    BY <1>6 DEF CheckLimits, moneyVars, listVars
<1>7. CASE ReadTurn(r)
    BY <1>7 DEF ReadTurn, UseTurn, moneyVars, listVars
<1>8. CASE CreateTurn(r)
    BY <1>8 DEF CreateTurn, AfterCreate, UseTurn, moneyVars, listVars
<1>9. CASE InsertTurn(r)
    BY <1>9 DEF InsertTurn, AfterCreate, UseTurn, moneyVars, listVars
<1>10. CASE ReadBalance(r)
    BY <1>10 DEF ReadBalance, moneyVars, listVars
<1>11. CASE CutCredit(r)
    BY <1>11 DEF CutCredit, CutAmount, PayAmount, Capped, listVars
<1>12. CASE CutAffiliate(r)
    BY <1>12 DEF CutAffiliate, listVars
<1>13. CASE PostList(r)
    BY <1>13 DEF PostList, moneyVars
<1>14. CASE RecordWheel(r)
    BY <1>14 DEF RecordWheel, moneyVars, listVars
<1>15. CASE SaveMember(r)
    BY <1>15 DEF SaveMember, moneyVars, listVars
<1>16. CASE Notify(r)
    BY <1>16 DEF Notify, moneyVars, listVars
<1>17. CASE SyncTopup(r)
    BY <1>17 DEF SyncTopup, moneyVars, listVars
<1>18. CASE SyncCut(r)
    BY <1>18 DEF SyncCut, moneyVars, listVars
<1>19. CASE SyncSave(r)
    BY <1>19 DEF SyncSave, moneyVars, listVars
<1> QED
    BY <1>1, <1>2, <1>3, <1>4, <1>5, <1>6, <1>7, <1>8, <1>9, <1>10, <1>11, <1>12, <1>13, <1>14, <1>15, <1>16, <1>17, <1>18, <1>19
    DEF Step, Enter, Turn, Pay, Sync

\* A call of a handler is a step of the promise.
LEMMA StepRefines ==
    ASSUME TypeOK, MoneyInvariant, NEW r \in Requests, Step(r)
    PROVE  Promise!Next
<1>a. /\ StatusFn' = [StatusFn EXCEPT ![r] = Status(r)']
      /\ Purchases' = Purchases /\ StatusFn[r] = "open"
    BY StatusFrame DEF StatusFn
<1>b. cut \in [Requests -> Nat] /\ listed \in [Requests -> Nat] /\ cut' \in [Requests -> Nat]
    BY DataStep DEF TypeOK, MoneyTyped, ListTyped
<1>1. CASE /\ cut[r] = 0 /\ cut'[r] > 0 /\ cut' = [cut EXCEPT ![r] = cut'[r]]
           /\ listed' = listed /\ Status(r)' \in {"open", "failed"}
  <2>1. cut'[r] \in Nat \ {0}
    BY <1>b, <1>1
  <2>2. Promise!EndsOpenOrFailed(r)
    BY <1>a, <1>1 DEF Promise!EndsOpenOrFailed, StatusFn
  <2>3. UNCHANGED <<{p \in Requests : Kind(p) = "WheelBuy"}, listed>>
    BY <1>a, <1>1 DEF Purchases
  <2>4. [p \in Requests |-> Status(p)][r] = "open"
    BY <1>a DEF StatusFn
  <2>5. Promise!Take(r)
    BY <1>1, <2>1, <2>2, <2>3, <2>4 DEF Promise!Take
  <2> QED
    BY <2>5 DEF Promise!Next
<1>2. CASE /\ Kind(r) # "WheelBuy" /\ listed[r] = 0 /\ listed'[r] \in 1..cut[r]
           /\ listed' = [listed EXCEPT ![r] = listed'[r]]
           /\ cut' = cut /\ Status(r)' \in {"open", "failed"}
  <2>1. Promise!Pay(r)
    BY <1>a, <1>b, <1>2 DEF Promise!Pay, Promise!EndsOpenOrFailed, StatusFn, Purchases
  <2> QED
    BY <2>1 DEF Promise!Next
<1>3. CASE /\ cut[r] > 0 /\ (Kind(r) = "WheelBuy" \/ listed[r] > 0)
           /\ UNCHANGED <<cut, listed>> /\ Status(r)' = "confirmed"
  <2>1. Promise!Confirm(r)
    BY <1>a, <1>3 DEF Promise!Confirm, StatusFn, Purchases
  <2> QED
    BY <2>1 DEF Promise!Next
<1>4. CASE UNCHANGED <<cut, listed>> /\ Status(r)' \in {"open", "failed"}
  <2>1. Promise!Fail
    BY <1>a, <1>4 DEF Promise!Fail, StatusFn, Purchases
  <2> QED
    BY <2>1 DEF Promise!Next
<1> QED
    BY <1>1, <1>2, <1>3, <1>4, StepKinds

\* The surroundings leave the promise alone, or fail the requests in flight.
LEMMA EnvironmentRefines ==
    ASSUME TypeOK, MoneyInvariant, Environment \/ Rest \/ (\E r \in Requests : Expire(Key(r)))
    PROVE  Promise!Next
<1>1. req' = req /\ UNCHANGED <<cut, listed>>
    BY DEF Environment, Play, ChangeTurn, Midnight, Crash, Rest, Expire, vars, requestVars, moneyVars, listVars
<1>2. ASSUME NEW q \in Requests
      PROVE  Status(q)' = Status(q) \/ (Status(q) = "open" /\ Status(q)' = "failed")
  <2>1. CASE Crash
    <3>1. reply' = reply /\ (pc'[q] = pc[q] \/ (Active(q) /\ pc'[q] = "done"))
      BY <2>1 DEF Crash
    <3>2. Active(q) => pc[q] # "done" /\ reply[q] # "ok"
      BY DEF Active, Steps, MoneyInvariant, MoneyInv
    <3> QED
      BY <3>1, <3>2 DEF Status
  <2>2. CASE ~Crash
    <3>1. UNCHANGED <<pc, reply>>
      BY <2>2 DEF Environment, Play, ChangeTurn, Midnight, Rest, Expire, vars
    <3> QED
      BY <3>1 DEF Status
  <2> QED
    BY <2>1, <2>2
<1>3. Purchases' = Purchases
    BY <1>1 DEF Purchases, Kind
<1>4. Promise!Fail
    BY <1>1, <1>2, <1>3 DEF Promise!Fail, StatusFn, Purchases
<1> QED
    BY <1>4 DEF Promise!Next

\* The four handlers implement CreditPayout, for every schedule and failure.
THEOREM HandlersImplementPromise == Spec => ImplementsPromise
<1>1. Init => Promise!Init
    BY DEF Init, Promise!Init, Status
<1>2. TypeOK /\ MoneyInvariant /\ [Next]_vars => [Promise!Next]_(Promise!vars)
  <2> SUFFICES ASSUME TypeOK, MoneyInvariant, [Next]_vars PROVE [Promise!Next]_(Promise!vars)
    OBVIOUS
  <2>1. CASE UNCHANGED vars
    BY <2>1 DEF vars, requestVars, moneyVars, listVars, Promise!vars, Status, Kind
  <2>2. CASE Next
    BY <2>2, StepRefines, EnvironmentRefines DEF Next
  <2> QED
    BY <2>1, <2>2
<1> QED
    BY TypeCorrect, MoneyCorrect, <1>1, <1>2, PTL DEF Spec, Promise!Spec, ImplementsPromise

-------------------------------------------------------------------------------
(* Without faults what was taken is listed.                                *)

\* From the list entry on, the amount due is the amount listed.
DueListed(r) ==
    pc[r] \in {"save", "notify", "done"} /\ cut[r] > 0 /\ Kind(r) # "WheelBuy" => listed[r] = PayAmount(r)

\* A call keeps that of its own request.
LEMMA ListedStep ==
    ASSUME TypeOK, ~Faults, NEW r \in Requests, MoneyInv(r), DueListed(r), Step(r)
    PROVE  DueListed(r)'
<1>a. Amount(r) \in Nat /\ Kind(r) \in Kinds /\ CutAmount(r) \in Nat /\ PayAmount(r) \in Nat
    BY AmountsTyped DEF TypeOK
<1>b. Kind(r)' = Kind(r) /\ Amount(r)' = Amount(r)
    BY StepLocal DEF Kind, Amount
<1> USE <1>a, <1>b DEF TypeOK, ControlTyped, MoneyTyped, ListTyped, DueListed, Goto, Answer
<1>1. CASE pc[r] \in BeforeCut \ {"cut", "affcut"}
  <2>1. cut[r] = 0 /\ cut'[r] = 0
    BY <1>1 DEF MoneyInv, Step, Enter, Turn, Pay, Sync, BeforeCut, Labels, Steps,
       Arrive, Validate, GuardGet, GuardSet, Load, CheckLimits, ReadTurn, CreateTurn, InsertTurn, ReadBalance,
       CutCredit, CutAffiliate, PostList, RecordWheel, SaveMember, Notify, SyncTopup, SyncCut, SyncSave, moneyVars
  <2> QED
    BY <2>1
<1>2. CASE CutCredit(r)
  <2>1. cut[r] = 0
    BY <1>2 DEF CutCredit, MoneyInv, BeforeCut, Labels, Steps
  <2> QED
    BY <1>2, <2>1 DEF CutCredit
<1>3. CASE CutAffiliate(r)
  <2>1. cut[r] = 0
    BY <1>3 DEF CutAffiliate, MoneyInv, BeforeCut, Labels, Steps
  <2> QED
    BY <1>3, <2>1 DEF CutAffiliate
<1>4. CASE PostList(r)
    BY <1>4 DEF PostList, PayAmount, Capped, seenVars
<1>5. CASE RecordWheel(r)
    BY <1>5 DEF RecordWheel, MoneyInv
<1>6. CASE SaveMember(r)
    BY <1>6 DEF SaveMember, PayAmount, Capped, seenVars, moneyVars, listVars
<1>7. CASE Notify(r)
    BY <1>7 DEF Notify, PayAmount, Capped, seenVars, moneyVars, listVars
<1>8. pc[r] \in BeforeCut \ {"cut", "affcut"} \/ CutCredit(r) \/ CutAffiliate(r) \/ PostList(r)
      \/ RecordWheel(r) \/ SaveMember(r) \/ Notify(r)
    BY DEF Step, Enter, Turn, Pay, Sync, BeforeCut, Labels, Steps,
       Arrive, Validate, GuardGet, GuardSet, Load, CheckLimits, ReadTurn, CreateTurn, InsertTurn, ReadBalance,
       SyncTopup, SyncCut, SyncSave
<1> QED
    BY <1>1, <1>2, <1>3, <1>4, <1>5, <1>6, <1>7, <1>8

\* When no call fails and the process lives, whoever took credit for a withdrawal
\* lists the amount due before it ends, with any number of requests and any changes
\* of balance and turn beside it (member.turn.controller.ts:569-612).
THEOREM TakenAreListed == Spec => []TakenIsListed
<1> DEFINE Listed == ~Faults => \A r \in Requests : DueListed(r)
<1>1. Init => Listed
    BY DEF Init, DueListed
<1>2. TypeOK /\ MoneyInvariant /\ Listed /\ [Next]_vars => Listed'
  <2> SUFFICES ASSUME TypeOK, MoneyInvariant, Listed, [Next]_vars, ~Faults, NEW q \in Requests
               PROVE  DueListed(q)'
    OBVIOUS
  <2>1. DueListed(q)
    OBVIOUS
  <2>2. CASE LocalTo(q)' = LocalTo(q) /\ req' = req
    BY <2>1, <2>2 DEF LocalTo, DueListed, Kind, Amount, PayAmount, Capped
  <2>3. ASSUME NEW r \in Requests, Step(r) PROVE DueListed(q)'
    <3>1. CASE q = r
      BY <2>1, <2>3, <3>1, ListedStep DEF MoneyInvariant
    <3>2. CASE q # r
      BY <2>2, <2>3, <3>2, StepLocal
    <3> QED
      BY <3>1, <3>2
  <2>4. CASE UNCHANGED vars \/ Rest \/ Play \/ ChangeTurn \/ Midnight \/ \E r \in Requests : Expire(Key(r))
    BY <2>2, <2>4 DEF Play, ChangeTurn, Midnight, Rest, Expire, LocalTo, vars, requestVars, seenVars, moneyVars, listVars
  <2>5. ~Crash
    BY DEF Crash
  <2> QED
    BY <2>3, <2>4, <2>5 DEF Next, Environment
<1>3. Listed => TakenIsListed
    BY DEF DueListed, TakenIsListed
<1> QED
    BY TypeCorrect, MoneyCorrect, <1>1, <1>2, <1>3, PTL DEF Spec

-------------------------------------------------------------------------------
(* A synchronised member has a turn.                                       *)

\* The flag is saved only behind createTurnV2.
TurnBehindFlag == \A r \in Requests : pc[r] = "syncsave" => hasTurn

\* Calls keep it, and the turn row never goes away.
LEMMA FlagStep ==
    ASSUME TypeOK, TurnBehindFlag, NEW r \in Requests, Step(r)
    PROVE  /\ TurnBehindFlag' /\ (hasTurn => hasTurn')
           /\ syncCopies' # syncCopies => hasTurn'
<1>1. hasTurn => hasTurn'
  <2>1. hasTurn' = hasTurn \/ hasTurn' = TRUE
    BY DEF Step, Enter, Turn, Pay, Sync, Arrive, Validate, GuardGet, GuardSet, Load, CheckLimits, ReadTurn,
       CreateTurn, InsertTurn, ReadBalance, CutCredit, CutAffiliate, PostList, RecordWheel, SaveMember, Notify,
       SyncTopup, SyncCut, SyncSave, turnVars
  <2> QED
    BY <2>1, Zenon
<1>2. pc'[r] = "syncsave" => hasTurn'
  <2>1. SUFFICES ASSUME pc'[r] = "syncsave" PROVE hasTurn'
    OBVIOUS
  <2>2. CreateTurn(r) \/ InsertTurn(r)
    BY <2>1 DEF Step, Enter, Turn, Pay, Sync, Arrive, Validate, GuardGet, GuardSet, Load, AfterSetting, CheckLimits,
       ReadTurn, UseTurn, ReadBalance, CutCredit, CutAffiliate, PostList, RecordWheel, SaveMember, Notify,
       SyncTopup, SyncCut, SyncSave, Goto, Answer, TypeOK, ControlTyped
  <2>3. CASE CreateTurn(r)
    BY <1>1, <2>1, <2>3 DEF CreateTurn, Goto, TypeOK, ControlTyped
  <2>4. CASE InsertTurn(r)
    BY <2>1, <2>4 DEF InsertTurn, Answer, TypeOK, ControlTyped
  <2> QED
    BY <2>2, <2>3, <2>4
<1>3. \A q \in Requests \ {r} : pc'[q] = pc[q]
    BY StepLocal DEF LocalTo
<1>4. syncCopies' # syncCopies => pc[r] = "syncsave"
    BY DEF Step, Enter, Turn, Pay, Sync, Arrive, Validate, GuardGet, GuardSet, Load, CheckLimits, ReadTurn,
       CreateTurn, InsertTurn, ReadBalance, CutCredit, CutAffiliate, PostList, RecordWheel, SaveMember, Notify,
       SyncTopup, SyncCut, SyncSave
<1> QED
    BY <1>1, <1>2, <1>3, <1>4 DEF TurnBehindFlag

\* A member is marked synchronised only when its turn row exists, also when the
\* handlers of several requests synchronise it at the same time and some of them
\* fail (member.turn.controller.ts:215-218 relies on it).
THEOREM FlagNeedsTurn == Spec => SyncGivesTurn
<1>1. Init => TurnBehindFlag
    BY DEF Init, TurnBehindFlag
<1>2. TypeOK /\ TurnBehindFlag /\ [Next]_vars
        => TurnBehindFlag' /\ [TRUE \notin syncCopies /\ TRUE \in syncCopies' => hasTurn']_vars
  <2> SUFFICES ASSUME TypeOK, TurnBehindFlag, [Next]_vars
               PROVE  TurnBehindFlag' /\ (syncCopies' # syncCopies => hasTurn')
    OBVIOUS
  <2>1. ASSUME NEW r \in Requests, Step(r) PROVE TurnBehindFlag' /\ (syncCopies' # syncCopies => hasTurn')
    BY <2>1, FlagStep
  <2>2. CASE UNCHANGED vars \/ Rest \/ Environment \/ \E r \in Requests : Expire(Key(r))
    <3>1. syncCopies' = syncCopies /\ hasTurn' = hasTurn
      BY <2>2 DEF Environment, Play, ChangeTurn, Midnight, Crash, Rest, Expire, vars, turnVars
    <3>2. \A q \in Requests : pc'[q] = "syncsave" => pc[q] = "syncsave"
      BY <2>2 DEF Environment, Play, ChangeTurn, Midnight, Crash, Rest, Expire, vars, turnVars
    <3> QED
      BY <3>1, <3>2, Zenon DEF TurnBehindFlag
  <2> QED
    BY <2>1, <2>2 DEF Next
<1> QED
    BY TypeCorrect, <1>1, <1>2, PTL DEF Spec, SyncGivesTurn
===============================================================================
