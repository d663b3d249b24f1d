---------------------------- MODULE TurnRecordProofs ----------------------------
(***************************************************************************)
(* Proofs about TurnRecord, for any number of requests, any demands and    *)
(* any turnover: type correctness, and that a confirmed turn is kept,      *)
(* shown and met, however the requests after it overlap and whatever fails *)
(* or dies.  A PUT that overlaps is not kept: MCTurnRecordRace.            *)
(***************************************************************************)
EXTENDS TurnRecord, TLAPS

LEMMA NewTurnType == NewTurn \in Turn
  BY DEF NewTurn, Turn

\* A turn of which only min changes.
LEMMA MinType ==
    ASSUME NEW t \in Turn, NEW n \in Nat
    PROVE  /\ [t EXCEPT !.min = n] \in Turn
           /\ [t EXCEPT !.min = n].version = t.version
           /\ [t EXCEPT !.min = n].target = t.target /\ [t EXCEPT !.min = n].min = n
  BY DEF Turn

LEMMA RemainingType ==
    ASSUME NEW target \in Nat, NEW turnover \in Nat
    PROVE  Remaining(target, turnover) \in Nat /\ (Remaining(target, turnover) = 0 => turnover >= target)
  BY DEF Remaining

\* What PUT saves.
LEMMA MergedType ==
    ASSUME latest \in Nat, NEW t \in Turn, NEW input \in Inputs
    PROVE  Merged(t, input) \in Turn /\ Merged(t, input).version = latest + 1
<1>1. input.target \in Nat \cup {None} /\ input.min \in Nat \cup {None}
  BY InputsAssumption
<1> QED BY <1>1 DEF Merged, Turn

LEMMA LargerType ==
    ASSUME NEW m \in Nat, NEW n \in Nat
    PROVE  Larger(m, n) \in Nat /\ Larger(m, n) >= m /\ Larger(m, n) >= n
  BY DEF Larger

LEMMA ReportsType ==
    ASSUME TypeOK, NEW k PROVE Reports(k) \subseteq Nat
  BY NumbersAssumption DEF TypeOK, Reports

Replies == {"none", "ok", "recent", "empty", "error"}

\* What Goto and Answer leave.
LEMMA AnswerType ==
    ASSUME TypeOK, NEW r \in Requests,
           \/ \E label \in Labels : Goto(r, label)
           \/ \E what \in Replies : Answer(r, what)
    PROVE  pc' \in [Requests -> Labels] /\ reply' \in [Requests -> Replies]
  BY DEF TypeOK, Goto, Answer, Labels, Replies

\* What a handler does with a turn it has got.
LEMMA UseTurnType ==
    ASSUME TypeOK, NEW r \in Requests, kind[r] \in Kinds, NEW t \in Turn, UseTurn(r, t)
    PROVE  /\ pc' \in [Requests -> Labels] /\ reply' \in [Requests -> Replies]
           /\ copy' \in [Requests -> Turn]
<1>1. copy' \in [Requests -> Turn]
  BY MinType DEF UseTurn, TypeOK
<1>2. (\E label \in Labels : Goto(r, label)) \/ (\E what \in Replies : Answer(r, what))
  BY DEF UseTurn, Labels, Steps, Replies, Kinds
<1> QED BY <1>1, <1>2, AnswerType

LEMMA FoundType ==
    ASSUME TypeOK, NEW r \in Requests, kind[r] \in Kinds, NEW t \in Turn, Found(r, t)
    PROVE  /\ pc' \in [Requests -> Labels] /\ reply' \in [Requests -> Replies]
           /\ copy' \in [Requests -> Turn] /\ synced' \in BOOLEAN
           /\ creating' \in [Requests -> BOOLEAN] /\ unsynced' \in [Requests -> BOOLEAN]
<1>1. CASE UseTurn(r, t) /\ UNCHANGED <<synced, localVars>>
  BY <1>1, UseTurnType DEF localVars, TypeOK
<1>2. CASE /\ synced' = TRUE /\ UNCHANGED unsynced
           /\ creating' = [creating EXCEPT ![r] = FALSE]
           /\ Goto(r, "cache") /\ UNCHANGED copy
  <2>1. "cache" \in Labels
    BY DEF Labels, Steps
  <2> QED BY <1>2, <2>1, AnswerType DEF TypeOK
<1> QED BY <1>1, <1>2 DEF Found

\* A request under way has a handler.
Busy == \A r \in Requests : Active(r) => kind[r] \in Kinds

TypeInv == TypeOK /\ Busy

LEMMA TypeInit == Init => TypeInv
<1>1. Init => TypeOK
  BY NewTurnType, NumbersAssumption DEF Init, TypeOK, Labels
<1>2. Init => Busy
  BY DEF Init, Busy, Active, Steps
<1> QED BY <1>1, <1>2 DEF TypeInv

LEMMA BusyStep == TypeOK /\ Busy /\ [Next]_vars => Busy'
<1> SUFFICES ASSUME TypeOK, Busy, [Next]_vars PROVE Busy'
  OBVIOUS
<1>1. CASE \E r \in Requests : Arrive(r)
  <2>1. PICK r \in Requests, k \in Offered :
          kind' = [kind EXCEPT ![r] = k] /\ \A q \in Requests \ {r} : pc'[q] = pc[q]
    BY <1>1 DEF Arrive, Goto, Answer, TypeOK
  <2>2. kind'[r] \in Kinds /\ \A q \in Requests \ {r} : kind'[q] = kind[q]
    BY <2>1, KindsAssumption DEF TypeOK
  <2> QED BY <2>1, <2>2 DEF Busy, Active
<1>2. ASSUME NEW r \in Requests, kind' = kind, pc[r] \in Steps,
             \A q \in Requests \ {r} : pc'[q] = pc[q]
      PROVE  Busy'
  BY <1>2 DEF Busy, Active
<1>3. ASSUME NEW r \in Requests, (Lookup(r) /\ ~Arrive(r)) \/ View(r) \/ Check(r) \/ Update(r)
      PROVE  Busy'
  <2>1. pc[r] \in Steps
    BY <1>3 DEF Lookup, View, Check, Update, DropCache, ReadCache, ReadRow, FillCache, InsertTurn,
       SetCache, ReadWith, ReadAuto, SetWith, Gather, SetAuto, AskWinlose, ClearWith, ClearCache,
       SaveTurn, Write, DropWith, DropNew, SetNew, Steps
  <2>2. kind' = kind
    BY <1>3 DEF Lookup, View, Check, Update, DropCache, ReadCache, ReadRow, FillCache, InsertTurn,
       SetCache, ReadWith, ReadAuto, SetWith, Gather, SetAuto, AskWinlose, ClearWith, ClearCache,
       SaveTurn, Write, DropWith, DropNew, SetNew
  <2>3. \E l : pc' = [pc EXCEPT ![r] = l]
    <3>1. \A t : Found(r, t) => \E l : pc' = [pc EXCEPT ![r] = l]
      <4>1. \A t : UseTurn(r, t) => \E l : pc' = [pc EXCEPT ![r] = l]
        <5>1. kind[r] \in Kinds
          BY <2>1 DEF Busy, Active
        <5> QED BY <5>1 DEF UseTurn, Goto, Answer, Kinds
      <4> QED BY <4>1 DEF Found, Goto
    <3>2. CASE Lookup(r) /\ ~Arrive(r)
      BY <3>1, <3>2 DEF Lookup, DropCache, ReadCache, ReadRow, FillCache, InsertTurn, SetCache, Goto,
         Answer
    <3>3. CASE View(r) \/ Check(r)
      BY <3>3 DEF View, Check, ReadWith, ReadAuto, SetWith, Gather, SetAuto, AskWinlose, ClearWith,
         ClearCache, SaveTurn, Goto, Answer
    <3>4. CASE Update(r)
      BY <3>4 DEF Update, Write, DropWith, DropNew, SetNew, Goto, Answer
    <3> QED BY <1>3, <3>2, <3>3, <3>4
  <2>4. \A q \in Requests \ {r} : pc'[q] = pc[q]
    BY <2>3 DEF TypeOK
  <2> QED BY <1>2, <2>1, <2>2, <2>4
<1>4. CASE ExpireAuto \/ Bet \/ Deposit \/ Rest \/ UNCHANGED vars
  BY <1>4 DEF ExpireAuto, Bet, Deposit, Rest, vars, Busy, Active
<1>5. CASE Crash
  BY <1>5 DEF Crash, Busy, Active, Steps
<1> QED BY <1>1, <1>3, <1>4, <1>5 DEF Next, Lookup

LEMMA TypeStep == TypeInv /\ [Next]_vars => TypeInv'
<1> SUFFICES ASSUME TypeInv, [Next]_vars PROVE TypeOK'
  BY BusyStep DEF TypeInv
<1> USE DEF viewVars, localVars, putVars, historyVars, betVars
<1>t. TypeOK /\ Busy
  BY DEF TypeInv
<1>u. CASE ExpireAuto \/ Bet \/ Deposit \/ Rest \/ UNCHANGED vars
  BY <1>t, <1>u, NumbersAssumption DEF ExpireAuto, Bet, Deposit, Rest, vars, TypeOK, Larger
<1>c. CASE Crash
  BY <1>t, <1>c DEF Crash, TypeOK, Labels
<1>l. Steps \subseteq Labels /\ \A r \in Requests : pc[r] \in Steps => kind[r] \in Kinds
  BY <1>t DEF Busy, Active, Labels
<1>1. ASSUME NEW r \in Requests, Arrive(r) PROVE TypeOK'
  <2>1. PICK k \in Offered : kind' = [kind EXCEPT ![r] = k] /\ (Goto(r, FirstStep(k)) \/ Answer(r, "error"))
    BY <1>1 DEF Arrive
  <2>2. FirstStep(k) \in Labels /\ "error" \in Replies
    BY DEF FirstStep, Labels, Steps, Replies
  <2>3. pc' \in [Requests -> Labels] /\ reply' \in [Requests -> Replies]
    BY <1>t, <2>1, <2>2, AnswerType
  <2>4. kind' \in [Requests -> Kinds \cup {None}]
    BY <1>t, <2>1, KindsAssumption DEF TypeOK
  <2>5. creating' \in [Requests -> BOOLEAN] /\ unsynced' \in [Requests -> BOOLEAN]
    BY <1>t, <1>1 DEF Arrive, LoadMember, TypeOK
  <2>6. late' \subseteq Requests /\ overlapped' \subseteq Requests
    BY <1>t, <1>1 DEF Arrive, TypeOK
  <2> QED BY <1>t, <1>1, <2>3, <2>4, <2>5, <2>6 DEF Arrive, TypeOK, Replies
<1>2. ASSUME NEW r \in Requests, ReadWith(r) \/ ReadAuto(r) PROVE TypeOK'
  <2>1. pc' \in [Requests -> Labels] /\ reply' \in [Requests -> Replies]
    BY <1>t, <1>l, <1>2, AnswerType DEF ReadWith, ReadAuto, Steps, Replies
  <2>2. creating' \in [Requests -> BOOLEAN] /\ unsynced' \in [Requests -> BOOLEAN]
    BY <1>t, <1>2 DEF ReadWith, ReadAuto, LoadMember, TypeOK
  <2>3. copy' \in [Requests -> Turn]
    BY <1>t, <1>2 DEF ReadWith, ReadAuto, TypeOK
  <2> QED BY <1>t, <1>2, <2>1, <2>2, <2>3 DEF ReadWith, ReadAuto, TypeOK, Replies
<1>3. ASSUME NEW r \in Requests, DropCache(r) \/ Gather(r) \/ ClearWith(r) \/ ClearCache(r)
      PROVE  TypeOK'
  <2>1. pc' \in [Requests -> Labels] /\ reply' \in [Requests -> Replies]
    BY <1>t, <1>l, <1>3, AnswerType DEF DropCache, Gather, ClearWith, ClearCache, Steps, Replies
  <2> QED BY <1>t, <1>3, <2>1 DEF DropCache, Gather, ClearWith, ClearCache, TypeOK, Replies
<1>4. ASSUME NEW r \in Requests, ReadCache(r) PROVE TypeOK'
  <2>1. CASE cache # None
    <3>1. cache \in Turn /\ Found(r, cache) /\ kind[r] \in Kinds
      BY <1>t, <1>l, <1>4, <2>1 DEF ReadCache, TypeOK, Steps
    <3> QED BY <1>t, <1>4, <3>1, FoundType DEF ReadCache, TypeOK, Replies
  <2>2. CASE cache = None
    <3>1. pc' \in [Requests -> Labels] /\ reply' \in [Requests -> Replies]
      BY <1>t, <1>l, <1>4, <2>2, AnswerType DEF ReadCache, Steps
    <3> QED BY <1>t, <1>4, <2>2, <3>1 DEF ReadCache, TypeOK, Replies
  <2> QED BY <2>1, <2>2
<1>5. ASSUME NEW r \in Requests, ReadRow(r) PROVE TypeOK'
  <2>1. pc' \in [Requests -> Labels] /\ reply' \in [Requests -> Replies]
    BY <1>t, <1>l, <1>5, AnswerType DEF ReadRow, Steps, Replies
  <2>2. copy' \in [Requests -> Turn] /\ creating' \in [Requests -> BOOLEAN]
    BY <1>t, <1>5 DEF ReadRow, TypeOK
  <2> QED BY <1>t, <1>5, <2>1, <2>2 DEF ReadRow, TypeOK, Replies
<1>6. ASSUME NEW r \in Requests, FillCache(r) PROVE TypeOK'
  <2>1. copy[r] \in Turn /\ Found(r, copy[r]) /\ kind[r] \in Kinds
    BY <1>t, <1>l, <1>6 DEF FillCache, TypeOK, Steps
  <2> QED BY <1>t, <1>6, <2>1, FoundType DEF FillCache, TypeOK, Replies
<1>7. ASSUME NEW r \in Requests, InsertTurn(r) PROVE TypeOK'
  <2>1. CASE row = None /\ row' = NewTurn /\ Found(r, NewTurn)
    <3>1. NewTurn \in Turn /\ kind[r] \in Kinds
      BY <1>l, <1>7, NewTurnType DEF InsertTurn, Steps
    <3> QED BY <1>t, <1>7, <2>1, <3>1, FoundType DEF InsertTurn, TypeOK, Replies
  <2>2. CASE Answer(r, "error") /\ UNCHANGED <<row, copy, synced, localVars>>
    <3>1. pc' \in [Requests -> Labels] /\ reply' \in [Requests -> Replies]
      BY <1>t, <2>2, AnswerType DEF Replies
    <3> QED BY <1>t, <1>7, <2>2, <3>1 DEF InsertTurn, TypeOK, Replies
  <2> QED BY <1>7, <2>1, <2>2 DEF InsertTurn
<1>8. ASSUME NEW r \in Requests, SetCache(r) \/ SetWith(r) \/ SetAuto(r) PROVE TypeOK'
  <2>1. pc' \in [Requests -> Labels] /\ reply' \in [Requests -> Replies]
    BY <1>t, <1>8, AnswerType DEF SetCache, SetWith, SetAuto, Replies
  <2> QED BY <1>t, <1>8, <2>1 DEF SetCache, SetWith, SetAuto, TypeOK, Replies
<1>9. ASSUME NEW r \in Requests, AskWinlose(r) PROVE TypeOK'
  <2>1. pc' \in [Requests -> Labels] /\ reply' \in [Requests -> Replies]
    BY <1>t, <1>l, <1>9, AnswerType DEF AskWinlose, Steps, Replies
  <2>2. copy' \in [Requests -> Turn]
    <3>1. CASE UNCHANGED copy
      BY <1>t, <3>1 DEF TypeOK
    <3>2. ASSUME NEW n \in Reports(kind[r]),
                 copy' = [copy EXCEPT ![r].min = Remaining(copy[r].target, n)]
          PROVE  copy' \in [Requests -> Turn]
      <4>1. copy[r] \in Turn /\ copy \in [Requests -> Turn] /\ n \in Nat
        BY <1>t, <3>2, ReportsType DEF TypeOK
      <4>2. Remaining(copy[r].target, n) \in Nat
        BY <4>1, RemainingType DEF Turn
      <4>3. [copy[r] EXCEPT !.min = Remaining(copy[r].target, n)] \in Turn
        BY <4>1, <4>2, MinType
      <4>4. copy' = [copy EXCEPT ![r] = [copy[r] EXCEPT !.min = Remaining(copy[r].target, n)]]
        BY <3>2, <4>1
      <4> QED BY <4>1, <4>3, <4>4
    <3> QED BY <1>9, <3>1, <3>2 DEF AskWinlose
  <2>3. most' \in Nat
    <3>1. \A n \in Reports(kind[r]) : Larger(most, n) \in Nat
      BY <1>t, ReportsType, LargerType DEF TypeOK
    <3> QED BY <1>t, <1>9, <3>1 DEF AskWinlose, TypeOK
  <2> QED BY <1>t, <1>9, <2>1, <2>2, <2>3 DEF AskWinlose, TypeOK, Replies
<1>10. ASSUME NEW r \in Requests, SaveTurn(r) PROVE TypeOK'
  <2>1. pc' \in [Requests -> Labels] /\ reply' \in [Requests -> Replies]
    BY <1>t, <1>10, AnswerType DEF SaveTurn, Replies
  <2>2. row' \in Turn \cup {None} /\ waived' \in Nat
    BY <1>t, <1>10 DEF SaveTurn, TypeOK, Turn
  <2> QED BY <1>t, <1>10, <2>1, <2>2 DEF SaveTurn, TypeOK, Replies
<1>11. ASSUME NEW r \in Requests, Write(r) PROVE TypeOK'
  <2>1. pc' \in [Requests -> Labels] /\ reply' \in [Requests -> Replies]
    BY <1>t, <1>l, <1>11, AnswerType DEF Write, AfterWrite, Steps, Replies
  <2>2. /\ row' \in Turn \cup {None} /\ copy' \in [Requests -> Turn]
        /\ demand' \in Nat /\ waived' \in Nat
    <3>1. \A input \in Inputs : Merged(copy[r], input) \in Turn
      BY <1>t, MergedType DEF TypeOK
    <3>2. CASE UNCHANGED <<copy, demand, waived>>
      BY <1>t, <1>11, <3>2 DEF Write, TypeOK
    <3>3. ASSUME NEW new \in Turn, row' = new, copy' = [copy EXCEPT ![r] = new],
                 demand' = new.target, waived' = IF new.min = 0 THEN new.version ELSE waived
          PROVE  /\ row' \in Turn \cup {None} /\ copy' \in [Requests -> Turn]
                 /\ demand' \in Nat /\ waived' \in Nat
      BY <1>t, <3>3 DEF TypeOK, Turn
    <3> QED BY <1>11, <3>1, <3>2, <3>3 DEF Write
  <2>3. most' \in Nat /\ latest' \in Nat
    BY <1>t, <1>11 DEF Write, TypeOK
  <2>4. answered' \in BOOLEAN /\ late' \subseteq Requests
    <3>1. (answered' = answered /\ late' = late) \/ (answered' = FALSE /\ late' = {})
      BY <1>11 DEF Write
    <3> QED BY <1>t, <3>1 DEF TypeOK
  <2> QED BY <1>t, <1>11, <2>1, <2>2, <2>3, <2>4 DEF Write, TypeOK, Replies
<1>12. ASSUME NEW r \in Requests, DropWith(r) \/ DropNew(r) PROVE TypeOK'
  <2>1. pc' \in [Requests -> Labels] /\ reply' \in [Requests -> Replies]
    BY <1>t, <1>l, <1>12, AnswerType DEF DropWith, DropNew, Steps, Replies
  <2> QED BY <1>t, <1>12, <2>1 DEF DropWith, DropNew, TypeOK, Replies
<1>13. ASSUME NEW r \in Requests, SetNew(r) PROVE TypeOK'
  <2>1. pc' \in [Requests -> Labels] /\ reply' \in [Requests -> Replies]
    BY <1>t, <1>13, AnswerType DEF SetNew, Replies
  <2>2. confirmed' \in Nat /\ cache' \in Turn \cup {None}
    BY <1>t, <1>13 DEF SetNew, Answered, TypeOK, Turn
  <2>3. answered' \in BOOLEAN
    <3>1. answered' = answered \/ answered' = (answered \/ copy[r].version = latest)
      BY <1>13 DEF SetNew, Answered
    <3> QED BY <1>t, <3>1 DEF TypeOK
  <2> QED BY <1>t, <1>13, <2>1, <2>2, <2>3 DEF SetNew, TypeOK, Replies
<1> QED
  BY <1>u, <1>c, <1>1, <1>2, <1>3, <1>4, <1>5, <1>6, <1>7, <1>8, <1>9, <1>10, <1>11, <1>12, <1>13
     DEF Next, Lookup, View, Check, Update

\* Every variable keeps its type, however many requests run at once.
THEOREM TypeCorrect == Spec => []TypeOK
<1>1. TypeInv => TypeOK
  BY DEF TypeInv
<1> QED BY <1>1, TypeInit, TypeStep, PTL DEF Spec
-------------------------------------------------------------------------------
(* Overlapping requests.                                                   *)

\* The steps at which a handler holds a turn.
Held == {"fill", "setcache", "setwith", "gather", "setauto", "winlose", "clearwith", "clear",
         "save", "write", "dropwith", "dropnew", "setnew"}

\* A turn no older than the confirmed one; the last one has the demand of the last PUT.
Demands(t) ==
    /\ confirmed <= t.version /\ t.version <= latest
    /\ t.version = latest => t.target = demand

\* Once the last PUT is confirmed, nothing is left of its demand only if it is met.
Settled(t) == confirmed = latest /\ t.min = 0 => DemandMet

\* What a handler holds, by its step.
Holds(r) ==
    /\ pc[r] \in Held =>
         Demands(copy[r]) /\ (kind[r] # "SetMin" \/ pc[r] = "fill" => Settled(copy[r]))
    /\ pc[r] = "winlose" => kind[r] \in {"WdCheck", "Sync"}
    /\ pc[r] \in {"clearwith", "clear", "save"} => kind[r] \in {"WdCheck", "SetMin"}
    /\ pc[r] \in {"write", "dropwith", "dropnew", "setnew"} => kind[r] \in {"Sync", "Put"}
    /\ pc[r] = "setcache" => kind[r] = "GetTurn"
    /\ pc[r] \in {"with", "setwith"} => kind[r] = "WithTurn"
    /\ pc[r] \in {"auto", "gather", "setauto"} => kind[r] = "Auto"
    /\ pc[r] = "drop" => kind[r] = "SetMin"

\* A PUT that runs alone has the last turn, which is in the row, and leaves no other.
PutHolds(r) ==
    pc[r] \in {"dropwith", "dropnew", "setnew"} /\ kind[r] = "Put" /\ r \notin overlapped =>
      /\ copy[r].version = latest /\ row = copy[r] /\ (copy[r].min = 0 => waived = latest)
      /\ pc[r] \in {"dropnew", "setnew"} => with = None

\* Two requests in flight know of each other.
Apart ==
    /\ \A q, r \in Requests : Active(q) /\ Active(r) /\ q # r => q \in overlapped
    /\ \A r \in Requests : Active(r) => kind[r] \in Kinds

Stored ==
    /\ confirmed <= latest
    /\ row = None => latest = 0 /\ confirmed = 0 /\ demand = 0
    /\ row # None => Demands(row) /\ Settled(row)
    /\ cache # None => Demands(cache) /\ Settled(cache)
    /\ with # None => confirmed <= with.version

RecordInv == TypeOK /\ Apart /\ Stored /\ \A r \in Requests : Holds(r) /\ PutHolds(r)

\* What a step says to its caller.
PassOf(r) == Passes(r) /\ confirmed = latest => DemandMet
ShownOf(r) ==
    /\ kind[r] \in {"GetTurn", "WithTurn", "Auto"} /\ reply[r] = "none" /\ reply'[r] = "ok"
    => copy'[r].version >= confirmed

RecordStep == /\ Apart' /\ Stored' /\ \A r \in Requests : Holds(r)' /\ PutHolds(r)'
              /\ \A r \in Requests : PassOf(r) /\ ShownOf(r)

LEMMA RecordInit == Init => RecordInv
<1> SUFFICES ASSUME Init PROVE RecordInv
  OBVIOUS
<1>1. \A r \in Requests : pc[r] = "idle" /\ ~Active(r)
  BY DEF Init, Active, Steps
<1>2. TypeOK
  BY TypeInit DEF TypeInv
<1>3. Stored
  BY DEF Init, Stored, Demands, Settled, DemandMet, NewTurn
<1>4. Apart /\ \A r \in Requests : Holds(r) /\ PutHolds(r)
  BY <1>1 DEF Apart, Holds, PutHolds, Held
<1> QED BY <1>2, <1>3, <1>4 DEF RecordInv

\* A step that confirms nothing, waives at most the last demand, and at most replaces
\* it by a new one.
Carried ==
    /\ confirmed' = confirmed
    /\ \/ /\ latest' = latest /\ demand' = demand
          /\ most' = most \/ (most' \in Nat /\ most' > most)
          /\ confirmed = latest => waived' \in {waived, latest}
       \/ latest' = latest + 1

\* Such a step leaves every turn as good as it was.
LEMMA CarriedTurn ==
    ASSUME RecordInv, Carried, NEW t \in Turn
    PROVE  (Demands(t) => Demands(t)') /\ (Settled(t) => Settled(t)')
<1>1. /\ confirmed \in Nat /\ latest \in Nat /\ demand \in Nat /\ most \in Nat /\ confirmed <= latest
      /\ t.version \in Nat
  BY NumbersAssumption DEF RecordInv, TypeOK, Stored, Turn
<1>2. CASE /\ latest' = latest /\ demand' = demand
           /\ most' = most \/ (most' \in Nat /\ most' > most)
           /\ confirmed = latest => waived' \in {waived, latest}
  <2>1. Demands(t) => Demands(t)'
    BY <1>2 DEF Carried, Demands
  <2>2. confirmed = latest /\ DemandMet => DemandMet'
    BY <1>1, <1>2 DEF DemandMet
  <2> QED BY <1>2, <2>1, <2>2 DEF Carried, Settled
<1>3. CASE latest' = latest + 1
  <2>1. Demands(t) => Demands(t)'
    BY <1>1, <1>3 DEF Carried, Demands
  <2>2. confirmed' # latest'
    BY <1>1, <1>3 DEF Carried
  <2> QED BY <2>1, <2>2 DEF Settled
<1> QED BY <1>2, <1>3 DEF Carried

\* What a step of one request leaves to the others.
LEMMA Frame ==
    ASSUME RecordInv, NEW r \in Requests, pc[r] \in Steps, NEW l, NEW w, NEW c,
           pc' = [pc EXCEPT ![r] = l], reply' = reply \/ reply' = [reply EXCEPT ![r] = w],
           copy' = copy \/ copy' = [copy EXCEPT ![r] = c],
           kind' = kind, overlapped' = overlapped, Carried \/ r \notin overlapped,
           Stored', Holds(r)', PutHolds(r)', PassOf(r), ShownOf(r)
    PROVE  RecordStep
<1>1. /\ pc'[r] = l
      /\ \A q \in Requests \ {r} : /\ pc'[q] = pc[q] /\ reply'[q] = reply[q]
                                   /\ copy'[q] = copy[q] /\ copy[q] \in Turn
  BY DEF RecordInv, TypeOK
<1>2. \A q \in Requests \ {r} : pc[q] \in Steps => q \in overlapped /\ r \in overlapped
  BY DEF RecordInv, Apart, Active
<1>3. Apart'
  BY <1>1 DEF RecordInv, Apart, Active
<1>4. ASSUME NEW q \in Requests \ {r} PROVE Holds(q)' /\ PutHolds(q)'
  <2>1. CASE pc[q] \notin Steps
    BY <1>1, <2>1 DEF Holds, PutHolds, Held, Steps
  <2>2. CASE pc[q] \in Steps
    <3>1. q \in overlapped /\ Carried
      BY <1>2, <2>2
    <3>2. (Demands(copy[q]) => Demands(copy[q])') /\ (Settled(copy[q]) => Settled(copy[q])')
      <4>1. copy[q] \in Turn /\ copy'[q] = copy[q]
        BY <1>1
      <4> DEFINE t == copy[q]
      <4>2. (Demands(t) => Demands(copy[q])') /\ (Settled(t) => Settled(copy[q])')
        BY <3>1, <4>1, CarriedTurn DEF Demands, Settled
      <4> QED BY <4>2
    <3>3. Holds(q)
      BY DEF RecordInv
    <3> QED BY <1>1, <3>1, <3>2, <3>3 DEF Holds, PutHolds
  <2> QED BY <2>1, <2>2
<1>5. \A q \in Requests \ {r} : PassOf(q) /\ ShownOf(q)
  BY <1>1 DEF PassOf, Passes, ShownOf
<1> QED BY <1>3, <1>4, <1>5 DEF RecordStep

\* What is known of a request under way.
LEMMA Known ==
    ASSUME RecordInv, NEW r \in Requests, pc[r] \in Steps
    PROVE  /\ Holds(r) /\ PutHolds(r) /\ Stored /\ kind[r] \in Kinds
           /\ TypeOK /\ copy[r] \in Turn /\ most \in Nat
           /\ {latest, confirmed, demand, waived} \subseteq Nat
           /\ \A l : pc' = [pc EXCEPT ![r] = l] => pc'[r] = l
           /\ \A w : reply' = [reply EXCEPT ![r] = w] => reply'[r] = w
           /\ \A t : copy' = [copy EXCEPT ![r] = t] => copy'[r] = t
  BY NumbersAssumption DEF RecordInv, Apart, Active, TypeOK

\* The places where a turn is kept, untouched.
LEMMA StoredStays ==
    ASSUME Stored, UNCHANGED <<row, cache, with, most, latest, confirmed, demand, waived>>
    PROVE  Stored'
  BY DEF Stored, Demands, Settled, DemandMet

\* A handler that has got a turn which is no older than the confirmed one.
LEMMA UseTurnHolds ==
    ASSUME RecordInv, NEW r \in Requests, pc[r] \in {"cache", "fill", "insert"},
           NEW t \in Turn, Demands(t), Settled(t), UseTurn(r, t),
           UNCHANGED <<kind, latest, confirmed, demand, waived, most, overlapped>>
    PROVE  /\ Holds(r)' /\ PutHolds(r)' /\ PassOf(r) /\ ShownOf(r)
           /\ \E l, w, c : /\ pc' = [pc EXCEPT ![r] = l]
                           /\ reply' = reply \/ reply' = [reply EXCEPT ![r] = w]
                           /\ copy' = [copy EXCEPT ![r] = c]
<1>1. pc[r] \in Steps
  BY DEF Steps
<1> DEFINE u == IF kind[r] = "SetMin" THEN [t EXCEPT !.min = 0] ELSE t
<1>2. copy' = [copy EXCEPT ![r] = u] /\ copy'[r] = u
  BY <1>1, Known DEF UseTurn
<1>3. u.version = t.version /\ u.target = t.target /\ (kind[r] # "SetMin" => u = t)
  BY MinType
<1> HIDE DEF u
<1>4. Demands(copy[r])' /\ (kind[r] # "SetMin" => Settled(copy[r])')
  <2>1. Demands(copy[r])'
    BY <1>2, <1>3 DEF Demands
  <2>2. kind[r] # "SetMin" => Settled(copy[r])'
    BY <1>2, <1>3 DEF Settled, DemandMet
  <2> QED BY <2>1, <2>2
<1>5. PICK l \in {"setcache", "setwith", "gather", "winlose", "clearwith", "write", "done"}, w \in Replies :
        /\ pc' = [pc EXCEPT ![r] = l]
        /\ reply' = reply \/ (l = "done" /\ reply' = [reply EXCEPT ![r] = w])
        /\ l = "setcache" => kind[r] = "GetTurn"
        /\ l = "setwith" => kind[r] = "WithTurn"
        /\ l = "gather" => kind[r] = "Auto"
        /\ l = "winlose" => kind[r] \in {"WdCheck", "Sync"}
        /\ l = "clearwith" => kind[r] = "SetMin"
        /\ l = "write" => kind[r] = "Put"
        /\ l = "done" /\ kind[r] = "WdCheck" => t.min = 0
  <2>1. kind[r] \in Kinds
    BY <1>1, Known
  <2>2. CASE kind[r] \in {"GetTurn", "WithTurn"}
    BY <2>2 DEF UseTurn, Goto, Answer, Replies
  <2>3. CASE kind[r] = "WdCheck"
    BY <2>3 DEF UseTurn, Goto, Answer, Replies
  <2>4. CASE kind[r] \in {"Auto", "Sync", "SetMin", "Put"}
    BY <2>4 DEF UseTurn, Goto, Replies
  <2> QED BY <2>1, <2>2, <2>3, <2>4 DEF Kinds
<1>6. pc'[r] = l /\ (kind[r] = "WdCheck" /\ l = "done" => t.min = 0)
  BY <1>1, <1>5, Known
<1>7. Holds(r)' /\ PutHolds(r)'
  BY <1>2, <1>4, <1>5, <1>6 DEF Holds, Held, PutHolds
<1>8. PassOf(r)
  <2>1. Passes(r) => l = "done" /\ kind[r] = "WdCheck"
    BY <1>5 DEF Passes
  <2> QED BY <1>6, <2>1 DEF PassOf, Settled
<1>9. ShownOf(r)
  BY <1>2, <1>3, <1>1, Known DEF ShownOf, Demands, Turn
<1> QED BY <1>2, <1>5, <1>7, <1>8, <1>9

LEMMA FoundHolds ==
    ASSUME RecordInv, NEW r \in Requests, pc[r] \in {"cache", "fill", "insert"},
           NEW t \in Turn, Demands(t), Settled(t), Found(r, t), Stored',
           UNCHANGED <<kind, latest, confirmed, demand, waived, most, overlapped>>
    PROVE  RecordStep
<1>1. pc[r] \in Steps /\ Carried
  BY DEF Steps, Carried
<1>2. CASE UseTurn(r, t)
  <2>1. PICK l, w, c : /\ pc' = [pc EXCEPT ![r] = l]
                       /\ reply' = reply \/ reply' = [reply EXCEPT ![r] = w]
                       /\ copy' = [copy EXCEPT ![r] = c]
    BY <1>2, UseTurnHolds
  <2> QED BY <1>1, <1>2, <2>1, UseTurnHolds, Frame
<1>3. CASE Goto(r, "cache") /\ UNCHANGED copy
  <2>1. pc' = [pc EXCEPT ![r] = "cache"] /\ reply' = reply /\ pc'[r] = "cache"
    BY <1>1, <1>3, Known DEF Goto
  <2>2. Holds(r)' /\ PutHolds(r)' /\ PassOf(r) /\ ShownOf(r)
    BY <2>1 DEF Holds, Held, PutHolds, PassOf, Passes, ShownOf
  <2> QED BY <1>1, <1>3, <2>1, <2>2, Frame
<1> QED BY <1>2, <1>3 DEF Found

\* A request that finds another in flight makes both overlapped.
LEMMA ArriveKeeps ==
    ASSUME RecordInv, NEW r \in Requests, Arrive(r)
    PROVE  RecordStep
<1>1. PICK k \in Offered :
        kind' = [kind EXCEPT ![r] = k] /\ (Goto(r, FirstStep(k)) \/ Answer(r, "error"))
  BY DEF Arrive
<1>2. PICK l \in {FirstStep(k), "done"} :
        /\ pc' = [pc EXCEPT ![r] = l]
        /\ reply' = reply \/ reply' = [reply EXCEPT ![r] = "error"]
  BY <1>1 DEF Goto, Answer
<1>3. /\ pc'[r] = l /\ kind'[r] = k /\ k \in Kinds /\ reply'[r] \in {reply[r], "error"}
      /\ \A q \in Requests \ {r} : /\ pc'[q] = pc[q] /\ reply'[q] = reply[q]
                                   /\ kind'[q] = kind[q]
  BY <1>1, <1>2, KindsAssumption DEF Arrive, RecordInv, TypeOK
<1>4. /\ overlapped \subseteq overlapped'
      /\ \A q \in Requests \ {r} : pc[q] \in Steps => {q, r} \subseteq overlapped'
  BY DEF Arrive, Active
<1>5. UNCHANGED <<copy, row, cache, with, most, latest, confirmed, demand, waived>>
  BY DEF Arrive, viewVars, putVars, betVars
<1>6. Apart'
  BY <1>3, <1>4 DEF RecordInv, Apart, Active
<1>7. Stored'
  BY <1>5, StoredStays DEF RecordInv
<1>8. Holds(r)' /\ PutHolds(r)'
  BY <1>3 DEF Holds, Held, PutHolds, FirstStep
<1>9. ASSUME NEW q \in Requests \ {r} PROVE Holds(q)' /\ PutHolds(q)'
  <2>1. Holds(q) /\ PutHolds(q)
    BY DEF RecordInv
  <2>2. Holds(q)'
    BY <1>3, <1>5, <2>1 DEF Holds, Demands, Settled, DemandMet
  <2> QED BY <1>3, <1>4, <1>5, <2>1, <2>2 DEF PutHolds
<1>10. \A q \in Requests : PassOf(q) /\ ShownOf(q)
  BY <1>3 DEF PassOf, Passes, ShownOf
<1> QED BY <1>6, <1>7, <1>8, <1>9, <1>10 DEF RecordStep

\* Steps that change nothing but what a handler holds and says.
LEMMA Quiet ==
    ASSUME RecordInv, UNCHANGED <<row, cache, with, most, latest, confirmed, demand, waived>>
    PROVE  Stored' /\ Carried
  BY StoredStays DEF RecordInv, Carried

\* A handler that is answered without a turn.
LEMMA RefusalKeeps ==
    ASSUME RecordInv, NEW r \in Requests, pc[r] \in Steps, NEW w \in {"error", "empty"}, Answer(r, w),
           UNCHANGED <<kind, copy, row, cache, with, most, latest, confirmed, demand, waived, overlapped>>
    PROVE  RecordStep
<1>1. /\ pc' = [pc EXCEPT ![r] = "done"] /\ reply' = [reply EXCEPT ![r] = w]
      /\ pc'[r] = "done" /\ reply'[r] = w
  BY Known DEF Answer
<1>2. Holds(r)' /\ PutHolds(r)' /\ PassOf(r) /\ ShownOf(r)
  BY <1>1 DEF Holds, Held, PutHolds, PassOf, Passes, ShownOf
<1> QED BY <1>1, <1>2, Quiet, Frame

LEMMA ReadWithKeeps ==
    ASSUME RecordInv, NEW r \in Requests, ReadWith(r) \/ ReadAuto(r)
    PROVE  RecordStep
<1>1. /\ pc[r] \in Steps
      /\ UNCHANGED <<kind, row, cache, with, most, latest, confirmed, demand, waived, overlapped>>
  BY DEF ReadWith, ReadAuto, Steps, viewVars, putVars, historyVars, betVars, betVars
<1>2. PICK l \in {"cache", "done"}, w \in {"ok", "recent", "error"}, c \in {with, auto} :
        /\ pc' = [pc EXCEPT ![r] = l]
        /\ reply' = reply \/ reply' = [reply EXCEPT ![r] = w]
        /\ copy' = copy \/ copy' = [copy EXCEPT ![r] = c]
        /\ w = "ok" => with # None /\ copy' = [copy EXCEPT ![r] = with] /\ kind[r] = "WithTurn"
  <2>1. pc[r] = "with" => kind[r] = "WithTurn"
    BY <1>1, Known DEF Holds
  <2>2. CASE ReadWith(r)
    BY <2>1, <2>2 DEF ReadWith, Goto, Answer
  <2>3. CASE ReadAuto(r)
    BY <2>3 DEF ReadAuto, Goto, Answer
  <2> QED BY <2>2, <2>3
<1>3. pc'[r] = l /\ reply'[r] \in {reply[r], w}
  BY <1>1, <1>2, Known
<1>4. Holds(r)' /\ PutHolds(r)'
  BY <1>3 DEF Holds, Held, PutHolds
<1>5. PassOf(r) /\ ShownOf(r)
  <2>1. reply[r] = "none" /\ reply'[r] = "ok" => w = "ok"
    BY <1>3
  <2>2. w = "ok" => copy'[r].version >= confirmed
    <3>1. SUFFICES ASSUME w = "ok" PROVE copy'[r].version >= confirmed
      OBVIOUS
    <3>2. copy'[r] = with /\ confirmed <= with.version
      BY <1>1, <1>2, <3>1, Known DEF Stored
    <3>3. with.version \in Nat /\ confirmed \in Nat
      BY <1>1, <1>2, <3>1, Known DEF TypeOK, Turn
    <3> QED BY <3>2, <3>3
  <2> QED BY <1>2, <2>1, <2>2 DEF PassOf, Passes, ShownOf
<1> QED BY <1>1, <1>2, <1>4, <1>5, Quiet, Frame

LEMMA ReadCacheKeeps ==
    ASSUME RecordInv, NEW r \in Requests, ReadCache(r)
    PROVE  RecordStep
<1>1. /\ pc[r] \in Steps /\ pc[r] = "cache"
      /\ UNCHANGED <<kind, row, cache, with, most, latest, confirmed, demand, waived, overlapped>>
  BY DEF ReadCache, Steps, viewVars, putVars, historyVars, betVars, betVars
<1>2. CASE cache # None
  <2>1. cache \in Turn /\ Demands(cache) /\ Settled(cache) /\ Found(r, cache)
    BY <1>2 DEF ReadCache, RecordInv, Stored, TypeOK
  <2> QED BY <1>1, <2>1, Quiet, FoundHolds
<1>3. CASE cache = None
  <2>1. pc' = [pc EXCEPT ![r] = "row"] /\ reply' = reply /\ copy' = copy /\ pc'[r] = "row"
    BY <1>1, <1>3, Known DEF ReadCache, Goto
  <2>2. Holds(r)' /\ PutHolds(r)' /\ PassOf(r) /\ ShownOf(r)
    BY <2>1 DEF Holds, Held, PutHolds, PassOf, Passes, ShownOf
  <2> QED BY <1>1, <2>1, <2>2, Quiet, Frame
<1> QED BY <1>2, <1>3

LEMMA ReadRowKeeps ==
    ASSUME RecordInv, NEW r \in Requests, ReadRow(r)
    PROVE  RecordStep
<1>1. /\ pc[r] \in Steps
      /\ UNCHANGED <<kind, row, cache, with, most, latest, confirmed, demand, waived, overlapped>>
  BY DEF ReadRow, Steps, viewVars, putVars, historyVars, betVars, betVars
<1>2. PICK l \in {"fill", "insert", "cache", "done"} :
        /\ pc' = [pc EXCEPT ![r] = l]
        /\ reply' = reply \/ reply' = [reply EXCEPT ![r] = "error"]
        /\ copy' = copy \/ copy' = [copy EXCEPT ![r] = row]
        /\ l = "fill" => row # None /\ copy' = [copy EXCEPT ![r] = row]
  BY DEF ReadRow, Goto, Answer
<1>3. pc'[r] = l /\ reply'[r] \in {reply[r], "error"}
  BY <1>1, <1>2, Known
<1>4. Holds(r)'
  <2>1. CASE l = "fill"
    <3>1. copy'[r] = row /\ Demands(row) /\ Settled(row)
      BY <1>1, <1>2, <2>1, Known DEF Stored
    <3>2. Demands(copy[r])'
      BY <1>1, <3>1 DEF Demands
    <3>3. Settled(copy[r])'
      BY <1>1, <3>1 DEF Settled, DemandMet
    <3> QED BY <1>3, <2>1, <3>2, <3>3 DEF Holds, Held
  <2>2. CASE l # "fill"
    BY <1>2, <1>3, <2>2 DEF Holds, Held
  <2> QED BY <2>1, <2>2
<1>5. PutHolds(r)' /\ PassOf(r) /\ ShownOf(r)
  BY <1>3 DEF PutHolds, PassOf, Passes, ShownOf
<1> QED BY <1>1, <1>2, <1>4, <1>5, Quiet, Frame

LEMMA FillCacheKeeps ==
    ASSUME RecordInv, NEW r \in Requests, FillCache(r)
    PROVE  RecordStep
<1>1. /\ pc[r] \in Steps /\ pc[r] = "fill" /\ cache' = copy[r] /\ Found(r, copy[r])
      /\ UNCHANGED <<kind, row, with, most, latest, confirmed, demand, waived, overlapped>>
  BY DEF FillCache, Steps, viewVars, putVars, historyVars, betVars, betVars
<1>2. copy[r] \in Turn /\ Demands(copy[r]) /\ Settled(copy[r])
  BY <1>1, Known DEF Holds, Held
<1>3. Stored'
  <2>1. Demands(cache)' /\ Settled(cache)'
    BY <1>1, <1>2 DEF Demands, Settled, DemandMet
  <2> QED BY <1>1, <2>1 DEF RecordInv, Stored, Demands, Settled, DemandMet
<1> QED BY <1>1, <1>2, <1>3, FoundHolds

LEMMA InsertTurnKeeps ==
    ASSUME RecordInv, NEW r \in Requests, InsertTurn(r)
    PROVE  RecordStep
<1>1. /\ pc[r] \in Steps /\ pc[r] = "insert"
      /\ UNCHANGED <<kind, cache, with, most, latest, confirmed, demand, waived, overlapped>>
  BY DEF InsertTurn, Steps, viewVars, putVars, historyVars, betVars, betVars
<1>2. CASE row = None /\ row' = NewTurn /\ Found(r, NewTurn)
  <2>1. latest = 0 /\ confirmed = 0 /\ demand = 0 /\ most \in Nat
    BY <1>1, <1>2, Known DEF Stored
  <2>2. Demands(NewTurn) /\ Settled(NewTurn)
    BY <2>1 DEF Demands, Settled, DemandMet, NewTurn
  <2>3. Demands(row)' /\ Settled(row)'
    BY <1>1, <1>2, <2>2 DEF Demands, Settled, DemandMet
  <2>4. Stored'
    <3>1. row' # None
      BY <1>2, NewTurnType, NoneAssumption
    <3>2. Demands(cache)' = Demands(cache) /\ Settled(cache)' = Settled(cache)
      BY <1>1 DEF Demands, Settled, DemandMet
    <3> QED BY <1>1, <2>3, <3>1, <3>2 DEF RecordInv, Stored
  <2> QED BY <1>1, <1>2, <2>2, <2>4, NewTurnType, FoundHolds
<1>3. CASE Answer(r, "error") /\ UNCHANGED <<row, copy>>
  BY <1>1, <1>3, RefusalKeeps
<1> QED BY <1>2, <1>3 DEF InsertTurn

\* SetCache, SetWith and SetAuto show what the handler holds.
LEMMA ShowKeeps ==
    ASSUME RecordInv, NEW r \in Requests, SetCache(r) \/ SetWith(r) \/ SetAuto(r)
    PROVE  RecordStep
<1>1. /\ pc[r] \in Steps /\ pc[r] \in Held /\ pc[r] \in {"setcache", "setwith", "setauto"}
      /\ UNCHANGED <<kind, copy, row, most, latest, confirmed, demand, waived, overlapped>>
      /\ pc' = [pc EXCEPT ![r] = "done"] /\ reply' = [reply EXCEPT ![r] = "ok"]
      /\ cache' = cache \/ (cache' = copy[r] /\ pc[r] = "setcache")
      /\ with' = with \/ with' = copy[r]
  BY DEF SetCache, SetWith, SetAuto, Steps, Held, viewVars, putVars, historyVars, betVars, Answer
<1>2. /\ Demands(copy[r]) /\ (kind[r] # "SetMin" => Settled(copy[r]))
      /\ kind[r] \in {"GetTurn", "WithTurn", "Auto"}
      /\ copy[r].version \in Nat /\ confirmed \in Nat
  BY <1>1, Known DEF Holds, Turn
<1>3. pc'[r] = "done"
  BY <1>1, Known
<1>4. Holds(r)' /\ PutHolds(r)' /\ Carried
  BY <1>1, <1>3 DEF Holds, Held, PutHolds, Carried
<1>5. PassOf(r) /\ ShownOf(r)
  BY <1>1, <1>2 DEF PassOf, Passes, ShownOf, Demands
<1>6. Stored'
  <2>1. cache' # None => Demands(cache)' /\ Settled(cache)'
    BY <1>1, <1>2 DEF RecordInv, Stored, Demands, Settled, DemandMet
  <2>2. with' # None => confirmed <= with'.version
    BY <1>1, <1>2 DEF RecordInv, Stored, Demands
  <2>3. Demands(row)' = Demands(row) /\ Settled(row)' = Settled(row)
    BY <1>1 DEF Demands, Settled, DemandMet
  <2> QED BY <1>1, <2>1, <2>2, <2>3 DEF RecordInv, Stored
<1> QED BY <1>1, <1>4, <1>5, <1>6, Frame

\* The copies that are left when some were dropped.
LEMMA DroppedStays ==
    ASSUME RecordInv, cache' \in {cache, None}, with' \in {with, None},
           UNCHANGED <<row, most, latest, confirmed, demand, waived>>
    PROVE  Stored' /\ Carried
<1>1. Demands(row)' = Demands(row) /\ Settled(row)' = Settled(row)
  BY DEF Demands, Settled, DemandMet
<1>2. cache' # None => Demands(cache)' = Demands(cache) /\ Settled(cache)' = Settled(cache)
  BY DEF Demands, Settled, DemandMet
<1> QED BY <1>1, <1>2 DEF RecordInv, Stored, Carried

\* The steps that only move on, or drop a copy.
LEMMA MoveKeeps ==
    ASSUME RecordInv, NEW r \in Requests,
           DropCache(r) \/ Gather(r) \/ ClearWith(r) \/ ClearCache(r)
    PROVE  RecordStep
<1>1. /\ pc[r] \in Steps /\ pc[r] \in {"drop", "gather", "clearwith", "clear"}
      /\ UNCHANGED <<kind, copy, row, most, latest, confirmed, demand, waived, overlapped>>
      /\ cache' \in {cache, None} /\ with' \in {with, None}
  BY DEF DropCache, Gather, ClearWith, ClearCache, Steps, viewVars, putVars, historyVars, betVars, betVars
<1>2. PICK l \in {"cache", "setauto", "clear", "save", "done"} :
        /\ pc' = [pc EXCEPT ![r] = l]
        /\ reply' = reply \/ reply' = [reply EXCEPT ![r] = "error"]
        /\ l = "setauto" => pc[r] = "gather"
        /\ l \in {"clear", "save"} => pc[r] \in {"clearwith", "clear"}
  BY DEF DropCache, Gather, ClearWith, ClearCache, Goto, Answer
<1>3. pc'[r] = l /\ reply'[r] \in {reply[r], "error"}
  BY <1>1, <1>2, Known
<1>4. Holds(r)'
  <2>1. Holds(r) /\ copy'[r] = copy[r] /\ kind'[r] = kind[r]
    BY <1>1, Known
  <2>2. l \in Held => Demands(copy[r])' /\ (kind[r] # "SetMin" => Settled(copy[r])')
    BY <1>1, <1>2, <2>1 DEF Holds, Held, Demands, Settled, DemandMet
  <2> QED BY <1>1, <1>2, <1>3, <2>1, <2>2 DEF Holds, Held
<1>5. PutHolds(r)' /\ PassOf(r) /\ ShownOf(r)
  BY <1>3 DEF PutHolds, PassOf, Passes, ShownOf
<1> QED BY <1>1, <1>2, <1>4, <1>5, DroppedStays, Frame

LEMMA AskWinloseKeeps ==
    ASSUME RecordInv, NEW r \in Requests, AskWinlose(r)
    PROVE  RecordStep
<1>1. /\ pc[r] \in Steps /\ pc[r] = "winlose"
      /\ UNCHANGED <<kind, row, cache, with, latest, confirmed, demand, waived, overlapped>>
  BY DEF AskWinlose, Steps, viewVars, putVars, historyVars, betVars, betVars
<1>2. /\ Demands(copy[r]) /\ kind[r] \in {"WdCheck", "Sync"} /\ copy[r] \in Turn /\ most \in Nat
      /\ copy \in [Requests -> Turn] /\ {latest, confirmed, demand} \subseteq Nat
  BY <1>1, Known DEF Holds, Held, TypeOK
<1>3. CASE Answer(r, "error") /\ UNCHANGED <<copy, most>>
  BY <1>1, <1>3, RefusalKeeps
<1>4. ASSUME NEW n \in Reports(kind[r]), most' = Larger(most, n),
             copy' = [copy EXCEPT ![r].min = Remaining(copy[r].target, n)],
             Goto(r, IF kind[r] = "Sync" THEN "write" ELSE "clearwith")
      PROVE  RecordStep
  <2> DEFINE m == Remaining(copy[r].target, n)
  <2>1. /\ n \in Nat /\ copy[r].target \in Nat
        /\ most' \in Nat /\ most' >= most /\ n <= most'
    <3>1. n \in Nat
      BY <1>1, <1>4, Known, ReportsType
    <3> QED BY <1>2, <1>4, <3>1, LargerType DEF Turn
  <2>c. Carried
    BY <1>1, <1>2, <2>1 DEF Carried
  <2>s. Stored'
    <3>1. Stored /\ {row, cache} \subseteq Turn \cup {None}
      BY DEF RecordInv, TypeOK
    <3>2. ASSUME NEW t \in {row, cache}, t # None, Demands(t), Settled(t)
          PROVE  Demands(t)' /\ Settled(t)'
      <4>1. t \in Turn /\ t' = t
        BY <1>1, <3>1, <3>2
      <4> QED BY <2>c, <3>2, <4>1, CarriedTurn
    <3> QED BY <1>1, <3>1, <3>2 DEF Stored
  <2>2. m \in Nat /\ (m = 0 => n >= copy[r].target)
    BY <2>1, RemainingType
  <2> HIDE DEF m
  <2>3. copy' = [copy EXCEPT ![r] = [copy[r] EXCEPT !.min = m]]
    BY <1>2, <1>4 DEF m
  <2>4. copy'[r].version = copy[r].version /\ copy'[r].target = copy[r].target /\ copy'[r].min = m
    <3>1. copy'[r] = [copy[r] EXCEPT !.min = m]
      BY <1>2, <2>3
    <3> QED BY <1>2, <2>2, <3>1, MinType
  <2>5. Demands(copy[r])'
    BY <1>1, <1>2, <2>4 DEF Demands
  <2>6. Settled(copy[r])'
    <3>1. SUFFICES ASSUME confirmed = latest, m = 0 PROVE most' >= demand
      BY <1>1, <2>4 DEF Settled, DemandMet
    <3>2. copy[r].version = latest
      BY <1>2, <3>1 DEF Demands, Turn
    <3>3. copy[r].target = demand
      BY <1>2, <3>2 DEF Demands
    <3> QED BY <1>2, <2>1, <2>2, <3>1, <3>3
  <2>7. PICK l \in {"write", "clearwith"} :
          /\ pc' = [pc EXCEPT ![r] = l] /\ reply' = reply
          /\ l = (IF kind[r] = "Sync" THEN "write" ELSE "clearwith")
    BY <1>4 DEF Goto
  <2>8. pc'[r] = l
    BY <1>1, <2>7, Known
  <2>9. Holds(r)' /\ PutHolds(r)'
    BY <1>1, <1>2, <2>5, <2>6, <2>7, <2>8 DEF Holds, Held, PutHolds
  <2>10. PassOf(r) /\ ShownOf(r)
    BY <2>7 DEF PassOf, Passes, ShownOf
  <2> QED BY <1>1, <2>3, <2>7, <2>9, <2>10, <2>c, <2>s, Frame
<1> QED BY <1>3, <1>4 DEF AskWinlose

\* A saved turn is what was checked, or the one whose demand the support has lifted.
LEMMA SaveTurnKeeps ==
    ASSUME RecordInv, NEW r \in Requests, SaveTurn(r)
    PROVE  RecordStep
<1>1. /\ pc[r] \in Steps /\ pc[r] = "save"
      /\ UNCHANGED <<kind, copy, cache, with, most, latest, confirmed, demand, overlapped>>
  BY DEF SaveTurn, Steps, viewVars, putVars, betVars
<1>2. /\ Demands(copy[r]) /\ (kind[r] # "SetMin" => Settled(copy[r]))
      /\ kind[r] \in {"WdCheck", "SetMin"} /\ Stored /\ copy[r] \in Turn
      /\ {latest, confirmed} \subseteq Nat /\ {row, cache} \subseteq Turn \cup {None}
  BY <1>1, Known DEF Holds, Held, TypeOK
<1>3. PICK w \in {"ok", "error"} :
        /\ pc' = [pc EXCEPT ![r] = "done"] /\ reply' = [reply EXCEPT ![r] = w]
        /\ w = "ok" => copy[r].min = 0 /\ row' = copy[r]
        /\ \/ row' = copy[r] /\ waived' = IF kind[r] = "SetMin" THEN copy[r].version ELSE waived
           \/ UNCHANGED <<row, waived>>
  BY DEF SaveTurn, Answer
<1>4. pc'[r] = "done" /\ reply'[r] = w
  BY <1>1, <1>3, Known
<1>5. Holds(r)' /\ PutHolds(r)'
  BY <1>4 DEF Holds, Held, PutHolds
<1>6. PassOf(r) /\ ShownOf(r)
  BY <1>2, <1>3, <1>4 DEF PassOf, Passes, ShownOf, Settled
<1>7. confirmed = latest => copy[r].version = latest
  BY <1>2 DEF Demands, Turn
<1>8. Carried
  BY <1>1, <1>3, <1>7 DEF Carried
<1>9. Stored'
  <2>1. CASE UNCHANGED <<row, waived>>
    BY <1>1, <1>2, <2>1, StoredStays
  <2>2. CASE row' = copy[r] /\ waived' = IF kind[r] = "SetMin" THEN copy[r].version ELSE waived
    <3>1. Demands(row)'
      BY <1>1, <1>2, <2>2 DEF Demands
    <3>2. Settled(row)'
      <4>1. CASE kind[r] = "SetMin"
        BY <1>1, <1>7, <2>2, <4>1 DEF Settled, DemandMet
      <4>2. CASE kind[r] # "SetMin"
        BY <1>1, <1>2, <2>2, <4>2 DEF Settled, DemandMet
      <4> QED BY <4>1, <4>2
    <3>3. cache # None => Demands(cache)' /\ Settled(cache)'
      <4>1. SUFFICES ASSUME cache # None PROVE Demands(cache)' /\ Settled(cache)'
        OBVIOUS
      <4> DEFINE t == cache
      <4>2. t \in Turn /\ Demands(t) /\ Settled(t) /\ cache' = t
        BY <1>1, <1>2, <4>1 DEF Stored
      <4>3. (Demands(t) => Demands(cache)') /\ (Settled(t) => Settled(cache)')
        BY <1>8, <4>2, CarriedTurn DEF Demands, Settled
      <4> QED BY <4>2, <4>3
    <3>4. row' # None
      BY <1>2, <2>2, NoneAssumption
    <3> QED BY <1>1, <1>2, <3>1, <3>2, <3>3, <3>4 DEF Stored
  <2> QED BY <1>3, <2>1, <2>2
<1> QED BY <1>1, <1>3, <1>5, <1>6, <1>8, <1>9, Frame

LEMMA WriteKeeps ==
    ASSUME RecordInv, NEW r \in Requests, Write(r)
    PROVE  RecordStep
<1>1. /\ pc[r] \in Steps /\ pc[r] = "write"
      /\ UNCHANGED <<kind, cache, with, confirmed, overlapped>>
  BY DEF Write, Steps, viewVars
<1>2. /\ Demands(copy[r]) /\ (kind[r] # "SetMin" => Settled(copy[r]))
      /\ kind[r] \in {"Sync", "Put"} /\ Stored /\ copy[r] \in Turn
      /\ confirmed \in Nat /\ latest \in Nat
      /\ {row, cache} \subseteq Turn \cup {None}
  BY <1>1, Known DEF Holds, Held, TypeOK
<1>3. CASE /\ kind[r] = "Sync" /\ row' = copy[r] /\ Goto(r, AfterWrite("Sync"))
           /\ UNCHANGED <<copy, most, latest, demand, waived>>
  <2>1. pc' = [pc EXCEPT ![r] = "dropwith"] /\ reply' = reply /\ pc'[r] = "dropwith"
    BY <1>1, <1>3, Known DEF AfterWrite, Goto
  <2>2. Demands(copy[r])' /\ Settled(copy[r])'
    BY <1>1, <1>2, <1>3 DEF Demands, Settled, DemandMet
  <2>3. Holds(r)' /\ PutHolds(r)'
    BY <1>1, <1>3, <2>1, <2>2 DEF Holds, Held, PutHolds
  <2>4. PassOf(r) /\ ShownOf(r) /\ Carried
    BY <1>1, <1>3, <2>1 DEF PassOf, Passes, ShownOf, Carried
  <2>5. row' # None
    BY <1>2, <1>3, NoneAssumption
  <2>6. Demands(row)' /\ Settled(row)'
    BY <1>3, <2>2 DEF Demands, Settled, DemandMet
  <2>7. Demands(cache)' = Demands(cache) /\ Settled(cache)' = Settled(cache)
    BY <1>1, <1>3 DEF Demands, Settled, DemandMet
  <2>8. Stored'
    BY <1>1, <1>2, <1>3, <2>5, <2>6, <2>7 DEF Stored
  <2> QED BY <1>1, <1>3, <2>1, <2>3, <2>4, <2>8, Frame
<1>4. ASSUME kind[r] = "Put", NEW new \in Turn, new.version = latest + 1,
             row' = new, copy' = [copy EXCEPT ![r] = new], demand' = new.target,
             waived' = IF new.min = 0 THEN new.version ELSE waived,
             latest' = latest + 1, most' = bet, Goto(r, AfterWrite("Put"))
      PROVE  RecordStep
  <2>1. pc' = [pc EXCEPT ![r] = "dropwith"] /\ reply' = reply /\ pc'[r] = "dropwith"
    BY <1>1, <1>4, Known DEF AfterWrite, Goto
  <2>2. /\ copy' = [copy EXCEPT ![r] = new] /\ copy'[r] = new /\ row' = new
        /\ new.version = latest' /\ demand' = new.target
        /\ new.min = 0 => waived' = latest'
    BY <1>1, <1>4, Known
  <2>4. confirmed' <= latest /\ latest < latest' /\ confirmed' <= latest' /\ confirmed' # latest'
    BY <1>1, <1>2, <1>4 DEF Stored
  <2>5. Demands(copy[r])' /\ Settled(copy[r])' /\ Demands(row)' /\ Settled(row)'
    <3>1. /\ confirmed' <= copy'[r].version /\ copy'[r].version <= latest'
          /\ copy'[r].target = demand' /\ row' = copy'[r]
      BY <1>2, <1>4, <2>2, <2>4
    <3> QED BY <2>4, <3>1 DEF Demands, Settled
  <2>6. Holds(r)'
    BY <1>1, <1>4, <2>1, <2>5 DEF Holds, Held
  <2>7. PutHolds(r)'
    BY <2>1, <2>2 DEF PutHolds
  <2>8. PassOf(r) /\ ShownOf(r) /\ Carried
    BY <1>1, <1>4, <2>1 DEF PassOf, Passes, ShownOf, Carried
  <2>9. cache # None => Demands(cache)' /\ Settled(cache)'
    <3>1. SUFFICES ASSUME cache # None PROVE Demands(cache)' /\ Settled(cache)'
      OBVIOUS
    <3>2. confirmed <= cache.version /\ cache.version <= latest /\ cache.version \in Nat
      BY <1>2, <3>1 DEF Stored, Demands, Turn
    <3>3. cache'.version <= latest' /\ confirmed' <= cache'.version /\ cache'.version # latest'
      BY <1>1, <1>2, <1>4, <3>2
    <3> QED BY <2>4, <3>3 DEF Demands, Settled
  <2>10. row' # None
    BY <1>4, NoneAssumption
  <2>11. Stored'
    BY <1>1, <1>2, <2>4, <2>5, <2>9, <2>10 DEF Stored
  <2> QED BY <1>1, <2>1, <2>2, <2>6, <2>7, <2>8, <2>11, Frame
<1>5. CASE Answer(r, "empty") /\ UNCHANGED <<row, copy, most, latest, demand, waived>>
  BY <1>1, <1>5, RefusalKeeps
<1>6. CASE /\ kind[r] = "Put" /\ latest' = latest + 1 /\ most' = bet /\ Goto(r, AfterWrite("Put"))
           /\ \E input \in Inputs :
                LET new == Merged(copy[r], input)
                IN /\ row' = new /\ copy' = [copy EXCEPT ![r] = new] /\ demand' = new.target
                   /\ waived' = IF new.min = 0 THEN new.version ELSE waived
  <2>1. PICK input \in Inputs :
          LET new == Merged(copy[r], input)
          IN /\ row' = new /\ copy' = [copy EXCEPT ![r] = new] /\ demand' = new.target
             /\ waived' = IF new.min = 0 THEN new.version ELSE waived
    BY <1>6
  <2>2. Merged(copy[r], input) \in Turn /\ Merged(copy[r], input).version = latest + 1
    BY <1>2, MergedType
  <2> QED BY <1>4, <1>6, <2>1, <2>2
<1> QED BY <1>3, <1>5, <1>6 DEF Write

\* Deleting a copy hides nothing.
LEMMA DropKeeps ==
    ASSUME RecordInv, NEW r \in Requests, DropWith(r) \/ DropNew(r)
    PROVE  RecordStep
<1>1. /\ pc[r] \in Steps /\ pc[r] \in {"dropwith", "dropnew"}
      /\ UNCHANGED <<kind, copy, row, most, latest, confirmed, demand, waived, overlapped>>
      /\ cache' \in {cache, None} /\ with' \in {with, None}
  BY DEF DropWith, DropNew, Steps, viewVars, putVars, historyVars, betVars, betVars
<1>2. PICK l \in {"dropnew", "setnew", "done"} :
        /\ pc' = [pc EXCEPT ![r] = l]
        /\ reply' = reply \/ reply' = [reply EXCEPT ![r] = "empty"]
        /\ l = "dropnew" => with' = None
        /\ l = "setnew" => with' = with /\ pc[r] = "dropnew"
  BY DEF DropWith, DropNew, Goto, Answer, viewVars
<1>3. pc'[r] = l /\ reply'[r] \in {reply[r], "empty"}
  BY <1>1, <1>2, Known
<1>4. /\ Holds(r) /\ PutHolds(r) /\ copy'[r] = copy[r] /\ kind'[r] = kind[r]
      /\ row' = row /\ latest' = latest
  BY <1>1, Known
<1>5. Holds(r)'
  <2>1. Demands(copy[r])' /\ (kind[r] # "SetMin" => Settled(copy[r])')
    BY <1>1, <1>4 DEF Holds, Held, Demands, Settled, DemandMet
  <2> QED BY <1>1, <1>2, <1>3, <1>4, <2>1 DEF Holds, Held
<1>6. PutHolds(r)'
  BY <1>1, <1>2, <1>3, <1>4 DEF PutHolds
<1>7. PassOf(r) /\ ShownOf(r)
  BY <1>3 DEF PassOf, Passes, ShownOf
<1> QED BY <1>1, <1>2, <1>5, <1>6, <1>7, DroppedStays, Frame

\* The turn is confirmed: it is the last one written, in the row and nowhere an older one.
LEMMA SetNewKeeps ==
    ASSUME RecordInv, NEW r \in Requests, SetNew(r)
    PROVE  RecordStep
<1>1. /\ pc[r] \in Steps /\ pc[r] = "setnew"
      /\ UNCHANGED <<kind, copy, row, with, most, latest, demand, waived, overlapped>>
  BY DEF SetNew, Steps, viewVars, betVars
<1>2. /\ Demands(copy[r]) /\ Settled(copy[r]) /\ Stored /\ copy[r] \in Turn
      /\ kind[r] \in {"Sync", "Put"} /\ {latest, confirmed, demand} \subseteq Nat
      /\ kind[r] = "Put" /\ r \notin overlapped =>
           /\ copy[r].version = latest /\ row = copy[r] /\ (copy[r].min = 0 => waived = latest)
           /\ with = None
  BY <1>1, Known DEF Holds, PutHolds, Held
<1>3. PICK w \in {"ok", "empty"} :
        /\ pc' = [pc EXCEPT ![r] = "done"] /\ reply' = [reply EXCEPT ![r] = w]
        /\ \/ confirmed' = confirmed /\ cache' \in {cache, copy[r]}
           \/ /\ kind[r] = "Put" /\ r \notin overlapped /\ cache' = copy[r]
              /\ confirmed' = copy[r].version
  BY DEF SetNew, Answered, Answer
<1>4. pc'[r] = "done" /\ pc'[r] \notin Steps
  BY <1>1, <1>3, Known DEF Steps
<1>5. Holds(r)' /\ PutHolds(r)' /\ PassOf(r) /\ ShownOf(r)
  BY <1>2, <1>4 DEF Holds, Held, PutHolds, PassOf, Passes, ShownOf
<1>6. CASE confirmed' = confirmed /\ cache' \in {cache, copy[r]}
  <2>1. cache' # None => Demands(cache)' /\ Settled(cache)'
    BY <1>1, <1>2, <1>6 DEF Stored, Demands, Settled, DemandMet
  <2>2. Demands(row)' = Demands(row) /\ Settled(row)' = Settled(row)
    BY <1>1, <1>6 DEF Demands, Settled, DemandMet
  <2>3. Stored' /\ Carried
    BY <1>1, <1>2, <1>6, <2>1, <2>2 DEF Stored, Carried
  <2> QED BY <1>1, <1>3, <1>5, <2>3, Frame
<1>7. CASE /\ kind[r] = "Put" /\ r \notin overlapped /\ cache' = copy[r]
           /\ confirmed' = copy[r].version
  <2>1. /\ confirmed' = latest /\ row' = copy[r] /\ copy[r].version = latest /\ with' = None
        /\ copy[r].target = demand /\ (copy[r].min = 0 => waived = latest) /\ latest' = latest
    BY <1>1, <1>2, <1>7 DEF Demands
  <2>2. Demands(row)' /\ Demands(cache)'
    BY <1>1, <1>2, <1>7, <2>1 DEF Demands
  <2>3. Settled(row)' /\ Settled(cache)'
    BY <1>1, <1>7, <2>1 DEF Settled, DemandMet
  <2>4. row' # None
    BY <1>2, <2>1, NoneAssumption
  <2>5. Stored'
    BY <1>1, <1>2, <2>1, <2>2, <2>3, <2>4 DEF Stored
  <2> QED BY <1>1, <1>3, <1>5, <1>7, <2>5, Frame
<1> QED BY <1>3, <1>6, <1>7

\* Turnover only grows, and a death leaves nobody under way.
LEMMA OtherKeeps ==
    ASSUME RecordInv, Bet \/ Deposit \/ ExpireAuto \/ Crash \/ Rest \/ UNCHANGED vars
    PROVE  RecordStep
<1>1. /\ UNCHANGED <<kind, reply, copy, row, cache, with, latest, confirmed, demand, waived, overlapped>>
      /\ most' = most \/ (most' \in Nat /\ most' > most)
      /\ pc' = pc \/ \A r \in Requests : pc'[r] \notin Steps
  BY DEF RecordInv, TypeOK, Bet, Deposit, Larger, ExpireAuto, Crash, Rest, vars, viewVars, putVars,
     historyVars, betVars, Active, Steps
<1>2. Carried
  BY <1>1 DEF Carried
<1>3. Stored'
  <2>1. row # None => Demands(row)' /\ Settled(row)'
    BY <1>1, <1>2, CarriedTurn DEF RecordInv, TypeOK, Stored, Demands, Settled
  <2>2. cache # None => Demands(cache)' /\ Settled(cache)'
    BY <1>1, <1>2, CarriedTurn DEF RecordInv, TypeOK, Stored, Demands, Settled
  <2> QED BY <1>1, <2>1, <2>2 DEF RecordInv, Stored
<1>4. Apart'
  BY <1>1 DEF RecordInv, Apart, Active
<1>5. \A r \in Requests : PassOf(r) /\ ShownOf(r)
  BY <1>1 DEF PassOf, Passes, ShownOf
<1>6. \A r \in Requests : Holds(r)' /\ PutHolds(r)'
  <2>1. CASE \A r \in Requests : pc'[r] \notin Steps
    BY <2>1 DEF Holds, PutHolds, Held, Steps
  <2>2. CASE pc' = pc
    <3>1. TAKE r \in Requests
    <3>2. Holds(r) /\ PutHolds(r) /\ copy[r] \in Turn
      BY DEF RecordInv, TypeOK
    <3> DEFINE t == copy[r]
    <3>3. (Demands(t) => Demands(copy[r])') /\ (Settled(t) => Settled(copy[r])')
      BY <1>1, <1>2, <3>2, CarriedTurn DEF Demands, Settled
    <3>4. Holds(r)'
      BY <1>1, <2>2, <3>2, <3>3 DEF Holds
    <3> QED BY <1>1, <2>2, <3>2, <3>4 DEF PutHolds
  <2> QED BY <1>1, <2>1, <2>2
<1> QED BY <1>3, <1>4, <1>5, <1>6 DEF RecordStep

LEMMA RecordNext ==
    ASSUME RecordInv, [Next]_vars
    PROVE  RecordInv' /\ \A r \in Requests : PassOf(r) /\ ShownOf(r)
<1>1. RecordStep
  BY ArriveKeeps, ReadWithKeeps, ReadCacheKeeps, ReadRowKeeps, FillCacheKeeps, InsertTurnKeeps,
     ShowKeeps, MoveKeeps, AskWinloseKeeps, SaveTurnKeeps, WriteKeeps, DropKeeps, SetNewKeeps,
     OtherKeeps DEF Next, Lookup, View, Check, Update
<1>2. TypeOK'
  <2>1. TypeInv
    BY DEF RecordInv, Apart, TypeInv, Busy
  <2> QED BY <2>1, TypeStep DEF TypeInv
<1> QED BY <1>1, <1>2 DEF RecordStep, RecordInv

\* A turn that PUT answered with, and nobody beside it, stays in the row and no cached
\* copy hides it, whatever overlaps, fails or dies later (member.turn.service.ts:116-141).
THEOREM TurnKept == Spec => []ConfirmedTurnKept
<1>1. RecordInv => ConfirmedTurnKept
  <2>1. SUFFICES ASSUME RecordInv PROVE ConfirmedTurnKept
    OBVIOUS
  <2>2. confirmed \in Nat /\ Stored
    BY <2>1 DEF RecordInv, TypeOK
  <2>3. {row, cache, with} \subseteq Turn \cup {None}
    BY <2>1 DEF RecordInv, TypeOK
  <2>4. \A t \in Turn : confirmed <= t.version => t.version >= confirmed
    BY <2>2 DEF Turn
  <2>5. row # None => row.version >= confirmed
    BY <2>2, <2>3, <2>4 DEF Stored, Demands
  <2>6. cache # None => cache.version >= confirmed
    BY <2>2, <2>3, <2>4 DEF Stored, Demands
  <2>7. with # None => with.version >= confirmed
    BY <2>2, <2>3, <2>4 DEF Stored
  <2> QED BY <2>2, <2>5, <2>6, <2>7 DEF Stored, ConfirmedTurnKept
<1>2. Init => RecordInv
  BY RecordInit
<1>3. RecordInv /\ [Next]_vars => RecordInv'
  BY RecordNext
<1> QED BY <1>1, <1>2, <1>3, PTL DEF Spec

\* While the last turn is a confirmed one, nobody passes WdCheck
\* (member.turn.controller.ts:256) without the turnover it demanded, unless the
\* support lifted it, whatever else runs beside the check.
THEOREM PassIsMet == Spec => PassMeansMet
<1>1. Init => RecordInv
  BY RecordInit
<1>2. RecordInv /\ [Next]_vars => RecordInv' /\ \A r \in Requests : PassOf(r)
  BY RecordNext
<1>3. (\A r \in Requests : PassOf(r)) =>
        \A r \in Requests : Passes(r) /\ confirmed = latest => DemandMet
  BY DEF PassOf
<1> QED BY <1>1, <1>2, <1>3, PTL DEF Spec, PassMeansMet

\* Nor does GET :username, GET WithTurn or a GET Auto that asked show a turn older than
\* the confirmed one (member.turn.service.ts:121-125).
THEOREM AnswersHold == Spec => AnswersAreConfirmed
<1>1. Init => RecordInv
  BY RecordInit
<1>2. RecordInv /\ [Next]_vars => RecordInv' /\ \A r \in Requests : ShownOf(r)
  BY RecordNext
<1>3. (\A r \in Requests : ShownOf(r)) =>
        \A r \in Requests : /\ kind[r] \in {"GetTurn", "WithTurn", "Auto"}
                            /\ reply[r] = "none" /\ reply'[r] = "ok"
                            => copy'[r].version >= confirmed
  BY DEF ShownOf
<1> QED BY <1>1, <1>2, <1>3, PTL DEF Spec, AnswersAreConfirmed
===============================================================================
