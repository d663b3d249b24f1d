------------------------------ MODULE Withdrawal ------------------------------
(***************************************************************************)
(* One member's money against the four handlers that take credit:          *)
(* POST Withdraw, CutCreditV2, WheelBuy and WithdrawAff of                 *)
(* src/src/Member/member.turn.controller.ts, with the service calls they   *)
(* await.  A request is a process; each action is one awaited call and the *)
(* synchronous code up to the next one, so the actions of two requests     *)
(* interleave where the Node event loop lets the handlers interleave.      *)
(*                                                                         *)
(* Every key, row and balance these handlers touch belongs to one username,*)
(* so the module is the slice of one member.  Credit is counted in whole   *)
(* units (Satang is the 0.01 baht trial transfer in those units).          *)
(***************************************************************************)
EXTENDS Naturals, FiniteSets

CONSTANTS
    Requests,   \* the HTTP requests of this member
    Offered,    \* the handlers they call, a subset of Kinds
    Amounts,    \* the amounts they ask for, as parsed
    Spellings,  \* the letter cases the username is submitted in
    Balances,   \* the balances that play and deposits can produce
    Limits,     \* the values of limitwithdraw set by promotions (0: no cap)
    Satang,     \* the trial transfer of a credit synchronisation
    LeastWd,    \* setting.least_wd_credits
    DayCredit,  \* setting.wdlimitcredit (0: no limit)
    DayTimes,   \* setting.wdlimitTime
    TimesOn,    \* setting.wdlimit_time_status
    Counted,    \* the kinds the AmountCount report of the list service adds up
    Faults,     \* TRUE: calls may fail or lose their answer, the process may die
    MaxDay      \* bound on the number of midnights

Kinds == {"Withdraw", "CutCreditV2", "WheelBuy", "WithdrawAff"}
ListKinds == Kinds \ {"WheelBuy"}

ASSUME KindsAssumption == Offered \subseteq Kinds /\ "Withdraw" \in Counted /\ Counted \subseteq ListKinds
ASSUME NumbersAssumption == /\ Amounts \subseteq Nat /\ Balances \subseteq Nat /\ Limits \subseteq Nat
                            /\ Satang \in Nat \ {0} /\ MaxDay \in Nat
ASSUME SettingAssumption == /\ LeastWd \in Nat /\ DayCredit \in Nat /\ DayTimes \in Nat
                            /\ TimesOn \in BOOLEAN
ASSUME ModeAssumption == Faults \in BOOLEAN

VARIABLES
    req,        \* what each request asks for: kind, amount, spelling
    pc,         \* the awaited call each handler is about to make
    reply,      \* what the client of each request was told
    seenSync,   \* member.sync as this handler loaded it
    seenLimit,  \* member_turn_v2.limitwithdraw as this handler read it
    seenBal,    \* credit.balance as this handler read it
    trial,      \* trial credit topped up and not yet withdrawn again
    cut,        \* credit the wallet or the affiliate service took for the request
    listed,     \* amount the withdraw list recorded for the request
    marks,      \* requests whose duplicate guard is alive in Redis
    earlier,    \* history: the marks that were alive when the request arrived
    overlapped, \* history: the requests that ran beside another one
    wallet,     \* the member's balance in SMART_V2
    aff,        \* the member's affiliate income in ALL_DEPOSIT
    syncCopies, \* values of member.sync held by the row or a cached copy
    hasTurn, minTurn, limit,   \* the member_turn row
    total, times,              \* today's amounts and counts in the list, by kind
    day

requestVars == <<req, earlier, overlapped>>
seenVars == <<seenSync, seenLimit, seenBal>>
moneyVars == <<wallet, aff, trial, cut>>
turnVars == <<hasTurn, minTurn, limit>>
listVars == <<listed, total, times, day>>
vars == <<requestVars, pc, reply, seenVars, moneyVars, turnVars, listVars, marks, syncCopies>>

Steps == {"validate", "get", "set", "load", "limits", "turn", "create", "insert",
          "balance", "cut", "affcut", "list", "record", "save", "notify",
          "synctop", "synccut", "syncsave"}
Labels == Steps \cup {"idle", "done"}
Replies == {"none", "empty", "ok", "error"}

Active(r) == pc[r] \in Steps
Kind(r) == req[r].kind
Amount(r) == req[r].amount

\* `_withdraw_member_${username}_${amount}`: Withdraw and CutCreditV2 build the
\* same key, WheelBuy and WithdrawAff have a prefix of their own, and the
\* username goes in as it was typed.
Family(k) == IF k \in {"Withdraw", "CutCreditV2"} THEN "Common" ELSE k
Key(r) == <<Family(Kind(r)), req[r].spelling, Amount(r)>>

Goto(r, label) == pc' = [pc EXCEPT ![r] = label] /\ UNCHANGED reply
Answer(r, what) == /\ pc' = [pc EXCEPT ![r] = "done"]
                   /\ reply' = [reply EXCEPT ![r] = what]
-------------------------------------------------------------------------------
(* Entry: validation, the duplicate guard, the member and the setting.     *)

\* The Aff handler validates with ALL_DEPOSIT before it looks at the guard.
Arrive(r) ==
    /\ pc[r] = "idle"
    /\ earlier' = [earlier EXCEPT ![r] = marks]
    /\ LET beside == {q \in Requests : Active(q)}
       IN overlapped' = IF beside = {} THEN overlapped ELSE overlapped \cup beside \cup {r}
    /\ IF Kind(r) \in {"Withdraw", "WithdrawAff"} /\ Amount(r) < 1
       THEN Answer(r, "error")
       ELSE Goto(r, IF Kind(r) = "WithdrawAff" THEN "validate" ELSE "get")
    /\ UNCHANGED <<req, seenVars, moneyVars, turnVars, listVars, marks, syncCopies>>

Validate(r) ==
    /\ pc[r] = "validate"
    /\ \/ aff >= Amount(r) /\ Goto(r, "get")
       \/ Answer(r, "error")
    /\ UNCHANGED <<requestVars, seenVars, moneyVars, turnVars, listVars, marks, syncCopies>>

\* Mutation: Withdraw and CutCreditV2 do not see each other's guard.
GuardGetOwnKind(r) ==
    /\ pc[r] = "get"
    /\ IF \E q \in marks : Key(q) = Key(r) /\ Kind(q) = Kind(r)
       THEN Answer(r, "empty") ELSE Goto(r, "set")
    /\ UNCHANGED <<requestVars, seenVars, moneyVars, turnVars, listVars, marks, syncCopies>>
GuardGet(r) ==
    /\ pc[r] = "get"
    /\ IF \E q \in marks : Key(q) = Key(r) THEN Answer(r, "empty") ELSE Goto(r, "set")
    /\ UNCHANGED <<requestVars, seenVars, moneyVars, turnVars, listVars, marks, syncCopies>>

GuardSet(r) ==
    /\ pc[r] = "set"
    /\ marks' = marks \cup {r}
    /\ IF Amount(r) <= 0 THEN Answer(r, "error") ELSE Goto(r, "load")
    /\ UNCHANGED <<requestVars, seenVars, moneyVars, turnVars, listVars, syncCopies>>

\* Where a handler goes once the member and the setting are there.
AfterSetting(r, sync) ==
    CASE Kind(r) = "Withdraw" -> "limits"
      [] Kind(r) = "WithdrawAff" -> "affcut"
      [] Kind(r) = "CutCreditV2" /\ sync -> "turn"
      [] Kind(r) = "WheelBuy" -> IF sync THEN "balance" ELSE "synctop"
      [] OTHER -> "done"

\* `_member_info_`, `_memberRepo_` or the row, then getSetting.  The setting may
\* be missing, the site or the withdrawals closed, at any time.
Load(r) ==
    /\ pc[r] = "load"
    /\ \E sync \in syncCopies :
         /\ seenSync' = [seenSync EXCEPT ![r] = sync]
         /\ LET tooSmall == Kind(r) \in {"Withdraw", "WithdrawAff"} /\ Amount(r) < LeastWd
                next == AfterSetting(r, sync)
            IN \/ Answer(r, "error")
               \/ ~tooSmall /\ next # "done" /\ Goto(r, next)
    /\ UNCHANGED <<requestVars, seenLimit, seenBal, moneyVars, turnVars, listVars, marks, syncCopies>>
-------------------------------------------------------------------------------
(* checkIsCanwithdrawTodayFromSetting on the report of the list service.   *)

Part(f, k) == IF k \in Counted THEN f[k] ELSE 0
Tally(f) == Part(f, "Withdraw") + Part(f, "CutCreditV2") + Part(f, "WithdrawAff")

\* Mutation: the amount asked for is left out of the sum.
WithinDailyLimitsOff(a) ==
    /\ DayCredit > 0 => Tally(times) # DayTimes /\ Tally(total) <= DayCredit
    /\ TimesOn /\ DayTimes > 0 => Tally(times) < DayTimes

\* The count is compared with == inside the credit block, with >= in the other.
WithinDailyLimits(a) ==
    /\ DayCredit > 0 => /\ Tally(times) # DayTimes
                        /\ Tally(total) <= DayCredit
                        /\ Tally(total) + a <= DayCredit
                        /\ a > 0 => a >= LeastWd
    /\ TimesOn /\ DayTimes > 0 => Tally(times) < DayTimes

CheckLimits(r) ==
    /\ pc[r] = "limits"
    /\ \/ /\ WithinDailyLimits(Amount(r))
          /\ Goto(r, IF seenSync[r] THEN "turn" ELSE "synctop")
       \/ (Faults \/ ~WithinDailyLimits(Amount(r))) /\ Answer(r, "error")
    /\ UNCHANGED <<requestVars, seenVars, moneyVars, turnVars, listVars, marks, syncCopies>>
-------------------------------------------------------------------------------
(* The turn row: read, or created when the member has none.                *)

\* What a handler does with a turn: only Withdraw demands min_turn <= 0.
UseTurn(r, m, l) ==
    /\ seenLimit' = [seenLimit EXCEPT ![r] = l]
    /\ IF Kind(r) = "Withdraw" /\ m > 0 THEN Answer(r, "error") ELSE Goto(r, "balance")

ReadTurn(r) ==
    /\ pc[r] = "turn"
    /\ IF hasTurn THEN UseTurn(r, minTurn, limit) ELSE Goto(r, "create") /\ UNCHANGED seenLimit
    /\ UNCHANGED <<requestVars, seenSync, seenBal, moneyVars, turnVars, listVars, marks, syncCopies>>

\* createTurnV2 is called by the handler, or by findmemberRicoSync for a member
\* that is being synchronised.
AfterCreate(r, m, l) == IF seenSync[r] THEN UseTurn(r, m, l)
                                       ELSE Goto(r, "syncsave") /\ UNCHANGED seenLimit

\* Mutation: the new turn is built but not saved.
CreateTurnUnsaved(r) ==
    /\ pc[r] = "create"
    /\ AfterCreate(r, 0, 0)
    /\ UNCHANGED <<requestVars, seenSync, seenBal, moneyVars, turnVars, listVars, marks, syncCopies>>
CreateTurn(r) ==
    /\ pc[r] = "create"
    /\ IF hasTurn THEN AfterCreate(r, minTurn, limit) ELSE Goto(r, "insert") /\ UNCHANGED seenLimit
    /\ UNCHANGED <<requestVars, seenSync, seenBal, moneyVars, turnVars, listVars, marks, syncCopies>>

\* Mutation: the loser of the race waits for a row it will never get.
InsertTurnHangs(r) ==
    /\ pc[r] = "insert"
    /\ ~hasTurn
    /\ hasTurn' = TRUE /\ minTurn' = 0 /\ limit' = 0
    /\ AfterCreate(r, 0, 0)
    /\ UNCHANGED <<requestVars, seenSync, seenBal, moneyVars, listVars, marks, syncCopies>>
\* member_turn.username is unique: the insert of the slower of two requests fails.
InsertTurn(r) ==
    /\ pc[r] = "insert"
    /\ \/ /\ ~hasTurn
          /\ hasTurn' = TRUE /\ minTurn' = 0 /\ limit' = 0
          /\ AfterCreate(r, 0, 0)
       \/ /\ hasTurn \/ Faults
          /\ Answer(r, "error")
          /\ UNCHANGED <<turnVars, seenLimit>>
    /\ UNCHANGED <<requestVars, seenSync, seenBal, moneyVars, listVars, marks, syncCopies>>
-------------------------------------------------------------------------------
(* The money: balance, cut, list, save, notify.                            *)

ReadBalance(r) ==
    /\ pc[r] = "balance"
    /\ \/ /\ wallet >= Amount(r)
          /\ seenBal' = [seenBal EXCEPT ![r] = wallet]
          /\ Goto(r, "cut")
       \/ /\ wallet < Amount(r) \/ Faults
          /\ Answer(r, "error")
          /\ UNCHANGED seenBal
    /\ UNCHANGED <<requestVars, seenSync, seenLimit, moneyVars, turnVars, listVars, marks, syncCopies>>

\* A promotion with limitwithdraw pays at most that much and takes everything.
Capped(r) == Kind(r) = "Withdraw" /\ seenLimit[r] > 0 /\ Amount(r) >= seenLimit[r]
CutAmount(r) == IF Capped(r) THEN seenBal[r] ELSE Amount(r)
\* Mutation: a cap is paid out even when less was asked for.
PayAmountAsked(r) == IF seenLimit[r] > 0 THEN seenLimit[r] ELSE Amount(r)
PayAmount(r) == IF Capped(r) THEN seenLimit[r] ELSE Amount(r)

\* Mutation: the balance is checked only when it is read.
CutCreditUnchecked(r) ==
    /\ pc[r] = "cut"
    /\ LET c == CutAmount(r)
           taken == wallet' = wallet - c /\ cut' = [cut EXCEPT ![r] = c]
       IN \/ taken /\ Goto(r, IF Kind(r) = "WheelBuy" THEN "record" ELSE "list")
          \/ Faults /\ taken /\ Answer(r, "error")
    /\ UNCHANGED <<requestVars, seenVars, aff, trial, turnVars, listVars, marks, syncCopies>>

\* Mutation: the capped branch forgets sendWithdrawList.
CutCreditUnlisted(r) ==
    /\ pc[r] = "cut"
    /\ LET c == CutAmount(r)
           taken == wallet >= c /\ wallet' = wallet - c /\ cut' = [cut EXCEPT ![r] = c]
       IN \/ taken /\ Goto(r, IF Capped(r) THEN "notify" ELSE "list")
          \/ wallet < c /\ UNCHANGED <<wallet, cut>> /\ Answer(r, "error")
    /\ UNCHANGED <<requestVars, seenVars, aff, trial, turnVars, listVars, marks, syncCopies>>
\* SMART_V2 refuses an amount above the balance.  The answer to a withdrawal it
\* carried out may be lost.
CutCredit(r) ==
    /\ pc[r] = "cut"
    /\ LET c == CutAmount(r)
           taken == wallet >= c /\ wallet' = wallet - c /\ cut' = [cut EXCEPT ![r] = c]
       IN \/ taken /\ Goto(r, IF Kind(r) = "WheelBuy" THEN "record" ELSE "list")
          \/ Faults /\ taken /\ Answer(r, "error")
          \/ (wallet < c \/ Faults) /\ UNCHANGED <<wallet, cut>> /\ Answer(r, "error")
    /\ UNCHANGED <<requestVars, seenVars, aff, trial, turnVars, listVars, marks, syncCopies>>

\* Mutation: cutCreditAffiliate swallows the error, as saveCutCreditRecord does.
CutAffiliateSwallows(r) ==
    /\ pc[r] = "affcut"
    /\ \/ aff >= Amount(r) /\ aff' = aff - Amount(r) /\ cut' = [cut EXCEPT ![r] = Amount(r)]
       \/ (aff < Amount(r) \/ Faults) /\ UNCHANGED <<aff, cut>>
    /\ Goto(r, "list")
    /\ UNCHANGED <<requestVars, seenVars, wallet, trial, turnVars, listVars, marks, syncCopies>>
\* cutCreditAffiliate: ALL_DEPOSIT takes the amount from the affiliate income.
CutAffiliate(r) ==
    /\ pc[r] = "affcut"
    /\ LET taken == aff >= Amount(r) /\ aff' = aff - Amount(r) /\ cut' = [cut EXCEPT ![r] = Amount(r)]
       IN \/ taken /\ Goto(r, "list")
          \/ Faults /\ taken /\ Answer(r, "error")
          \/ (aff < Amount(r) \/ Faults) /\ UNCHANGED <<aff, cut>> /\ Answer(r, "error")
    /\ UNCHANGED <<requestVars, seenVars, wallet, trial, turnVars, listVars, marks, syncCopies>>

\* Mutation: an error of ALL_WITHDRAW is swallowed.
PostListSwallows(r) ==
    /\ pc[r] = "list"
    /\ LET k == Kind(r)
       IN \/ /\ listed' = [listed EXCEPT ![r] = PayAmount(r)]
             /\ total' = [total EXCEPT ![k] = @ + PayAmount(r)]
             /\ times' = [times EXCEPT ![k] = @ + 1]
          \/ Faults /\ UNCHANGED <<listed, total, times>>
    /\ Goto(r, "save")
    /\ UNCHANGED <<requestVars, seenVars, moneyVars, turnVars, day, marks, syncCopies>>
\* sendWithdrawList and sendWithdrawListManual: the POST to ALL_WITHDRAW.
PostList(r) ==
    /\ pc[r] = "list"
    /\ LET k == Kind(r)
           recorded == /\ listed' = [listed EXCEPT ![r] = PayAmount(r)]
                       /\ total' = [total EXCEPT ![k] = @ + PayAmount(r)]
                       /\ times' = [times EXCEPT ![k] = @ + 1]
       IN \/ recorded /\ Goto(r, "save")
          \/ Faults /\ recorded /\ Answer(r, "error")
          \/ Faults /\ UNCHANGED <<listed, total, times>> /\ Answer(r, "error")
    /\ UNCHANGED <<requestVars, seenVars, moneyVars, turnVars, day, marks, syncCopies>>

\* saveCutCreditRecord: an HTTP error of ALL_WHEEL is swallowed (null) and the
\* handler still reports success; only a missing response throws.
RecordWheel(r) ==
    /\ pc[r] = "record"
    /\ \/ Answer(r, "ok")
       \/ Faults /\ Answer(r, "error")
    /\ UNCHANGED <<requestVars, seenVars, moneyVars, turnVars, listVars, marks, syncCopies>>

\* saveMemberEntity, the last call of sendWithdrawList*: the loaded member, with
\* the sync flag it was loaded with, goes back into the row.
SaveMember(r) ==
    /\ pc[r] = "save"
    /\ \/ Kind(r) = "CutCreditV2" /\ Answer(r, "ok")
       \/ Kind(r) # "CutCreditV2" /\ Goto(r, "notify")
       \/ Faults /\ Answer(r, "error")
    /\ UNCHANGED <<requestVars, seenVars, moneyVars, turnVars, listVars, marks, syncCopies>>

\* sendToLineNotifyWithdraw swallows an HTTP error; a missing response throws.
Notify(r) ==
    /\ pc[r] = "notify"
    /\ \/ Answer(r, "ok")
       \/ Faults /\ Answer(r, "error")
    /\ UNCHANGED <<requestVars, seenVars, moneyVars, turnVars, listVars, marks, syncCopies>>
-------------------------------------------------------------------------------
(* syncMember for a member that is not synchronised yet: deposit and       *)
(* withdraw the trial amount, create the turn, save the flag, and refuse.  *)

SyncTopup(r) ==
    /\ pc[r] = "synctop"
    /\ LET given == wallet' = wallet + Satang /\ trial' = [trial EXCEPT ![r] = Satang]
       IN \/ given /\ Goto(r, "synccut")
          \/ Faults /\ given /\ Answer(r, "error")
          \/ UNCHANGED <<wallet, trial>> /\ Answer(r, "error")
    /\ UNCHANGED <<requestVars, seenVars, aff, cut, turnVars, listVars, marks, syncCopies>>

SyncCut(r) ==
    /\ pc[r] = "synccut"
    /\ LET returned == wallet >= Satang /\ wallet' = wallet - Satang /\ trial' = [trial EXCEPT ![r] = 0]
       IN \/ returned /\ Goto(r, "create")
          \/ Faults /\ returned /\ Answer(r, "error")
          \/ (wallet < Satang \/ Faults) /\ UNCHANGED <<wallet, trial>> /\ Answer(r, "error")
    /\ UNCHANGED <<requestVars, seenVars, aff, cut, turnVars, listVars, marks, syncCopies>>

\* The handler throws "please refresh" even when the synchronisation worked.
SyncSave(r) ==
    /\ pc[r] = "syncsave"
    /\ \/ syncCopies' = syncCopies \cup {TRUE}
       \/ Faults /\ UNCHANGED syncCopies
    /\ Answer(r, "error")
    /\ UNCHANGED <<requestVars, seenVars, moneyVars, turnVars, listVars, marks>>
-------------------------------------------------------------------------------
(* The surroundings.                                                       *)

\* The guard is set with ttl 5 and never deleted: it goes when the time is up,
\* however far the handler has got.
Expire(k) ==
    /\ \E q \in marks : Key(q) = k
    /\ marks' = {q \in marks : Key(q) # k}
    /\ UNCHANGED <<requestVars, pc, reply, seenVars, moneyVars, turnVars, listVars, syncCopies>>

\* Bets, wins and deposits.
Play ==
    /\ wallet' \in Balances \ {wallet}
    /\ UNCHANGED <<requestVars, pc, reply, seenVars, aff, trial, cut, turnVars, listVars, marks, syncCopies>>

\* A promotion, a deposit or the back office rewrites the turn (PUT updateTurn,
\* WdCheck), as getMemberTurn will return it.
ChangeTurn ==
    /\ hasTurn
    /\ minTurn' \in {0, 1} /\ limit' \in Limits
    /\ <<minTurn', limit'>> # <<minTurn, limit>>
    /\ UNCHANGED <<requestVars, pc, reply, seenVars, moneyVars, hasTurn, listVars, marks, syncCopies>>

Midnight ==
    /\ day < MaxDay
    /\ day' = day + 1
    /\ total' = [k \in ListKinds |-> 0] /\ times' = [k \in ListKinds |-> 0]
    /\ UNCHANGED <<requestVars, pc, reply, seenVars, moneyVars, turnVars, listed, marks, syncCopies>>

\* The process dies: no handler continues and no client is answered.  Redis,
\* the database and the other services keep what they have.
Crash ==
    /\ Faults
    /\ \E r \in Requests : Active(r)
    /\ pc' = [r \in Requests |-> IF Active(r) THEN "done" ELSE pc[r]]
    /\ UNCHANGED <<requestVars, reply, seenVars, moneyVars, turnVars, listVars, marks, syncCopies>>
-------------------------------------------------------------------------------
Init ==
    /\ req \in [Requests -> [kind : Offered, amount : Amounts, spelling : Spellings]]
    /\ pc = [r \in Requests |-> "idle"]
    /\ reply = [r \in Requests |-> "none"]
    /\ seenSync = [r \in Requests |-> FALSE]
    /\ seenLimit = [r \in Requests |-> 0]
    /\ seenBal = [r \in Requests |-> 0]
    /\ trial = [r \in Requests |-> 0]
    /\ cut = [r \in Requests |-> 0]
    /\ listed = [r \in Requests |-> 0]
    /\ marks = {}
    /\ earlier = [r \in Requests |-> {}] /\ overlapped = {}
    /\ wallet \in Balances /\ aff \in Balances
    /\ \/ syncCopies = {FALSE} /\ hasTurn \in BOOLEAN
       \/ syncCopies = {TRUE} /\ hasTurn \in BOOLEAN
    /\ minTurn \in (IF hasTurn THEN {0, 1} ELSE {0})
    /\ limit \in (IF hasTurn THEN Limits ELSE {0})
    /\ total = [k \in ListKinds |-> 0] /\ times = [k \in ListKinds |-> 0]
    /\ day = 0

Enter(r) == Arrive(r) \/ Validate(r) \/ GuardGet(r) \/ GuardSet(r) \/ Load(r) \/ CheckLimits(r)
Turn(r) == ReadTurn(r) \/ CreateTurn(r) \/ InsertTurn(r)
Pay(r) == \/ ReadBalance(r) \/ CutCredit(r) \/ CutAffiliate(r)
          \/ PostList(r) \/ RecordWheel(r) \/ SaveMember(r) \/ Notify(r)
Sync(r) == SyncTopup(r) \/ SyncCut(r) \/ SyncSave(r)
Step(r) == Enter(r) \/ Turn(r) \/ Pay(r) \/ Sync(r)

Environment == Play \/ ChangeTurn \/ Midnight \/ Crash

\* Nothing is left to do: any other state without a step is a stuck handler.
Rest == (\A r \in Requests : pc[r] = "done") /\ UNCHANGED vars

Next == \/ \E r \in Requests : Step(r) \/ Expire(Key(r))
        \/ Environment
        \/ Rest

Spec == Init /\ [][Next]_vars

\* Fairness: an awaited call settles (answers or fails), so a handler in flight
\* takes its next step.  Arrivals are up to the client.
Handle(r) == Active(r) /\ Step(r)
FairSpec == Spec /\ \A r \in Requests : WF_vars(Handle(r))
-------------------------------------------------------------------------------
(* Properties.                                                             *)

ControlTyped == pc \in [Requests -> Labels] /\ reply \in [Requests -> Replies]
RequestTyped ==
    /\ req \in [Requests -> [kind : Kinds, amount : Nat, spelling : Spellings]]
    /\ earlier \in [Requests -> SUBSET Requests]
    /\ marks \subseteq Requests /\ overlapped \subseteq Requests
SeenTyped ==
    /\ seenSync \in [Requests -> BOOLEAN]
    /\ seenLimit \in [Requests -> Nat] /\ seenBal \in [Requests -> Nat]
MoneyTyped ==
    /\ wallet \in Nat /\ aff \in Nat
    /\ cut \in [Requests -> Nat] /\ trial \in [Requests -> {0, Satang}]
ListTyped ==
    /\ listed \in [Requests -> Nat]
    /\ total \in [ListKinds -> Nat] /\ times \in [ListKinds -> Nat] /\ day \in 0..MaxDay
TurnTyped ==
    /\ hasTurn \in BOOLEAN /\ minTurn \in {0, 1} /\ limit \in Nat
    /\ syncCopies \subseteq BOOLEAN

\* Every variable keeps its type.
TypeOK == ControlTyped /\ RequestTyped /\ SeenTyped /\ MoneyTyped /\ ListTyped /\ TurnTyped

\* No withdrawal is listed for payment beyond the credit taken for it, although
\* the cap of a promotion, the amount asked and the balance are read at
\* different moments and a capped request cuts one number and lists another
\* (member.turn.controller.ts:569-612).
PayoutCovered == \A r \in Requests : listed[r] <= cut[r]

\* While the guard of a submission is alive, an identical one that arrived after
\* it was set takes no credit (531-532, 642-643, 717-718, 777-778).  Two that
\* race through get and set are not covered: both may be paid.
RetryTakesNothing ==
    \A r, q \in Requests :
        q \in earlier[r] \cap marks /\ Key(q) = Key(r) => cut[r] = 0

\* When no call fails and the process lives, every handler that took credit for
\* a withdrawal lists the amount due before it ends: no refusal comes after the cut.
TakenIsListed ==
    ~Faults => \A r \in Requests :
        pc[r] = "done" /\ cut[r] > 0 /\ Kind(r) # "WheelBuy" => listed[r] = PayAmount(r)

\* Success is told only for credit really taken and, except for a wheel purchase,
\* for a withdrawal really listed, whatever was lost or refused on the way.
OkMeansPaid ==
    \A r \in Requests : reply[r] = "ok" =>
        cut[r] > 0 /\ (Kind(r) # "WheelBuy" => listed[r] > 0)

\* The daily limits that checkIsCanwithdrawTodayFromSetting announces to the
\* member (member.turn.service.ts:492-505): baht per day and withdrawals per day.
DailyLimit ==
    /\ DayCredit > 0 => total["Withdraw"] <= DayCredit
    /\ DayCredit > 0 /\ Counted = {"Withdraw"} => times["Withdraw"] <= DayTimes
    /\ TimesOn /\ DayTimes > 0 => times["Withdraw"] <= DayTimes

\* A withdrawal that no request ran beside never takes the day over a limit, and leaves
\* the amount, which is compared with >, within it, also on a day on which requests
\* that overlapped have passed it; the count is compared with ==
\* (member.turn.service.ts:492), which lets it pass once it is above.
AloneKeepsLimits ==
    [][\A r \in Requests :
         Kind(r) = "Withdraw" /\ r \notin overlapped /\ listed'[r] # listed[r] =>
           /\ DayCredit > 0 => total'["Withdraw"] <= DayCredit
           /\ TimesOn /\ DayTimes > 0 => times'["Withdraw"] <= DayTimes
           /\ DailyLimit => DailyLimit']_vars

\* A member is marked synchronised only when the turn row exists, which
\* WdCheck dereferences without a test (member.turn.controller.ts:215-218).
SyncGivesTurn == [][TRUE \notin syncCopies /\ TRUE \in syncCopies' => hasTurn']_vars

\* Every request in flight ends, also the loser of the race to insert the turn.
EveryRequestEnds == \A r \in Requests : Active(r) ~> pc[r] = "done"

\* The handlers implement the promise of CreditPayout.
Status(r) == IF pc[r] # "done" THEN "open" ELSE IF reply[r] = "ok" THEN "confirmed" ELSE "failed"
Promise == INSTANCE CreditPayout WITH
    purchase <- {r \in Requests : Kind(r) = "WheelBuy"},
    taken <- cut, paid <- listed, status <- [r \in Requests |-> Status(r)]
ImplementsPromise == Promise!Spec
-------------------------------------------------------------------------------
(* Inductive invariants behind the safety properties (WithdrawalProofs).   *)

BeforeGuard == {"idle", "validate", "get", "set"}
BeforeCut == (Labels \ {"list", "record", "save", "notify", "done"})

\* Where each request stands: nothing taken before the cut, enough read before
\* it, the amount due covered after it, the list entry covered from then on.
MoneyInv(r) ==
    /\ pc[r] # "done" => reply[r] = "none"
    /\ pc[r] \in BeforeCut => cut[r] = 0 /\ listed[r] = 0
    /\ pc[r] \in Steps \ BeforeGuard => Amount(r) > 0
    /\ pc[r] = "cut" => Kind(r) # "WithdrawAff" /\ Amount(r) <= seenBal[r]
    /\ pc[r] \in {"limits", "turn", "create", "insert", "balance", "synctop", "synccut", "syncsave"}
           => Kind(r) # "WithdrawAff"
    /\ pc[r] = "affcut" => Kind(r) = "WithdrawAff"
    /\ pc[r] = "record" => Kind(r) = "WheelBuy" /\ 0 < cut[r] /\ listed[r] = 0
    /\ pc[r] = "list" => Kind(r) # "WheelBuy" /\ listed[r] = 0 /\ 0 < PayAmount(r) /\ PayAmount(r) <= cut[r]
    /\ pc[r] \in {"save", "notify"} => Kind(r) # "WheelBuy" /\ 0 < listed[r] /\ listed[r] <= cut[r]
    /\ pc[r] = "done" => listed[r] <= cut[r]
    /\ reply[r] = "ok" => 0 < cut[r] /\ (Kind(r) # "WheelBuy" => 0 < listed[r])
MoneyInvariant == \A r \in Requests : MoneyInv(r)

\* A mark is set once, so one that was alive at the arrival of r and is alive now
\* was alive when r looked.
GuardInvariant ==
    /\ \A q \in marks : pc[q] \notin BeforeGuard
    /\ \A r \in Requests : \A q \in earlier[r] : pc[q] \notin BeforeGuard
    /\ \A r \in Requests : pc[r] \in BeforeGuard => cut[r] = 0
    /\ \A r \in Requests :
         pc[r] \in Steps \ {"validate", "get"} \/ cut[r] > 0 =>
             \A q \in earlier[r] \cap marks : Key(q) # Key(r)

\* While a request runs alone, the report its check read is still right when it lists.
AfterLimits == {"synctop", "synccut", "turn", "create", "insert", "balance", "cut", "list"}
RoomLeft(r) ==
    /\ DayCredit > 0 => total["Withdraw"] + Amount(r) <= DayCredit
    /\ DayCredit > 0 /\ Counted = {"Withdraw"} => times["Withdraw"] # DayTimes
    /\ TimesOn /\ DayTimes > 0 => times["Withdraw"] + 1 <= DayTimes

\* A limit of no withdrawals lets nobody through, overlapping or not.
Closed == DayCredit > 0 /\ Counted = {"Withdraw"} /\ DayTimes = 0
LimitInvariant ==
    /\ \A r, q \in Requests : Active(r) /\ Active(q) /\ r # q => r \in overlapped
    /\ \A r \in Requests : Kind(r) = "Withdraw" /\ pc[r] \in AfterLimits =>
         ~Closed /\ (r \notin overlapped => RoomLeft(r))
    /\ Closed => times["Withdraw"] = 0
===============================================================================
