------------------------------ MODULE TurnRecord ------------------------------
(***************************************************************************)
(* One member's turn, the betting a promotion demands before a withdrawal: *)
(* the member_turn row and its cached copies `_turn_${username}` and       *)
(* `_member_with_turn_${username}` (no ttl) and `_turn_auto${username}`    *)
(* (5 s), used by GET WdCheck, GET Sync, GET :username, GET WithTurn, GET  *)
(* Auto and AutoV2, GET SupportSetMinturn and PUT of                       *)
(* member.turn.controller.ts.  A request is a process, an action is one    *)
(* awaited call.                                                           *)
(*                                                                         *)
(* A turn is the number of the PUT that wrote it, the turnover it demands, *)
(* and min_turn, what WdCheck and Withdraw look at.  Game types are left   *)
(* out: a turn demands one turnover.                                       *)
(***************************************************************************)
EXTENDS Naturals

CONSTANTS
    Requests,   \* the HTTP requests about this member
    Offered,    \* the handlers they call, a subset of Kinds
    Inputs,     \* what PUT may be sent: target and min_turn, or None for a field left out
    None,       \* a key not in Redis, a row not in the table, a field not sent
    Faults,     \* TRUE: calls may fail, the process may die
    MaxBet      \* bound on the turnover of the member

Kinds == {"WdCheck", "Sync", "GetTurn", "WithTurn", "Auto", "SetMin", "Put"}

ASSUME KindsAssumption == Offered \subseteq Kinds
ASSUME NumbersAssumption == MaxBet \in Nat
ASSUME ModeAssumption == Faults \in BOOLEAN

VARIABLES
    kind, pc, reply,
    creating,   \* the lookup under way is the one of createTurnV2
    unsynced,   \* the member was not synchronised when the handler loaded it
    copy,       \* the turn each handler holds
    row,        \* the member_turn row
    cache,      \* `_turn_${username}`
    with,       \* `_member_with_turn_${username}`
    auto,       \* `_turn_auto${username}`
    synced,     \* member.sync
    bet,        \* turnover since the last deposit, as ALL_WINLOSE reports it
    today,      \* turnover of the day, in which the behaviour takes place
    most,       \* history: the most that bet has been since the last PUT, or a report has
                \* counted that did not find the deposit
    latest,     \* history: the number of the last PUT that wrote the row
    demand,     \* history: the turnover that turn demands
    waived,     \* history: the last PUT that saved, or SupportSetMinturn gave, a min_turn of 0
    overlapped, \* history: the requests that ran beside another one
    answered,   \* history: the last PUT has been answered with its new turn
    confirmed,  \* history: the last PUT that was answered so and ran alone
    late        \* history: the requests that arrived after the answer of the last PUT

putVars == <<latest, demand, answered, confirmed>>
historyVars == <<putVars, waived, overlapped, late>>
viewVars == <<with, auto>>
betVars == <<bet, today, most>>
localVars == <<creating, unsynced>>
vars == <<kind, pc, reply, localVars, copy, row, cache, viewVars, synced, betVars, historyVars>>

Turn == [version : Nat, target : Nat, min : Nat]
NewTurn == [version |-> 0, target |-> 0, min |-> 0]

ASSUME NoneAssumption == None \notin Turn
ASSUME InputsAssumption == Inputs \subseteq [target : Nat \cup {None}, min : Nat \cup {None}]

Steps == {"with", "auto", "drop", "cache", "row", "fill", "insert", "setcache", "setwith",
          "gather", "setauto", "winlose", "clearwith", "clear", "save", "write", "dropwith",
          "dropnew", "setnew"}
Labels == Steps \cup {"idle", "done"}
Active(r) == pc[r] \in Steps

Goto(r, label) == pc' = [pc EXCEPT ![r] = label] /\ UNCHANGED reply
Answer(r, what) == /\ pc' = [pc EXCEPT ![r] = "done"]
                   /\ reply' = [reply EXCEPT ![r] = what]
-------------------------------------------------------------------------------
(* getMemberTurn and createTurnV2.                                         *)

FirstStep(k) == CASE k = "SetMin" -> "drop"
                  [] k = "WithTurn" -> "with"
                  [] k = "Auto" -> "auto"
                  [] OTHER -> "cache"

\* The handler loads the member: one that is not synchronised gets a turn first;
\* Sync asks for one always.
LoadMember(r, k) ==
    /\ unsynced' = [unsynced EXCEPT ![r] = ~synced]
    /\ creating' = [creating EXCEPT ![r] = k = "Sync" \/ (~synced /\ k # "SetMin")]

Arrive(r) ==
    /\ pc[r] = "idle"
    /\ LET beside == {q \in Requests : Active(q)}
       IN overlapped' = IF beside = {} THEN overlapped ELSE overlapped \cup beside \cup {r}
    /\ late' = IF answered THEN late \cup {r} ELSE late
    /\ \E k \in Offered :
          /\ kind' = [kind EXCEPT ![r] = k]
          /\ IF k \in {"WithTurn", "Auto"} THEN UNCHANGED localVars ELSE LoadMember(r, k)
          /\ Goto(r, FirstStep(k)) \/ Answer(r, "error")
    /\ UNCHANGED <<copy, row, cache, viewVars, synced, betVars, putVars, waived>>

\* GET WithTurn and GET Auto answer from a copy of their own, if there is one.
ReadWith(r) ==
    /\ pc[r] = "with"
    /\ \/ /\ with # None
          /\ copy' = [copy EXCEPT ![r] = with]
          /\ Answer(r, "ok") /\ UNCHANGED localVars
       \/ /\ with = None /\ LoadMember(r, kind[r])
          /\ Goto(r, "cache") \/ Answer(r, "error")
          /\ UNCHANGED copy
    /\ UNCHANGED <<kind, row, cache, viewVars, synced, betVars, historyVars>>

ReadAuto(r) ==
    /\ pc[r] = "auto"
    /\ \/ /\ auto # None
          /\ copy' = [copy EXCEPT ![r] = auto]
          /\ Answer(r, "recent") /\ UNCHANGED localVars
       \/ /\ auto = None /\ LoadMember(r, kind[r])
          /\ Goto(r, "cache") \/ Answer(r, "error")
          /\ UNCHANGED copy
    /\ UNCHANGED <<kind, row, cache, viewVars, synced, betVars, historyVars>>

\* SupportSetMinturn deletes the cached turn before it looks.
DropCache(r) ==
    /\ pc[r] = "drop"
    /\ cache' = None
    /\ Goto(r, "cache")
    /\ UNCHANGED <<kind, localVars, copy, row, viewVars, synced, betVars, historyVars>>

\* What a handler does with the turn it has got.
UseTurn(r, t) ==
    /\ copy' = [copy EXCEPT ![r] = IF kind[r] = "SetMin" THEN [t EXCEPT !.min = 0] ELSE t]
    /\ CASE kind[r] = "GetTurn" -> IF unsynced[r] THEN Goto(r, "setcache") ELSE Answer(r, "ok")
         [] kind[r] = "WithTurn" -> IF unsynced[r] THEN Goto(r, "setwith") ELSE Answer(r, "ok")
         [] kind[r] = "Auto" -> Goto(r, "gather")
         [] kind[r] = "WdCheck" -> IF t.min = 0 THEN Answer(r, "ok") ELSE Goto(r, "winlose")
         [] kind[r] = "Sync" -> Goto(r, "winlose")
         [] kind[r] = "SetMin" -> Goto(r, "clearwith")
         [] kind[r] = "Put" -> Goto(r, "write")

\* syncMember marks the member before these handlers look for the turn again.
Found(r, t) ==
    IF kind[r] \in {"Put", "WithTurn", "Auto"} /\ creating[r] /\ unsynced[r]
    THEN /\ synced' = TRUE /\ UNCHANGED unsynced
         /\ creating' = [creating EXCEPT ![r] = FALSE]
         /\ Goto(r, "cache") /\ UNCHANGED copy
    ELSE UseTurn(r, t) /\ UNCHANGED <<synced, localVars>>

ReadCache(r) ==
    /\ pc[r] = "cache"
    /\ IF cache # None THEN Found(r, cache)
       ELSE Goto(r, "row") /\ UNCHANGED <<copy, synced, localVars>>
    /\ UNCHANGED <<kind, row, cache, viewVars, betVars, historyVars>>

\* Mutation: getMemberTurn caches what the query returned, found or not.
ReadRowUntested(r) ==
    /\ pc[r] = "row"
    /\ copy' = [copy EXCEPT ![r] = row] /\ Goto(r, "fill")
    /\ UNCHANGED <<kind, localVars, row, cache, viewVars, synced, betVars, historyVars>>

\* A missing turn is created by createTurnV2; the handlers that read then call that,
\* the others fail (SetMin and WdCheck dereference null, PUT answers 404).
ReadRow(r) ==
    /\ pc[r] = "row"
    /\ \/ row # None /\ copy' = [copy EXCEPT ![r] = row] /\ Goto(r, "fill") /\ UNCHANGED creating
       \/ row = None /\ creating[r] /\ Goto(r, "insert") /\ UNCHANGED <<copy, creating>>
       \/ /\ row = None /\ ~creating[r] /\ kind[r] \in {"GetTurn", "WithTurn", "Auto"}
          /\ creating' = [creating EXCEPT ![r] = TRUE]
          /\ Goto(r, "cache") /\ UNCHANGED copy
       \/ /\ row = None /\ ~creating[r] /\ kind[r] \in {"WdCheck", "SetMin", "Put"}
          /\ Answer(r, "error") /\ UNCHANGED <<copy, creating>>
       \/ Faults /\ Answer(r, "error") /\ UNCHANGED <<copy, creating>>
    /\ UNCHANGED <<kind, unsynced, row, cache, viewVars, synced, betVars, historyVars>>

FillCache(r) ==
    /\ pc[r] = "fill"
    /\ cache' = copy[r]
    /\ Found(r, copy[r])
    /\ UNCHANGED <<kind, row, viewVars, betVars, historyVars>>

\* member_turn.username is unique.
InsertTurn(r) ==
    /\ pc[r] = "insert"
    /\ \/ row = None /\ row' = NewTurn /\ Found(r, NewTurn)
       \/ (row # None \/ Faults) /\ Answer(r, "error") /\ UNCHANGED <<row, copy, synced, localVars>>
    /\ UNCHANGED <<kind, cache, viewVars, betVars, historyVars>>

\* GET :username caches what createTurnV2 returned.
SetCache(r) ==
    /\ pc[r] = "setcache"
    /\ cache' = copy[r]
    /\ Answer(r, "ok")
    /\ UNCHANGED <<kind, localVars, copy, row, viewVars, synced, betVars, historyVars>>

\* GET WithTurn caches it under a key of its own, for the next callers.
SetWith(r) ==
    /\ pc[r] = "setwith"
    /\ with' = copy[r]
    /\ Answer(r, "ok")
    /\ UNCHANGED <<kind, localVars, copy, row, cache, auto, synced, betVars, historyVars>>

\* getIPdata, getBalanceV2 and getWinloseForSync, one after another.
Gather(r) ==
    /\ pc[r] = "gather"
    /\ Goto(r, "setauto") \/ Answer(r, "error")
    /\ UNCHANGED <<kind, localVars, copy, row, cache, viewVars, synced, betVars, historyVars>>

SetAuto(r) ==
    /\ pc[r] = "setauto"
    /\ auto' = copy[r]
    /\ Answer(r, "ok")
    /\ UNCHANGED <<kind, localVars, copy, row, cache, with, synced, betVars, historyVars>>

\* The 5 s of `_turn_auto` are over.
ExpireAuto ==
    /\ auto # None /\ auto' = None
    /\ UNCHANGED <<kind, pc, reply, localVars, copy, row, cache, with, synced, betVars, historyVars>>
-------------------------------------------------------------------------------
(* min_turn: what is left of the demand.                                   *)

\* Mutation: the difference the other way round.
RemainingSwapped(target, turnover) == IF turnover > target THEN turnover - target ELSE 0

\* calculateTurnDiff and Math.min over one game type; below zero counts as zero.
Remaining(target, turnover) == IF target > turnover THEN target - turnover ELSE 0

Larger(m, n) == IF m > n THEN m ELSE n

\* What a report may count: the turnover since the deposit; that of the day, when the
\* deposit is not found; for Sync nothing, without a deposit or without a report.
Reports(k) == {bet} \cup (IF Faults THEN {today} ELSE {}) \cup (IF k = "Sync" THEN {0} ELSE {})

\* getWinlose and getWinloseForSync.
AskWinlose(r) ==
    /\ pc[r] = "winlose"
    /\ \/ /\ \E counted \in Reports(kind[r]) :
               /\ copy' = [copy EXCEPT ![r].min = Remaining(copy[r].target, counted)]
               /\ most' = Larger(most, counted)
          /\ Goto(r, IF kind[r] = "Sync" THEN "write" ELSE "clearwith")
       \/ (kind[r] = "WdCheck" \/ Faults) /\ Answer(r, "error") /\ UNCHANGED <<copy, most>>
    /\ UNCHANGED <<kind, localVars, row, cache, viewVars, synced, bet, today, historyVars>>

\* saveMemberTurn: the cached turns go before the row is saved.
ClearWith(r) ==
    /\ pc[r] = "clearwith"
    /\ with' = None
    /\ Goto(r, "clear")
    /\ UNCHANGED <<kind, localVars, copy, row, cache, auto, synced, betVars, historyVars>>

ClearCache(r) ==
    /\ pc[r] = "clear"
    /\ cache' = None
    /\ Goto(r, "save")
    /\ UNCHANGED <<kind, localVars, copy, row, viewVars, synced, betVars, historyVars>>

SaveTurn(r) ==
    /\ pc[r] = "save"
    /\ \/ /\ row' = copy[r]
          /\ waived' = IF kind[r] = "SetMin" THEN copy[r].version ELSE waived
          /\ Answer(r, IF copy[r].min = 0 THEN "ok" ELSE "error")
       \/ Faults /\ Answer(r, "error") /\ UNCHANGED <<row, waived>>
    /\ UNCHANGED <<kind, localVars, copy, cache, viewVars, synced, betVars, putVars, overlapped, late>>
-------------------------------------------------------------------------------
(* updateMemberTurn: save, delete both, set; an error is swallowed and the *)
(* handler answers 200 with nothing in it.                                 *)

\* Mutation: only the turn's own key is deleted.
AfterWriteOwnKey(k) == "dropnew"

\* Where Sync and PUT go when the row is saved.
AfterWrite(k) == "dropwith"

\* { ...member_turn, ...input }: every field is optional, one that is not sent is kept.
Merged(t, input) ==
    [version |-> latest + 1,
     target |-> IF input.target = None THEN t.target ELSE input.target,
     min |-> IF input.min = None THEN t.min ELSE input.min]

Write(r) ==
    /\ pc[r] = "write"
    /\ \/ /\ kind[r] = "Sync" /\ row' = copy[r]
          /\ Goto(r, AfterWrite("Sync"))
          /\ UNCHANGED <<copy, most, latest, demand, waived, answered, late>>
       \/ /\ kind[r] = "Put"
          /\ \E input \in Inputs :
               LET new == Merged(copy[r], input)
               IN /\ row' = new /\ copy' = [copy EXCEPT ![r] = new] /\ demand' = new.target
                  /\ waived' = IF new.min = 0 THEN new.version ELSE waived
          /\ latest' = latest + 1 /\ most' = bet /\ answered' = FALSE /\ late' = {}
          /\ Goto(r, AfterWrite("Put"))
       \/ Faults /\ Answer(r, "empty")
          /\ UNCHANGED <<row, copy, most, latest, demand, waived, answered, late>>
    /\ UNCHANGED <<kind, localVars, cache, viewVars, synced, bet, today, confirmed, overlapped>>

DropWith(r) ==
    /\ pc[r] = "dropwith"
    /\ \/ with' = None /\ Goto(r, "dropnew")
       \/ Faults /\ Answer(r, "empty") /\ UNCHANGED with
    /\ UNCHANGED <<kind, localVars, copy, row, cache, auto, synced, betVars, historyVars>>

\* The caller of a PUT relies on its turn, if no other request ran beside it.
Answered(r) ==
    IF kind[r] # "Put" THEN UNCHANGED <<answered, confirmed>>
    ELSE /\ answered' = (answered \/ copy[r].version = latest)
         /\ confirmed' = IF r \in overlapped THEN confirmed ELSE copy[r].version

\* Mutation: an error of Redis is ignored and the caller gets its turn.
DropNewIgnored(r) ==
    /\ pc[r] = "dropnew"
    /\ \/ cache' = None /\ Goto(r, "setnew") /\ UNCHANGED <<answered, confirmed>>
       \/ Faults /\ Answer(r, "ok") /\ Answered(r) /\ UNCHANGED cache
    /\ UNCHANGED <<kind, localVars, copy, row, viewVars, synced, betVars, latest, demand, waived,
                   overlapped, late>>

DropNew(r) ==
    /\ pc[r] = "dropnew"
    /\ \/ cache' = None /\ Goto(r, "setnew")
       \/ Faults /\ Answer(r, "empty") /\ UNCHANGED cache
    /\ UNCHANGED <<kind, localVars, copy, row, viewVars, synced, betVars, historyVars>>

SetNew(r) ==
    /\ pc[r] = "setnew"
    /\ \/ cache' = copy[r] /\ Answer(r, "ok") /\ Answered(r)
       \/ Faults /\ Answer(r, "empty") /\ UNCHANGED <<cache, answered, confirmed>>
    /\ UNCHANGED <<kind, localVars, copy, row, viewVars, synced, betVars, latest, demand, waived,
                   overlapped, late>>
-------------------------------------------------------------------------------
Bet == /\ today < MaxBet
       /\ bet' = bet + 1 /\ today' = today + 1
       /\ most' = Larger(most, bet + 1)
       /\ UNCHANGED <<kind, pc, reply, localVars, copy, row, cache, viewVars, synced, historyVars>>

\* A deposit, after which betting counts anew.
Deposit == /\ bet > 0 /\ bet' = 0
           /\ UNCHANGED <<kind, pc, reply, localVars, copy, row, cache, viewVars, synced, today, most,
                          historyVars>>

\* The process dies; the row and Redis keep what they have.
Crash ==
    /\ Faults
    /\ \E r \in Requests : Active(r)
    /\ pc' = [r \in Requests |-> IF Active(r) THEN "done" ELSE pc[r]]
    /\ UNCHANGED <<kind, reply, localVars, copy, row, cache, viewVars, synced, betVars, historyVars>>

Rest == (\A r \in Requests : pc[r] = "done") /\ UNCHANGED vars

Init ==
    /\ kind = [r \in Requests |-> None]
    /\ pc = [r \in Requests |-> "idle"] /\ reply = [r \in Requests |-> "none"]
    /\ creating = [r \in Requests |-> FALSE] /\ unsynced = [r \in Requests |-> FALSE]
    /\ copy = [r \in Requests |-> NewTurn]
    /\ row \in {None, NewTurn} /\ cache = None /\ with = None /\ auto = None
    /\ synced \in BOOLEAN
    /\ bet = 0 /\ today = 0 /\ most = 0 /\ latest = 0 /\ demand = 0 /\ waived = 0
    /\ overlapped = {} /\ answered = TRUE /\ confirmed = 0 /\ late = {}

Lookup(r) == \/ Arrive(r) \/ DropCache(r) \/ ReadCache(r) \/ ReadRow(r) \/ FillCache(r)
             \/ InsertTurn(r) \/ SetCache(r)
View(r) == ReadWith(r) \/ ReadAuto(r) \/ SetWith(r) \/ Gather(r) \/ SetAuto(r)
Check(r) == AskWinlose(r) \/ ClearWith(r) \/ ClearCache(r) \/ SaveTurn(r)
Update(r) == Write(r) \/ DropWith(r) \/ DropNew(r) \/ SetNew(r)

Next == \/ \E r \in Requests : Lookup(r) \/ View(r) \/ Check(r) \/ Update(r)
        \/ ExpireAuto \/ Bet \/ Deposit \/ Crash \/ Rest
Spec == Init /\ [][Next]_vars
-------------------------------------------------------------------------------
(* Properties.                                                             *)

\* Every variable keeps its type.
TypeOK ==
    /\ kind \in [Requests -> Kinds \cup {None}] /\ pc \in [Requests -> Labels]
    /\ reply \in [Requests -> {"none", "ok", "recent", "empty", "error"}]
    /\ creating \in [Requests -> BOOLEAN] /\ unsynced \in [Requests -> BOOLEAN]
    /\ {with, auto} \subseteq Turn \cup {None} /\ copy \in [Requests -> Turn]
    /\ row \in Turn \cup {None} /\ cache \in Turn \cup {None}
    /\ synced \in BOOLEAN /\ {bet, most} \subseteq Nat /\ today \in 0..MaxBet
    /\ {latest, demand, waived, confirmed} \subseteq Nat /\ answered \in BOOLEAN
    /\ overlapped \subseteq Requests /\ late \subseteq Requests

\* A turn that PUT answered with, and no request beside it, is neither lost from the row
\* nor hidden by an older copy under either key, however the requests after it overlap
\* (updateMemberTurn, member.turn.service.ts:116-134, against the save of a turn loaded
\* earlier, 135-141).
ConfirmedTurnKept ==
    /\ confirmed > 0 => row # None /\ row.version >= confirmed
    /\ cache # None => cache.version >= confirmed
    /\ with # None => with.version >= confirmed

\* What the last turn demands has been bet since the deposit, as far as the reports
\* found it, or the PUT itself or the support has saved that nothing is left of it.
DemandMet == most >= demand \/ waived = latest

Passes(r) == kind[r] = "WdCheck" /\ reply[r] = "none" /\ reply'[r] = "ok"

\* WdCheck lets a member withdraw only when the demand of the last turn is met
\* (member.turn.controller.ts:256), if the PUT of that turn was confirmed; checks, syncs
\* and lookups may overlap.
PassMeansMet == [][\A r \in Requests : Passes(r) /\ confirmed = latest => DemandMet]_vars

\* The same of every check that comes after the answer of the last PUT, also when
\* another request ran beside that PUT.
AnsweredMeansMet == [][\A r \in Requests : Passes(r) /\ r \in late => DemandMet]_vars

\* GET :username and GET WithTurn never show a turn older than a confirmed one, from
\* whichever of the two keys they answer (updateMemberTurn deletes both,
\* member.turn.service.ts:121-125); only the 5 s copy of GET Auto may lag.
AnswersAreConfirmed ==
    [][\A r \in Requests :
         /\ kind[r] \in {"GetTurn", "WithTurn", "Auto"}
         /\ reply[r] = "none" /\ reply'[r] = "ok"
         => copy'[r].version >= confirmed]_vars
===============================================================================
