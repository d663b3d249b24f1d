------------------------------ MODULE MemberStore ------------------------------
(***************************************************************************)
(* One member's row and its two cached copies in Redis: `_memberRepo_`,    *)
(* filled by getMember, and `_member_info_`, filled by GET :displayname.   *)
(* Neither has a ttl.  Every handler loads the whole entity from one of    *)
(* the three places and saves the whole entity back, so a field changed in *)
(* between is put back to what the copy holds.                             *)
(*                                                                         *)
(* A field is the number of the write that produced it; only sync and      *)
(* wd_count have values of their own.  A request is a process, an action   *)
(* is one awaited call.                                                    *)
(***************************************************************************)
EXTENDS Naturals

CONSTANTS
    Requests,   \* the HTTP requests about this member
    Offered,    \* the handlers they call, a subset of Kinds
    None,       \* a key that is not in Redis
    Faults      \* TRUE: calls may fail or lose their answer, the process may die

\* The handlers that count a withdrawal: the member's own, the one of its affiliate
\* income, and CutCreditV2, which the operator calls.
Withdrawals == {"Withdraw", "WithdrawAff", "CutCredit"}
\* GetTurn stands for WithTurn, Auto, AutoV2 and PUT of the turn: what they do to the
\* turn is not about the entity.
Kinds == Withdrawals \cup {"WheelBuy", "GetTurn", "PutPassword", "PatchPassword", "PatchStatus",
          "PutMember", "GetInfo", "GetCredit", "Login", "ClearCache", "PostMember", "Import"}
\* The back-office changes that delete cached copies of what they change.
Settings == {"PatchPassword", "PatchStatus", "PutMember"}

ASSUME KindsAssumption == Offered \subseteq Kinds
ASSUME ModeAssumption == Faults \in BOOLEAN

VARIABLES
    kind,       \* what each request does
    pc, reply,
    copy,       \* the entity each handler holds
    row,        \* the members row
    repo,       \* `_memberRepo_${username}`
    info,       \* `_member_info_${username}`
    latest,     \* history: the number of writes of each field
    overlapped, \* history: the requests that ran beside another one
    confirmed,  \* history: the last write of each field that one of the Settings
                \* reported as successful and that ran alone
    answered,   \* history: the last password PUT Password so reported
    torn        \* history: a withdrawal was saved and its cached copy left behind, or
                \* it ran beside another request

storeVars == <<row, repo, info>>
answerVars == <<confirmed, answered>>
historyVars == <<latest, overlapped, answerVars, torn>>
vars == <<kind, pc, reply, copy, storeVars, historyVars>>

AdminFields == {"password", "status", "profile"}
Fields == AdminFields \cup {"token"}
Member == [password : Nat, status : Nat, profile : Nat, token : Nat,
           wd_count : Nat, sync : BOOLEAN]
NoMember == [password |-> 0, status |-> 0, profile |-> 0, token |-> 0,
             wd_count |-> 0, sync |-> FALSE]

Steps == {"info", "repo", "load", "fill", "save", "upsert", "delrepo", "sync", "syncdel",
          "setinfo", "answer", "delinfo"}
Labels == Steps \cup {"idle", "done"}
Active(r) == pc[r] \in Steps

\* What a handler writes into the entity.
Written(k) == CASE k \in {"PutPassword", "PatchPassword"} -> {"password"}
                [] k = "PatchStatus" -> {"status"}
                [] k = "PutMember" -> {"profile"}
                [] k = "Login" -> {"token"}
                [] k = "PostMember" -> {"password", "profile", "token"}
                [] k = "Import" -> {"password", "profile"}
                [] OTHER -> {}

Goto(r, label) == pc' = [pc EXCEPT ![r] = label] /\ UNCHANGED <<reply, answerVars>>
Fail(r) == /\ pc' = [pc EXCEPT ![r] = "done"]
           /\ reply' = [reply EXCEPT ![r] = "error"]
           /\ UNCHANGED answerVars
\* A setting answered with success is one the caller relies on, if no other request
\* ran beside it; m is the entity the handler saved.
Succeed(r, m) ==
    /\ pc' = [pc EXCEPT ![r] = "done"]
    /\ reply' = [reply EXCEPT ![r] = "ok"]
    /\ confirmed' = IF r \in overlapped \/ kind[r] \notin Settings THEN confirmed
                    ELSE [f \in Fields |-> IF f \in Written(kind[r]) THEN m[f] ELSE confirmed[f]]
    /\ answered' = IF r \in overlapped \/ kind[r] # "PutPassword" THEN answered ELSE m.password
-------------------------------------------------------------------------------
(* Loading the entity.                                                     *)

\* The member page and the money handlers look in `_member_info_` first; the
\* back-office changes by id, the login and the import read the row; POST Member loads
\* nothing; the rest call getMember.
FirstStep(k) == CASE k \in Withdrawals \cup {"GetInfo", "WheelBuy"} -> "info"
                  [] k \in {"PatchPassword", "PatchStatus", "Login", "Import"} -> "load"
                  [] k = "PostMember" -> "upsert"
                  [] OTHER -> "repo"

Arrive(r) ==
    /\ pc[r] = "idle"
    /\ \E k \in Offered :
          /\ kind' = [kind EXCEPT ![r] = k]
          /\ Goto(r, FirstStep(k))
          /\ LET beside == {q \in Requests : Active(q)}
             IN /\ overlapped' = IF beside = {} THEN overlapped ELSE overlapped \cup beside \cup {r}
                /\ torn' = (torn \/ \E q \in beside : {k, kind[q]} \cap Withdrawals # {})
    /\ UNCHANGED <<copy, storeVars, latest>>

\* What a handler does first with the entity it loaded.  WithdrawAff does not ask
\* whether the member is synchronised, CutCreditV2 refuses when it is not.
AfterLoad(k, m) ==
    CASE k \in {"GetInfo", "Withdraw", "WheelBuy", "GetTurn"} /\ ~m.sync -> "sync"
      [] k = "GetInfo" /\ m.sync -> "setinfo"
      [] k \in {"WheelBuy", "GetTurn"} /\ m.sync -> "answer"
      [] k = "CutCredit" /\ ~m.sync -> "answer"
      [] k = "GetCredit" -> "answer"
      [] k = "ClearCache" -> "delinfo"
      [] OTHER -> "save"

ReadInfo(r) ==
    /\ pc[r] = "info"
    /\ \/ info = None /\ Goto(r, "repo") /\ UNCHANGED copy
       \/ /\ info # None /\ kind[r] = "GetInfo"
          /\ Succeed(r, info) /\ UNCHANGED copy
       \/ /\ info # None /\ kind[r] \in Withdrawals \cup {"WheelBuy"}
          /\ copy' = [copy EXCEPT ![r] = info]
          /\ Goto(r, AfterLoad(kind[r], info))
    /\ UNCHANGED <<kind, storeVars, latest, overlapped, torn>>

\* getMember: the cached copy, or the row and then the cache.
ReadRepo(r) ==
    /\ pc[r] = "repo"
    /\ \/ repo = None /\ Goto(r, "load") /\ UNCHANGED copy
       \/ /\ repo # None
          /\ copy' = [copy EXCEPT ![r] = repo]
          /\ Goto(r, AfterLoad(kind[r], repo))
    /\ UNCHANGED <<kind, storeVars, latest, overlapped, torn>>

LoadRow(r) ==
    /\ pc[r] = "load"
    /\ copy' = [copy EXCEPT ![r] = row]
    /\ Goto(r, IF kind[r] \in {"PatchPassword", "PatchStatus", "Login", "Import"}
               THEN "save" ELSE "fill")
    /\ UNCHANGED <<kind, storeVars, latest, overlapped, torn>>

FillRepo(r) ==
    /\ pc[r] = "fill"
    /\ repo' = copy[r]
    /\ Goto(r, AfterLoad(kind[r], copy[r]))
    /\ UNCHANGED <<kind, copy, row, info, latest, overlapped, torn>>
-------------------------------------------------------------------------------
(* Saving it.                                                              *)

\* What the requests write next.
Numbered(f, k) == IF f \in Written(k) THEN latest[f] + 1 ELSE latest[f]
Overwritten(m, k) == [f \in DOMAIN m |-> IF f \in Written(k) THEN latest[f] + 1 ELSE m[f]]

\* Mutation: the counter goes the wrong way.
ChangedDown(r) ==
    IF kind[r] \in Withdrawals THEN [copy[r] EXCEPT !.wd_count = @ - 1]
    ELSE Overwritten(copy[r], kind[r])

\* The handler's change to the entity in memory.
Changed(r) ==
    IF kind[r] \in Withdrawals THEN [copy[r] EXCEPT !.wd_count = @ + 1]
    ELSE Overwritten(copy[r], kind[r])

\* Mutation: saveMemberEntity leaves `_memberRepo_` alone.
AfterSaveKeepsRepo(k) ==
    IF k \in {"PutPassword", "Login", "Import"} \cup Withdrawals THEN "done"
    ELSE IF k = "PutMember" THEN "delrepo" ELSE "delinfo"

\* updateMemberPassword, updateTokenMember and saveAll are the saves that delete no
\* key.
AfterSave(k) == IF k \in {"PutPassword", "Login", "Import"} THEN "done" ELSE "delrepo"

\* A withdrawal that is not paid; a login with the wrong password, of a locked member
\* or on another site (validateMember).
MayRefuse(k) == k \in Withdrawals \cup {"Login"}

\* The whole entity goes into the row.
Save(r) ==
    /\ pc[r] = "save"
    /\ LET written == /\ row' = Changed(r)
                      /\ copy' = [copy EXCEPT ![r] = Changed(r)]
                      /\ latest' = [f \in Fields |-> Numbered(f, kind[r])]
       IN \/ /\ written /\ UNCHANGED torn
             /\ IF AfterSave(kind[r]) = "done" THEN Succeed(r, Changed(r))
                ELSE Goto(r, AfterSave(kind[r]))
          \/ Faults /\ written /\ Fail(r) /\ torn' = (torn \/ kind[r] \in Withdrawals)
          \/ (Faults \/ MayRefuse(kind[r])) /\ Fail(r) /\ UNCHANGED <<row, copy, latest, torn>>
    /\ UNCHANGED <<kind, repo, info, overlapped>>

\* POST Member and Migrate overwrite columns of the row in one statement and delete
\* no key.
Upsert(r) ==
    /\ pc[r] = "upsert"
    /\ \/ /\ row' = Overwritten(row, kind[r])
          /\ latest' = [f \in Fields |-> Numbered(f, kind[r])]
          /\ Succeed(r, row') \/ (Faults /\ Fail(r))
       \/ Faults /\ Fail(r) /\ UNCHANGED <<row, latest>>
    /\ UNCHANGED <<kind, copy, repo, info, overlapped, torn>>

\* Mutation: LockUser forgets `_member_info_`.
AfterDeleteLockOnly(k, m) ==
    CASE k \in Withdrawals \cup {"ClearCache", "PatchStatus"} -> "done"
      [] k = "PatchPassword" /\ ~m.sync -> "sync"
      [] OTHER -> "delinfo"

\* Where a handler goes when `_memberRepo_` is gone.
AfterDelete(k, m) ==
    CASE k \in Withdrawals \cup {"ClearCache"} -> "done"
      [] k = "PatchPassword" /\ ~m.sync -> "sync"
      [] OTHER -> "delinfo"

\* saveMember, saveMemberEntity and updateMember delete `_memberRepo_` after the
\* save.  changeStatusRico, for a member that is not synchronised, may fail.
DeleteRepo(r) ==
    /\ pc[r] = "delrepo"
    /\ repo' = None
    /\ \/ IF AfterDelete(kind[r], copy[r]) = "done" THEN Succeed(r, copy[r])
          ELSE Goto(r, AfterDelete(kind[r], copy[r]))
       \/ Faults /\ Fail(r)
    /\ UNCHANGED <<kind, copy, row, info, latest, overlapped, torn>>

\* ClearCache deletes `_memberRepo_` last.
AfterInfo(k) == IF k = "ClearCache" THEN "delrepo" ELSE "done"

DeleteInfo(r) ==
    /\ pc[r] = "delinfo"
    /\ info' = None
    /\ \/ IF AfterInfo(kind[r]) = "done" THEN Succeed(r, copy[r]) ELSE Goto(r, AfterInfo(kind[r]))
       \/ Faults /\ Fail(r)
    /\ UNCHANGED <<kind, copy, row, repo, latest, overlapped, torn>>
-------------------------------------------------------------------------------
(* syncMember, the member page and the surroundings.                       *)

\* The entity is saved again, now with sync = true; the setting, the trial
\* transfers or the turn may fail before that.
SyncSave(r) ==
    /\ pc[r] = "sync"
    /\ \/ /\ copy' = [copy EXCEPT ![r].sync = TRUE]
          /\ row' = [copy[r] EXCEPT !.sync = TRUE]
          /\ Goto(r, "syncdel")
       \/ Fail(r) /\ UNCHANGED <<copy, row>>
    /\ UNCHANGED <<kind, repo, info, latest, overlapped, torn>>

\* Withdraw and WheelBuy refuse after the synchronisation and ask for a reload.
SyncDelete(r) ==
    /\ pc[r] = "syncdel"
    /\ repo' = None
    /\ \/ kind[r] \in {"Withdraw", "WheelBuy"} /\ Fail(r)
       \/ kind[r] = "GetInfo" /\ Goto(r, "setinfo")
       \/ kind[r] = "PatchPassword" /\ Goto(r, "delinfo")
       \/ kind[r] = "GetTurn" /\ Goto(r, "answer")
       \/ Faults /\ Fail(r)
    /\ UNCHANGED <<kind, copy, row, info, latest, overlapped, torn>>

SetInfo(r) ==
    /\ pc[r] = "setinfo"
    /\ info' = copy[r]
    /\ Succeed(r, copy[r])
    /\ UNCHANGED <<kind, copy, row, repo, latest, overlapped, torn>>

\* The rest of a handler that does not change the entity: GET Balance, Credit and
\* Withdraw/:from/:to ask another service about the member, the turn handlers go on
\* with the turn, WheelBuy cuts the wallet, CutCreditV2 refuses.
Answer(r) ==
    /\ pc[r] = "answer"
    /\ pc' = [pc EXCEPT ![r] = "done"]
    /\ \E answer \in IF kind[r] = "CutCredit" THEN {"error"} ELSE {"ok", "error"} :
          reply' = [reply EXCEPT ![r] = answer]
    /\ UNCHANGED <<kind, copy, storeVars, historyVars>>

\* The process dies; the row and Redis keep what they have.
Crash ==
    /\ Faults
    /\ \E r \in Requests : Active(r)
    /\ pc' = [r \in Requests |-> IF Active(r) THEN "done" ELSE pc[r]]
    /\ torn' = (torn \/ \E r \in Requests : kind[r] \in Withdrawals /\ pc[r] = "delrepo")
    /\ UNCHANGED <<kind, reply, copy, storeVars, latest, overlapped, answerVars>>

Rest == (\A r \in Requests : pc[r] = "done") /\ UNCHANGED vars
-------------------------------------------------------------------------------
Init ==
    /\ kind = [r \in Requests |-> None]
    /\ pc = [r \in Requests |-> "idle"]
    /\ reply = [r \in Requests |-> "none"]
    /\ copy = [r \in Requests |-> NoMember]
    /\ row \in {NoMember, [NoMember EXCEPT !.sync = TRUE]}
    /\ repo = None /\ info = None
    /\ latest = [f \in Fields |-> 0]
    /\ confirmed = [f \in Fields |-> 0] /\ answered = 0
    /\ overlapped = {} /\ torn = FALSE

Load(r) == Arrive(r) \/ ReadInfo(r) \/ ReadRepo(r) \/ LoadRow(r) \/ FillRepo(r)
Write(r) == Save(r) \/ Upsert(r) \/ DeleteRepo(r) \/ DeleteInfo(r)
Page(r) == SyncSave(r) \/ SyncDelete(r) \/ SetInfo(r) \/ Answer(r)

Next == (\E r \in Requests : Load(r) \/ Write(r) \/ Page(r)) \/ Crash \/ Rest
Spec == Init /\ [][Next]_vars
-------------------------------------------------------------------------------
(* Properties.                                                             *)

\* Every variable keeps its type.
TypeOK ==
    /\ kind \in [Requests -> Kinds \cup {None}] /\ pc \in [Requests -> Labels]
    /\ reply \in [Requests -> {"none", "ok", "error"}]
    /\ copy \in [Requests -> Member] /\ row \in Member
    /\ repo \in Member \cup {None} /\ info \in Member \cup {None}
    /\ latest \in [Fields -> Nat] /\ confirmed \in [Fields -> Nat]
    /\ answered \in Nat /\ overlapped \subseteq Requests /\ torn \in BOOLEAN

\* A password, a lock or a profile that was answered with success is not put back
\* by a later request that saves an older copy of the entity
\* (member.service.ts:747-756 saves whatever the handler loaded), PUT Password included.
ConfirmedKept == \A f \in AdminFields : row[f] >= confirmed[f]

\* The same of the password that PUT Password answered with success
\* (member.controller.ts:548).
PutPasswordKept == row.password >= answered

\* No cached copy is older than a confirmed change, even while other requests fill it:
\* each back-office change reached both keys it had to delete.
ConfirmedSeen ==
    \A f \in AdminFields : /\ repo # None => repo[f] >= confirmed[f]
                           /\ info # None => info[f] >= confirmed[f]

\* The withdrawal counter of the row never goes back, whichever copy is saved
\* (sendWithdrawList, member.service.ts:1210), unless a failure left an old copy
\* between the save and the delete (750-754).
CountNeverDrops == [][row'.wd_count < row.wd_count => torn]_vars
===============================================================================
