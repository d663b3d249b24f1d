--------------------------- MODULE MemberStoreProofs ---------------------------
(***************************************************************************)
(* Proofs about MemberStore, for any number of requests in any order, with *)
(* and without failures: type correctness; that a confirmed change is kept *)
(* and seen; and that the withdrawal counter never goes back unless a      *)
(* withdrawal was torn.                                                    *)
(***************************************************************************)
EXTENDS MemberStore, TLAPS

USE DEF answerVars, Withdrawals

\* Saving what a handler holds yields an entity, of which sync and wd_count stay.
LEMMA OverwrittenType ==
    ASSUME NEW m \in Member, latest \in [Fields -> Nat], NEW k
    PROVE  /\ Overwritten(m, k) \in Member
           /\ Overwritten(m, k).sync = m.sync /\ Overwritten(m, k).wd_count = m.wd_count
           /\ \A f \in Fields : Overwritten(m, k)[f] =
                IF f \in Written(k) THEN latest[f] + 1 ELSE m[f]
<1> DEFINE new == Overwritten(m, k)
<1>1. DOMAIN m = {"password", "status", "profile", "token", "wd_count", "sync"}
  BY DEF Member
<1>2. new = [f \in {"password", "status", "profile", "token", "wd_count", "sync"} |->
               IF f \in Written(k) THEN latest[f] + 1 ELSE m[f]]
  BY <1>1 DEF Overwritten
<1>3. "wd_count" \notin Written(k) /\ "sync" \notin Written(k)
  BY DEF Written
<1>4. new = [password |-> new["password"], status |-> new["status"],
             profile |-> new["profile"], token |-> new["token"],
             wd_count |-> new["wd_count"], sync |-> new["sync"]]
  BY <1>2
<1>5. \A f \in Fields : new[f] = IF f \in Written(k) THEN latest[f] + 1 ELSE m[f]
  BY <1>2 DEF Fields, AdminFields
<1>6. new["wd_count"] = m.wd_count /\ new["sync"] = m.sync
  BY <1>2, <1>3
<1>7. \A f \in Fields : new[f] \in Nat
  BY <1>5 DEF Fields, AdminFields, Member
<1>8. new \in Member
  BY <1>4, <1>6, <1>7 DEF Member, Fields, AdminFields
<1> QED BY <1>5, <1>6, <1>8

\* What a request saves.
LEMMA ChangedType ==
    ASSUME TypeOK, NEW r \in Requests
    PROVE  /\ Changed(r) \in Member
           /\ Changed(r).sync = copy[r].sync
           /\ Changed(r).wd_count = IF kind[r] \in Withdrawals THEN copy[r].wd_count + 1
                                    ELSE copy[r].wd_count
           /\ \A f \in Fields : Changed(r)[f] =
                IF f \in Written(kind[r]) THEN latest[f] + 1 ELSE copy[r][f]
<1>1. copy[r] \in Member /\ latest \in [Fields -> Nat]
  BY DEF TypeOK
<1>2. CASE kind[r] \in Withdrawals
  <2>1. Changed(r) = [copy[r] EXCEPT !.wd_count = @ + 1] /\ Written(kind[r]) = {}
    BY <1>2 DEF Changed, Written
  <2> QED BY <1>1, <1>2, <2>1 DEF Member, Fields, AdminFields
<1>3. CASE kind[r] \notin Withdrawals
  BY <1>1, <1>3, OverwrittenType DEF Changed
<1> QED BY <1>2, <1>3

\* The written fields are numbered, the others keep their number.
LEMMA NumberedType ==
    ASSUME latest \in [Fields -> Nat], NEW k
    PROVE  [f \in Fields |-> Numbered(f, k)] \in [Fields -> Nat]
  BY DEF Numbered
-------------------------------------------------------------------------------
(* Types.                                                                  *)

LEMMA TypeInit == Init => TypeOK
<1>1. NoMember \in Member /\ [NoMember EXCEPT !.sync = TRUE] \in Member
  BY DEF NoMember, Member
<1>2. Init => row \in Member
  BY <1>1 DEF Init
<1>3. Init => /\ pc \in [Requests -> Labels] /\ reply \in [Requests -> {"none", "ok", "error"}]
              /\ kind \in [Requests -> Kinds \cup {None}]
  BY DEF Init, Labels
<1>4. Init => latest \in [Fields -> Nat] /\ confirmed \in [Fields -> Nat]
  BY DEF Init
<1>5. Init => copy \in [Requests -> Member]
  BY <1>1 DEF Init
<1>6. Init => /\ repo \in Member \cup {None} /\ info \in Member \cup {None}
              /\ overlapped \subseteq Requests /\ torn \in BOOLEAN
  BY DEF Init
<1>7. Init => answered \in Nat
  BY DEF Init
<1> QED BY <1>2, <1>3, <1>4, <1>5, <1>6, <1>7 DEF TypeOK

\* The answer of a request: what Goto, Fail and Succeed leave.
LEMMA AnswerType ==
    ASSUME TypeOK, NEW r \in Requests, NEW m \in Member,
           \/ \E label \in Labels : Goto(r, label)
           \/ Fail(r) \/ Succeed(r, m)
    PROVE  /\ pc' \in [Requests -> Labels] /\ reply' \in [Requests -> {"none", "ok", "error"}]
           /\ confirmed' \in [Fields -> Nat] /\ answered' \in Nat
<1>1. \A f \in Fields : m[f] \in Nat
  BY DEF Member, Fields, AdminFields
<1>2. m.password \in Nat
  BY DEF Member
<1> QED BY <1>1, <1>2 DEF TypeOK, Goto, Fail, Succeed, Labels

LEMMA LabelsOfHandlers ==
    ASSUME NEW k, NEW m
    PROVE  /\ FirstStep(k) \in Labels /\ AfterLoad(k, m) \in Labels /\ AfterSave(k) \in Labels
           /\ AfterDelete(k, m) \in Labels /\ AfterInfo(k) \in Labels /\ Steps \subseteq Labels
  BY DEF FirstStep, AfterLoad, AfterSave, AfterDelete, AfterInfo, Labels, Steps

LEMMA TypeStep == TypeOK /\ [Next]_vars => TypeOK'
<1> SUFFICES ASSUME TypeOK, [Next]_vars PROVE TypeOK'
  OBVIOUS
<1>u. CASE Rest \/ UNCHANGED vars
  BY <1>u DEF Rest, vars, storeVars, historyVars, TypeOK
<1>c. CASE Crash
  BY <1>c DEF Crash, storeVars, TypeOK, Labels
<1>n. ASSUME NEW r \in Requests, Load(r) \/ Write(r) \/ Page(r) PROVE TypeOK'
  <2> USE DEF storeVars
  <2>t. /\ copy[r] \in Member /\ NoMember \in Member
        /\ "done" \in Labels /\ "save" \in Labels /\ "fill" \in Labels /\ "repo" \in Labels
        /\ "load" \in Labels /\ "syncdel" \in Labels /\ "setinfo" \in Labels
        /\ "delinfo" \in Labels /\ "answer" \in Labels
    BY DEF TypeOK, Labels, Steps, Member, NoMember
  <2>1. CASE Arrive(r)
    <3>1. PICK k \in Offered :
            kind' = [kind EXCEPT ![r] = k] /\ Goto(r, FirstStep(k))
            /\ LET beside == {q \in Requests : Active(q)}
               IN /\ overlapped' = IF beside = {} THEN overlapped
                                   ELSE overlapped \cup beside \cup {r}
                  /\ torn' = (torn \/ \E q \in beside : {k, kind[q]} \cap Withdrawals # {})
      BY <2>1 DEF Arrive
    <3>2. FirstStep(k) \in Labels
      BY LabelsOfHandlers
    <3>3. /\ pc' \in [Requests -> Labels] /\ reply' \in [Requests -> {"none", "ok", "error"}]
          /\ confirmed' \in [Fields -> Nat] /\ answered' \in Nat
      BY <2>t, <3>1, <3>2, AnswerType
    <3>4. kind' \in [Requests -> Kinds \cup {None}]
      BY <3>1, KindsAssumption DEF TypeOK
    <3>5. overlapped' \subseteq Requests /\ torn' \in BOOLEAN
      BY <3>1 DEF TypeOK
    <3> QED BY <2>1, <3>3, <3>4, <3>5 DEF Arrive, TypeOK
  <2>2. CASE ReadInfo(r)
    <3>1. /\ pc' \in [Requests -> Labels] /\ reply' \in [Requests -> {"none", "ok", "error"}]
          /\ confirmed' \in [Fields -> Nat] /\ answered' \in Nat
      <4>1. CASE info = None
        BY <2>2, <2>t, <4>1, AnswerType DEF ReadInfo
      <4>2. CASE info # None
        BY <2>2, <2>t, <4>2, AnswerType, LabelsOfHandlers DEF ReadInfo, TypeOK
      <4> QED BY <4>1, <4>2
    <3>2. copy' \in [Requests -> Member]
      BY <2>2 DEF ReadInfo, TypeOK
    <3> QED BY <2>2, <3>1, <3>2 DEF ReadInfo, TypeOK
  <2>3. CASE ReadRepo(r)
    <3>1. \E label \in Labels : Goto(r, label)
      BY <2>3, <2>t, LabelsOfHandlers DEF ReadRepo
    <3>2. copy' \in [Requests -> Member]
      BY <2>3 DEF ReadRepo, TypeOK
    <3> QED BY <2>3, <2>t, <3>1, <3>2, AnswerType DEF ReadRepo, TypeOK
  <2>4. CASE LoadRow(r)
    <3>1. \E label \in Labels : Goto(r, label)
      BY <2>4, <2>t DEF LoadRow
    <3> QED BY <2>4, <2>t, <3>1, AnswerType DEF LoadRow, TypeOK
  <2>5. CASE FillRepo(r)
    <3>1. \E label \in Labels : Goto(r, label)
      BY <2>5, LabelsOfHandlers DEF FillRepo
    <3> QED BY <2>5, <2>t, <3>1, AnswerType DEF FillRepo, TypeOK
  <2>6. CASE Save(r)
    <3>1. Changed(r) \in Member
      BY ChangedType
    <3>2. /\ pc' \in [Requests -> Labels] /\ reply' \in [Requests -> {"none", "ok", "error"}]
          /\ confirmed' \in [Fields -> Nat] /\ answered' \in Nat
      BY <2>6, <2>t, <3>1, AnswerType, LabelsOfHandlers DEF Save
    <3>3. latest' \in [Fields -> Nat]
      BY <2>6, NumberedType DEF Save, TypeOK
    <3>4. row' \in Member /\ copy' \in [Requests -> Member] /\ torn' \in BOOLEAN
      BY <2>6, <3>1 DEF Save, TypeOK
    <3> QED BY <2>6, <3>2, <3>3, <3>4 DEF Save, TypeOK
  <2>7. CASE Upsert(r)
    <3>1. Overwritten(row, kind[r]) \in Member /\ row \in Member
      BY OverwrittenType DEF TypeOK
    <3>2. row' \in Member
      BY <2>7, <3>1 DEF Upsert
    <3>3. /\ pc' \in [Requests -> Labels] /\ reply' \in [Requests -> {"none", "ok", "error"}]
          /\ confirmed' \in [Fields -> Nat] /\ answered' \in Nat
      BY <2>7, <3>1, <3>2, AnswerType DEF Upsert
    <3>4. latest' \in [Fields -> Nat]
      BY <2>7, NumberedType DEF Upsert, TypeOK
    <3> QED BY <2>7, <3>2, <3>3, <3>4 DEF Upsert, TypeOK
  <2>8. CASE DeleteRepo(r)
    <3>1. /\ pc' \in [Requests -> Labels] /\ reply' \in [Requests -> {"none", "ok", "error"}]
          /\ confirmed' \in [Fields -> Nat] /\ answered' \in Nat
      BY <2>8, <2>t, AnswerType, LabelsOfHandlers DEF DeleteRepo
    <3> QED BY <2>8, <3>1 DEF DeleteRepo, TypeOK
  <2>9. CASE DeleteInfo(r)
    <3>1. /\ pc' \in [Requests -> Labels] /\ reply' \in [Requests -> {"none", "ok", "error"}]
          /\ confirmed' \in [Fields -> Nat] /\ answered' \in Nat
      BY <2>9, <2>t, AnswerType, LabelsOfHandlers DEF DeleteInfo
    <3> QED BY <2>9, <3>1 DEF DeleteInfo, TypeOK
  <2>10. CASE SyncSave(r)
    <3>1. /\ pc' \in [Requests -> Labels] /\ reply' \in [Requests -> {"none", "ok", "error"}]
          /\ confirmed' \in [Fields -> Nat] /\ answered' \in Nat
      BY <2>10, <2>t, AnswerType DEF SyncSave
    <3>2. [copy[r] EXCEPT !.sync = TRUE] \in Member
      BY <2>t DEF Member
    <3>3. row' \in Member /\ copy' \in [Requests -> Member]
      <4>1. copy \in [Requests -> Member]
        BY DEF TypeOK
      <4>2. CASE UNCHANGED <<copy, row>>
        BY <4>2 DEF TypeOK
      <4>3. CASE copy' = [copy EXCEPT ![r] = [copy[r] EXCEPT !.sync = TRUE]]
                 /\ row' = [copy[r] EXCEPT !.sync = TRUE]
        BY <3>2, <4>1, <4>3
      <4> QED BY <2>10, <4>2, <4>3 DEF SyncSave
    <3> QED BY <2>10, <3>1, <3>3 DEF SyncSave, TypeOK
  <2>11. CASE SyncDelete(r)
    <3>1. /\ pc' \in [Requests -> Labels] /\ reply' \in [Requests -> {"none", "ok", "error"}]
          /\ confirmed' \in [Fields -> Nat] /\ answered' \in Nat
      BY <2>11, <2>t, AnswerType DEF SyncDelete
    <3> QED BY <2>11, <3>1 DEF SyncDelete, TypeOK
  <2>12. CASE SetInfo(r)
    <3>1. /\ pc' \in [Requests -> Labels] /\ reply' \in [Requests -> {"none", "ok", "error"}]
          /\ confirmed' \in [Fields -> Nat] /\ answered' \in Nat
      BY <2>12, <2>t, AnswerType DEF SetInfo
    <3> QED BY <2>12, <2>t, <3>1 DEF SetInfo, TypeOK
  <2>13. CASE Answer(r)
    BY <2>13, <2>t DEF Answer, historyVars, TypeOK
  <2> QED BY <1>n, <2>1, <2>2, <2>3, <2>4, <2>5, <2>6, <2>7, <2>8, <2>9, <2>10, <2>11, <2>12, <2>13
          DEF Load, Write, Page
<1> QED BY <1>u, <1>c, <1>n DEF Next

\* Every variable keeps its type, however many requests run at once.
THEOREM TypeCorrect == Spec => []TypeOK
  BY TypeInit, TypeStep, PTL DEF Spec
-------------------------------------------------------------------------------
(* What was confirmed is kept.  A setting is confirmed only when it ran    *)
(* alone and has deleted both keys: then every older copy is gone.         *)

Loaded == {"fill", "save", "delrepo", "sync", "syncdel", "setinfo", "delinfo"}

\* An entity that holds no older value than a confirmed one.
Current(m) == \A f \in AdminFields : confirmed[f] <= m[f] /\ m[f] <= latest[f]

\* Two requests in flight know of each other.
Apart == \A q, r \in Requests : Active(q) /\ Active(r) /\ q # r => r \in overlapped

\* Some steps belong to one handler.
Places ==
    \A r \in Requests : Active(r) =>
        /\ kind[r] \in Offered
        /\ pc[r] = "upsert" => kind[r] = "PostMember"
        /\ pc[r] = "setinfo" => kind[r] = "GetInfo"

\* The row, both keys and what the handlers hold are current.
AllCurrent ==
    /\ Current(row) /\ (repo # None => Current(repo)) /\ (info # None => Current(info))
    /\ \A r \in Requests : pc[r] \in Loaded => Current(copy[r])

\* A setting that runs alone has its value in the row, and no `_memberRepo_` at the end.
SettingOf(r) ==
    /\ pc[r] \in {"delrepo", "sync", "syncdel", "delinfo"} =>
         \A f \in AdminFields : row[f] = copy[r][f]
    /\ pc[r] = "delinfo" => repo = None
AloneKeeps == \A r \in Requests :
    Active(r) /\ r \notin overlapped /\ kind[r] \in Settings => SettingOf(r)

KeptInv == TypeOK /\ Apart /\ Places /\ AllCurrent /\ AloneKeeps

LEMMA KeptInit == Init => KeptInv
<1> SUFFICES ASSUME Init PROVE KeptInv
  OBVIOUS
<1>1. \A r \in Requests : ~Active(r) /\ pc[r] \notin Loaded
  BY DEF Init, Active, Steps, Loaded
<1>2. Current(row)
  <2>1. \A f \in AdminFields : row[f] = 0 /\ confirmed[f] = 0 /\ latest[f] = 0
    BY DEF Init, NoMember, AdminFields, Fields
  <2> QED BY <2>1 DEF Current
<1>3. repo = None /\ info = None
  BY DEF Init
<1> QED BY <1>1, <1>2, <1>3, TypeInit DEF KeptInv, Apart, Places, AllCurrent, AloneKeeps

\* A request that is under way leaves the others where they are.
LEMMA OthersStay ==
    ASSUME KeptInv, NEW r \in Requests, Active(r), NEW l \in Labels,
           pc' = [pc EXCEPT ![r] = l], kind' = kind, overlapped' = overlapped,
           l = "upsert" => kind[r] = "PostMember", l = "setinfo" => kind[r] = "GetInfo",
           (l \in Steps /\ r \notin overlapped /\ kind[r] \in Settings) => SettingOf(r)'
    PROVE  Apart' /\ Places' /\ AloneKeeps'
<1>1. pc'[r] = l /\ \A q \in Requests \ {r} : pc'[q] = pc[q]
  BY DEF KeptInv, TypeOK
<1>2. \A q \in Requests : Active(q)' => Active(q)
  BY <1>1 DEF Active
<1>3. Apart'
  BY <1>2 DEF KeptInv, Apart
<1>4. Places'
  BY <1>1, <1>2 DEF KeptInv, Places
<1>5. AloneKeeps'
  <2>1. SUFFICES ASSUME NEW q \in Requests, Active(q)', q \notin overlapped, kind[q] \in Settings
                 PROVE  SettingOf(q)'
    BY DEF AloneKeeps
  <2>2. q = r
    BY <1>2, <2>1 DEF KeptInv, Apart
  <2> QED BY <1>1, <2>1, <2>2 DEF Active
<1> QED BY <1>3, <1>4, <1>5

\* Entities stay current while nothing is written or confirmed and they only move.
LEMMA MovedCurrent ==
    ASSUME KeptInv, UNCHANGED <<latest, confirmed>>, Current(row'),
           repo' # None => Current(repo'), info' # None => Current(info'),
           NEW r \in Requests, \A q \in Requests \ {r} : pc'[q] = pc[q] /\ copy'[q] = copy[q],
           pc'[r] \in Loaded => Current(copy'[r])
    PROVE  AllCurrent'
<1>1. \A m : Current(m) => \A f \in AdminFields : confirmed'[f] <= m[f] /\ m[f] <= latest'[f]
  BY DEF Current
<1>2. \A q \in Requests : pc'[q] \in Loaded => Current(copy'[q])
  BY DEF KeptInv, AllCurrent
<1> QED BY <1>1, <1>2 DEF AllCurrent, Current

LEMMA KeptArrive ==
    ASSUME KeptInv, NEW r \in Requests, Arrive(r)
    PROVE  Apart' /\ Places' /\ AllCurrent' /\ AloneKeeps'
<1> DEFINE beside == {q \in Requests : Active(q)}
<1>1. PICK k \in Offered :
        /\ kind' = [kind EXCEPT ![r] = k] /\ pc' = [pc EXCEPT ![r] = FirstStep(k)]
        /\ overlapped' = IF beside = {} THEN overlapped ELSE overlapped \cup beside \cup {r}
  BY DEF Arrive, Goto
<1>2. /\ kind'[r] = k /\ pc'[r] = FirstStep(k) /\ pc[r] = "idle"
      /\ \A q \in Requests \ {r} : pc'[q] = pc[q] /\ kind'[q] = kind[q]
  BY <1>1 DEF KeptInv, TypeOK, Arrive
<1>3. /\ FirstStep(k) \in {"info", "repo", "load", "upsert"}
      /\ FirstStep(k) = "upsert" => k = "PostMember"
  BY DEF FirstStep
<1>4. \A q \in Requests \ {r} : Active(q)' <=> q \in beside
  BY <1>2 DEF Active
<1>5. Apart'
  <2>1. SUFFICES ASSUME NEW q \in Requests, NEW p \in Requests, Active(q)', Active(p)', q # p
                 PROVE  p \in overlapped'
    BY DEF Apart
  <2>2. beside # {} /\ (p = r \/ p \in beside)
    BY <1>4, <2>1
  <2> QED BY <1>1, <2>2
<1>6. Places'
  BY <1>2, <1>3 DEF KeptInv, Places, Active
<1>7. AllCurrent'
  <2>1. pc'[r] \notin Loaded
    BY <1>2, <1>3 DEF Loaded
  <2>2. UNCHANGED <<latest, confirmed, row, repo, info, copy>>
    BY DEF Arrive, Goto, storeVars
  <2>3. Current(row) /\ (repo # None => Current(repo)) /\ (info # None => Current(info))
    BY DEF KeptInv, AllCurrent
  <2> QED BY <1>2, <2>1, <2>2, <2>3, MovedCurrent
<1>8. AloneKeeps'
  <2>1. SUFFICES ASSUME NEW q \in Requests, Active(q)', q \notin overlapped', kind'[q] \in Settings
                 PROVE  SettingOf(q)'
    BY DEF AloneKeeps
  <2>2. q = r
    BY <1>1, <1>4, <2>1
  <2> QED BY <1>2, <1>3, <2>2 DEF SettingOf
<1> QED BY <1>5, <1>6, <1>7, <1>8

\* The handlers that confirm nothing: not a setting.
LEMMA NotConfirmed ==
    ASSUME NEW r \in Requests, NEW m, kind[r] \notin Settings, Succeed(r, m)
    PROVE  pc' = [pc EXCEPT ![r] = "done"] /\ confirmed' = confirmed
  BY DEF Succeed

\* What is current before a step.
LEMMA CurrentBefore ==
    ASSUME KeptInv, NEW r \in Requests
    PROVE  /\ Current(row) /\ (repo # None => Current(repo)) /\ (info # None => Current(info))
           /\ pc[r] \in Loaded => Current(copy[r])
           /\ \A l : pc' = [pc EXCEPT ![r] = l] =>
                pc'[r] = l /\ \A q \in Requests \ {r} : pc'[q] = pc[q]
           /\ \A m : copy' = [copy EXCEPT ![r] = m] =>
                copy'[r] = m /\ \A q \in Requests \ {r} : copy'[q] = copy[q]
           /\ Active(r) <=> pc[r] \in Steps
           /\ "done" \in Labels /\ "done" \notin Steps /\ Steps \subseteq Labels
  BY DEF KeptInv, AllCurrent, TypeOK, Active, Labels, Steps

LEMMA KeptReadInfo ==
    ASSUME KeptInv, NEW r \in Requests, ReadInfo(r)
    PROVE  Apart' /\ Places' /\ AllCurrent' /\ AloneKeeps'
<1>1. UNCHANGED <<kind, row, repo, info, latest, overlapped>> /\ Active(r)
  BY DEF ReadInfo, storeVars, Active, Steps
<1>2. PICK l \in Labels :
        /\ pc' = [pc EXCEPT ![r] = l] /\ confirmed' = confirmed
        /\ \/ l \in {"repo", "done"} /\ copy' = copy
           \/ /\ info # None /\ copy' = [copy EXCEPT ![r] = info]
              /\ l \in {"sync", "save", "answer"} /\ kind[r] \notin Settings
  <2>1. CASE info = None
    BY <2>1 DEF ReadInfo, Goto, Labels, Steps
  <2>2. CASE info # None /\ kind[r] = "GetInfo" /\ Succeed(r, info) /\ UNCHANGED copy
    BY <2>2 DEF Succeed, Settings, Labels
  <2>3. CASE /\ info # None /\ kind[r] \in Withdrawals \cup {"WheelBuy"}
             /\ copy' = [copy EXCEPT ![r] = info] /\ Goto(r, AfterLoad(kind[r], info))
    BY <2>3 DEF Goto, AfterLoad, Labels, Steps, Settings
  <2> QED BY <2>1, <2>2, <2>3 DEF ReadInfo
<1>3. Apart' /\ Places' /\ AloneKeeps'
  <2>1. l \in Steps /\ kind[r] \in Settings => SettingOf(r)'
    BY <1>2, CurrentBefore DEF SettingOf, Settings
  <2> QED BY <1>1, <1>2, <2>1, OthersStay
<1>4. AllCurrent'
  <2>1. pc'[r] \in Loaded => Current(copy'[r])
    BY <1>1, <1>2, CurrentBefore DEF Loaded
  <2> QED BY <1>1, <1>2, <2>1, CurrentBefore, MovedCurrent
<1> QED BY <1>3, <1>4

LEMMA KeptReadRepo ==
    ASSUME KeptInv, NEW r \in Requests, ReadRepo(r)
    PROVE  Apart' /\ Places' /\ AllCurrent' /\ AloneKeeps'
<1>1. UNCHANGED <<kind, row, repo, info, latest, overlapped, confirmed>> /\ Active(r)
  BY DEF ReadRepo, Goto, storeVars, Active, Steps
<1>2. PICK l \in Labels :
        /\ pc' = [pc EXCEPT ![r] = l]
        /\ \/ l = "load" /\ copy' = copy
           \/ /\ repo # None /\ copy' = [copy EXCEPT ![r] = repo]
              /\ \/ l \in {"sync", "setinfo", "answer", "delinfo"} /\ kind[r] \notin Settings
                 \/ l = "save"
              /\ l = "setinfo" => kind[r] = "GetInfo"
  <2>1. CASE repo = None
    BY <2>1 DEF ReadRepo, Goto, Labels, Steps
  <2>2. CASE repo # None
    BY <2>2 DEF ReadRepo, Goto, AfterLoad, Labels, Steps, Settings
  <2> QED BY <2>1, <2>2
<1>3. Apart' /\ Places' /\ AloneKeeps'
  <2>1. l \in Steps /\ kind[r] \in Settings => SettingOf(r)'
    BY <1>2, CurrentBefore DEF SettingOf
  <2> QED BY <1>1, <1>2, <2>1, OthersStay
<1>4. AllCurrent'
  <2>1. pc'[r] \in Loaded => Current(copy'[r])
    BY <1>1, <1>2, CurrentBefore DEF Loaded
  <2> QED BY <1>1, <1>2, <2>1, CurrentBefore, MovedCurrent
<1> QED BY <1>3, <1>4

LEMMA KeptLoadRow ==
    ASSUME KeptInv, NEW r \in Requests, LoadRow(r)
    PROVE  Apart' /\ Places' /\ AllCurrent' /\ AloneKeeps'
<1>1. /\ UNCHANGED <<kind, row, repo, info, latest, overlapped, confirmed>> /\ Active(r)
      /\ copy' = [copy EXCEPT ![r] = row]
  BY DEF LoadRow, Goto, storeVars, Active, Steps
<1>2. PICK l \in {"save", "fill"} : pc' = [pc EXCEPT ![r] = l]
  BY DEF LoadRow, Goto
<1>3. Apart' /\ Places' /\ AloneKeeps'
  <2>1. SettingOf(r)' /\ l \in Labels
    BY <1>2, CurrentBefore DEF SettingOf, Labels, Steps
  <2> QED BY <1>1, <1>2, <2>1, OthersStay
<1>4. AllCurrent'
  <2>1. /\ pc'[r] \in Loaded => Current(copy'[r])
        /\ \A q \in Requests \ {r} : pc'[q] = pc[q] /\ copy'[q] = copy[q]
    BY <1>1, <1>2, CurrentBefore
  <2>2. Current(row') /\ (repo' # None => Current(repo')) /\ (info' # None => Current(info'))
    BY <1>1, CurrentBefore
  <2> QED BY <1>1, <2>1, <2>2, MovedCurrent
<1> QED BY <1>3, <1>4

LEMMA KeptFillRepo ==
    ASSUME KeptInv, NEW r \in Requests, FillRepo(r)
    PROVE  Apart' /\ Places' /\ AllCurrent' /\ AloneKeeps'
<1>1. /\ UNCHANGED <<kind, copy, row, info, latest, overlapped, confirmed>>
      /\ Active(r) /\ pc[r] \in Loaded /\ repo' = copy[r]
  BY DEF FillRepo, Goto, Active, Steps, Loaded
<1>2. PICK l \in Labels :
        /\ pc' = [pc EXCEPT ![r] = l]
        /\ (l \in {"sync", "setinfo", "answer", "delinfo"} /\ kind[r] \notin Settings) \/ l = "save"
        /\ l = "setinfo" => kind[r] = "GetInfo"
  <2> DEFINE l == AfterLoad(kind[r], copy[r])
  <2>1. pc' = [pc EXCEPT ![r] = l]
    BY DEF FillRepo, Goto
  <2>2. /\ (l \in {"sync", "setinfo", "answer", "delinfo"} /\ kind[r] \notin Settings) \/ l = "save"
        /\ l = "setinfo" => kind[r] = "GetInfo"
    BY DEF AfterLoad, Settings
  <2>3. l \in Labels
    BY LabelsOfHandlers
  <2> QED BY <2>1, <2>2, <2>3
<1>3. Apart' /\ Places' /\ AloneKeeps'
  <2>1. kind[r] \in Settings => SettingOf(r)'
    BY <1>2, CurrentBefore DEF SettingOf
  <2> QED BY <1>1, <1>2, <2>1, OthersStay
<1>4. AllCurrent'
  BY <1>1, <1>2, CurrentBefore, MovedCurrent
<1> QED BY <1>3, <1>4

\* A write numbers its fields anew: what was current stays so.
LEMMA StaysCurrent ==
    ASSUME KeptInv, NEW k, NEW m \in Member, Current(m),
           latest' = [f \in Fields |-> Numbered(f, k)], confirmed' = confirmed
    PROVE  \A f \in AdminFields : confirmed'[f] <= m[f] /\ m[f] <= latest'[f]
<1>1. SUFFICES ASSUME NEW f \in AdminFields PROVE confirmed'[f] <= m[f] /\ m[f] <= latest'[f]
  OBVIOUS
<1>2. latest[f] \in Nat /\ latest'[f] \in {latest[f], latest[f] + 1}
  BY DEF Fields, KeptInv, TypeOK, Numbered
<1>3. m[f] \in Nat
  BY DEF Member, AdminFields
<1> QED BY <1>2, <1>3 DEF Current

\* What it makes of a current entity is current.
LEMMA WrittenCurrent ==
    ASSUME KeptInv, NEW k, NEW m \in Member, Current(m), NEW new,
           \A f \in Fields : new[f] = IF f \in Written(k) THEN latest[f] + 1 ELSE m[f],
           latest' = [f \in Fields |-> Numbered(f, k)], confirmed' = confirmed
    PROVE  \A f \in AdminFields : confirmed'[f] <= new[f] /\ new[f] <= latest'[f]
<1>1. SUFFICES ASSUME NEW f \in AdminFields PROVE confirmed'[f] <= new[f] /\ new[f] <= latest'[f]
  OBVIOUS
<1>2. /\ latest[f] \in Nat /\ confirmed[f] \in Nat
      /\ latest'[f] = IF f \in Written(k) THEN latest[f] + 1 ELSE latest[f]
  BY DEF Fields, KeptInv, TypeOK, Numbered
<1>3. m[f] \in Nat
  BY DEF Member, AdminFields
<1>4. new[f] = IF f \in Written(k) THEN latest[f] + 1 ELSE m[f]
  BY DEF Fields
<1> QED BY <1>2, <1>3, <1>4 DEF Current

\* What a save writes is current, and nothing is confirmed by it.
LEMMA KeptSave ==
    ASSUME KeptInv, NEW r \in Requests, Save(r)
    PROVE  Apart' /\ Places' /\ AllCurrent' /\ AloneKeeps'
<1> DEFINE new == Changed(r)
<1>1. /\ UNCHANGED <<kind, repo, info, overlapped>> /\ Active(r) /\ pc[r] \in Loaded
  BY CurrentBefore DEF Save, Steps, Loaded, KeptInv, Active
<1>2. PICK l \in {"done", "delrepo"} :
        /\ pc' = [pc EXCEPT ![r] = l] /\ confirmed' = confirmed
        /\ \/ /\ row' = new /\ copy' = [copy EXCEPT ![r] = new]
              /\ latest' = [f \in Fields |-> Numbered(f, kind[r])]
           \/ l = "done" /\ UNCHANGED <<row, copy, latest>>
  <2> DEFINE written == /\ row' = new /\ copy' = [copy EXCEPT ![r] = new]
                        /\ latest' = [f \in Fields |-> Numbered(f, kind[r])]
  <2>1. CASE written /\ AfterSave(kind[r]) = "done" /\ Succeed(r, new)
    <3>1. kind[r] \notin Settings
      BY <2>1 DEF AfterSave, Settings
    <3> QED BY <2>1, <3>1 DEF Succeed
  <2>2. CASE written /\ AfterSave(kind[r]) # "done" /\ Goto(r, AfterSave(kind[r]))
    BY <2>2 DEF AfterSave, Goto
  <2>3. CASE written /\ Fail(r)
    BY <2>3 DEF Fail
  <2>4. CASE Fail(r) /\ UNCHANGED <<row, copy, latest>>
    BY <2>4 DEF Fail
  <2> QED BY <2>1, <2>2, <2>3, <2>4 DEF Save
<1>3. Apart' /\ Places' /\ AloneKeeps'
  <2>1. l = "delrepo" => SettingOf(r)'
    BY <1>2, CurrentBefore DEF SettingOf, KeptInv, TypeOK
  <2>2. l \in Labels /\ (l \in Steps => l = "delrepo") /\ l # "upsert" /\ l # "setinfo"
    BY DEF Labels, Steps
  <2> QED BY <1>1, <1>2, <2>1, <2>2, OthersStay
<1>4. CASE UNCHANGED <<row, copy, latest>>
  <2>1. AllCurrent'
    BY <1>1, <1>2, <1>4, CurrentBefore, MovedCurrent
  <2> QED BY <1>3, <2>1
<1>5. CASE /\ row' = new /\ copy' = [copy EXCEPT ![r] = new]
           /\ latest' = [f \in Fields |-> Numbered(f, kind[r])]
  <2>1. copy[r] \in Member /\ Current(copy[r])
    BY <1>1, CurrentBefore DEF KeptInv, TypeOK
  <2>2. \A f \in Fields : new[f] = IF f \in Written(kind[r]) THEN latest[f] + 1 ELSE copy[r][f]
    BY ChangedType DEF KeptInv
  <2>3. /\ \A f \in AdminFields : confirmed'[f] <= new[f] /\ new[f] <= latest'[f]
        /\ \A m \in Member : Current(m) =>
             \A f \in AdminFields : confirmed'[f] <= m[f] /\ m[f] <= latest'[f]
    <3>1. confirmed' = confirmed /\ latest' = [f \in Fields |-> Numbered(f, kind[r])]
      BY <1>2, <1>5
    <3>2. \A m \in Member : Current(m) =>
             \A f \in AdminFields : confirmed'[f] <= m[f] /\ m[f] <= latest'[f]
      BY <3>1, StaysCurrent
    <3> HIDE DEF new
    <3>3. \A f \in AdminFields : confirmed'[f] <= new[f] /\ new[f] <= latest'[f]
      BY <2>1, <2>2, <3>1, WrittenCurrent
    <3> QED BY <3>2, <3>3
  <2>4. /\ repo # None => Current(repo) /\ repo \in Member
        /\ info # None => Current(info) /\ info \in Member
    BY CurrentBefore DEF KeptInv, TypeOK
  <2>5. /\ \A q \in Requests : pc[q] \in Loaded => Current(copy[q]) /\ copy[q] \in Member
        /\ \A q \in Requests \ {r} : pc'[q] = pc[q] /\ copy'[q] = copy[q]
        /\ copy'[r] = new
    <3>1. copy \in [Requests -> Member] /\ pc \in [Requests -> Labels]
      BY DEF KeptInv, TypeOK
    <3>2. \A q \in Requests : pc[q] \in Loaded => Current(copy[q])
      BY CurrentBefore
    <3> HIDE DEF new
    <3> QED BY <1>2, <1>5, <3>1, <3>2
  <2>6. AllCurrent'
    <3>1. Current(row)' /\ (repo' # None => Current(repo)') /\ (info' # None => Current(info)')
      BY <1>1, <1>5, <2>3, <2>4 DEF Current
    <3>2. \A q \in Requests : pc'[q] \in Loaded => Current(copy[q])'
      BY <1>1, <2>3, <2>5 DEF Current
    <3> QED BY <3>1, <3>2 DEF AllCurrent
  <2> QED BY <1>3, <2>6
<1> QED BY <1>2, <1>4, <1>5

LEMMA KeptUpsert ==
    ASSUME KeptInv, NEW r \in Requests, Upsert(r)
    PROVE  Apart' /\ Places' /\ AllCurrent' /\ AloneKeeps'
<1> DEFINE new == Overwritten(row, kind[r])
<1>1. UNCHANGED <<kind, copy, repo, info, overlapped>> /\ Active(r) /\ kind[r] \notin Settings
  BY CurrentBefore DEF Upsert, Steps, KeptInv, Places, Active, Settings
<1>2. /\ pc' = [pc EXCEPT ![r] = "done"] /\ confirmed' = confirmed
      /\ \/ row' = new /\ latest' = [f \in Fields |-> Numbered(f, kind[r])]
         \/ UNCHANGED <<row, latest>>
  BY <1>1 DEF Upsert, Succeed, Fail
<1>3. Apart' /\ Places' /\ AloneKeeps'
  BY <1>1, <1>2, CurrentBefore, OthersStay
<1>4. AllCurrent'
  <2>1. CASE UNCHANGED <<row, latest>>
    BY <1>1, <1>2, <2>1, CurrentBefore, MovedCurrent DEF Loaded
  <2>2. CASE row' = new /\ latest' = [f \in Fields |-> Numbered(f, kind[r])]
    <3>1. row \in Member /\ latest \in [Fields -> Nat] /\ Current(row)
      BY CurrentBefore DEF KeptInv, TypeOK
    <3>2. \A f \in Fields : new[f] = IF f \in Written(kind[r]) THEN latest[f] + 1 ELSE row[f]
      BY <3>1, OverwrittenType
    <3>3. /\ \A f \in AdminFields : confirmed'[f] <= new[f] /\ new[f] <= latest'[f]
          /\ \A m \in Member : Current(m) =>
               \A f \in AdminFields : confirmed'[f] <= m[f] /\ m[f] <= latest'[f]
      <4>1. confirmed' = confirmed /\ latest' = [f \in Fields |-> Numbered(f, kind[r])]
        BY <1>2, <2>2
      <4>2. \A m \in Member : Current(m) =>
               \A f \in AdminFields : confirmed'[f] <= m[f] /\ m[f] <= latest'[f]
        BY <4>1, StaysCurrent
      <4> HIDE DEF new
      <4>3. \A f \in AdminFields : confirmed'[f] <= new[f] /\ new[f] <= latest'[f]
        BY <3>1, <3>2, <4>1, WrittenCurrent
      <4> QED BY <4>2, <4>3
    <3>4. /\ repo # None => Current(repo) /\ repo \in Member
          /\ info # None => Current(info) /\ info \in Member
          /\ \A q \in Requests : /\ pc[q] \in Loaded => Current(copy[q]) /\ copy[q] \in Member
                                 /\ q # r => pc'[q] = pc[q]
          /\ pc'[r] \notin Loaded
      BY <1>2, CurrentBefore DEF KeptInv, TypeOK, Loaded
    <3>5. Current(row)' /\ (repo' # None => Current(repo)') /\ (info' # None => Current(info)')
      BY <1>1, <2>2, <3>3, <3>4 DEF Current
    <3>6. \A q \in Requests : pc'[q] \in Loaded => Current(copy[q])'
      BY <1>1, <3>3, <3>4 DEF Current
    <3> QED BY <3>5, <3>6 DEF AllCurrent
  <2> QED BY <1>2, <2>1, <2>2
<1> QED BY <1>3, <1>4

LEMMA KeptDeleteRepo ==
    ASSUME KeptInv, NEW r \in Requests, DeleteRepo(r)
    PROVE  Apart' /\ Places' /\ AllCurrent' /\ AloneKeeps'
<1>1. /\ UNCHANGED <<kind, copy, row, info, latest, overlapped>> /\ repo' = None
      /\ Active(r) /\ pc[r] \in Loaded /\ pc[r] = "delrepo"
  BY DEF DeleteRepo, Active, Steps, Loaded
<1>2. PICK l \in {"done", "sync", "delinfo"} :
        pc' = [pc EXCEPT ![r] = l] /\ confirmed' = confirmed
  <2> DEFINE a == AfterDelete(kind[r], copy[r])
  <2>1. a \in {"done", "sync", "delinfo"} /\ (a = "done" => kind[r] \notin Settings \/ kind[r] \in Withdrawals)
    BY DEF AfterDelete, Settings
  <2>2. a = "done" => kind[r] \in Withdrawals \cup {"ClearCache"}
    BY DEF AfterDelete
  <2>3. CASE a = "done" /\ Succeed(r, copy[r])
    BY <2>2, <2>3 DEF Succeed, Settings
  <2>4. CASE Goto(r, a)
    BY <2>1, <2>4 DEF Goto
  <2>5. CASE Fail(r)
    BY <2>5 DEF Fail
  <2> QED BY <2>3, <2>4, <2>5 DEF DeleteRepo
<1>3. Apart' /\ Places' /\ AloneKeeps'
  <2>1. l \in Steps /\ r \notin overlapped /\ kind[r] \in Settings => SettingOf(r)'
    BY <1>1, <1>2, CurrentBefore DEF SettingOf, KeptInv, AloneKeeps
  <2>2. l \in Labels /\ l # "upsert" /\ l # "setinfo"
    BY DEF Labels, Steps
  <2> QED BY <1>1, <1>2, <2>1, <2>2, OthersStay
<1>4. AllCurrent'
  BY <1>1, <1>2, CurrentBefore, MovedCurrent
<1> QED BY <1>3, <1>4

\* The one step that confirms: the setting ran alone, so its value is in the row, no
\* key is left and no other request holds an entity.
LEMMA KeptDeleteInfo ==
    ASSUME KeptInv, NEW r \in Requests, DeleteInfo(r)
    PROVE  Apart' /\ Places' /\ AllCurrent' /\ AloneKeeps'
<1>1. /\ UNCHANGED <<kind, copy, row, repo, latest, overlapped>> /\ info' = None
      /\ Active(r) /\ pc[r] \in Loaded /\ pc[r] = "delinfo"
  BY DEF DeleteInfo, Active, Steps, Loaded
<1>2. PICK l \in {"done", "delrepo"} :
        /\ pc' = [pc EXCEPT ![r] = l]
        /\ l = "delrepo" => kind[r] \notin Settings
        /\ \/ confirmed' = confirmed
           \/ /\ l = "done" /\ r \notin overlapped /\ kind[r] \in Settings
              /\ confirmed' = [f \in Fields |-> IF f \in Written(kind[r]) THEN copy[r][f]
                                                ELSE confirmed[f]]
  <2>1. CASE AfterInfo(kind[r]) = "done" /\ Succeed(r, copy[r])
    BY <2>1 DEF Succeed
  <2>2. CASE AfterInfo(kind[r]) # "done" /\ Goto(r, AfterInfo(kind[r]))
    BY <2>2 DEF Goto, AfterInfo, Settings
  <2>3. CASE Fail(r)
    BY <2>3 DEF Fail
  <2> QED BY <2>1, <2>2, <2>3 DEF DeleteInfo
<1>3. Apart' /\ Places' /\ AloneKeeps'
  <2>1. l \in Labels /\ l # "upsert" /\ l # "setinfo" /\ (l \in Steps => kind[r] \notin Settings)
    BY <1>2, CurrentBefore DEF Labels, Steps
  <2> QED BY <1>1, <1>2, <2>1, OthersStay
<1>4. CASE confirmed' = confirmed
  <2>1. AllCurrent'
    BY <1>1, <1>2, <1>4, CurrentBefore, MovedCurrent
  <2> QED BY <1>3, <2>1
<1>5. CASE /\ l = "done" /\ r \notin overlapped /\ kind[r] \in Settings
           /\ confirmed' = [f \in Fields |-> IF f \in Written(kind[r]) THEN copy[r][f]
                                             ELSE confirmed[f]]
  <2>1. SettingOf(r)
    BY <1>1, <1>5 DEF KeptInv, AloneKeeps
  <2>2. repo = None /\ \A f \in AdminFields : row[f] = copy[r][f]
    BY <1>1, <2>1 DEF SettingOf
  <2>3. \A q \in Requests : pc'[q] \notin Loaded
    <3>1. SUFFICES ASSUME NEW q \in Requests PROVE pc'[q] \notin Loaded
      OBVIOUS
    <3>2. q # r => ~Active(q)
      BY <1>1, <1>5 DEF KeptInv, Apart
    <3> QED BY <1>2, <1>5, <3>2, CurrentBefore DEF Loaded, Active, Steps
  <2>4. \A f \in AdminFields : confirmed'[f] \in {copy[r][f], confirmed[f]}
    BY <1>5 DEF Fields
  <2>5. Current(row)'
    <3>1. SUFFICES ASSUME NEW f \in AdminFields
                   PROVE  confirmed'[f] <= row[f] /\ row[f] <= latest[f]
      BY <1>1 DEF Current
    <3>2. confirmed[f] <= row[f] /\ row[f] <= latest[f]
      BY CurrentBefore DEF Current
    <3>3. row[f] \in Nat
      BY DEF KeptInv, TypeOK, Member, AdminFields
    <3> QED BY <2>2, <2>4, <3>2, <3>3
  <2> QED BY <1>1, <1>3, <2>2, <2>3, <2>5 DEF AllCurrent
<1> QED BY <1>2, <1>4, <1>5

LEMMA KeptSyncSave ==
    ASSUME KeptInv, NEW r \in Requests, SyncSave(r)
    PROVE  Apart' /\ Places' /\ AllCurrent' /\ AloneKeeps'
<1> DEFINE new == [copy[r] EXCEPT !.sync = TRUE]
<1>1. /\ UNCHANGED <<kind, repo, info, latest, overlapped>>
      /\ Active(r) /\ pc[r] \in Loaded /\ pc[r] = "sync"
  BY DEF SyncSave, Active, Steps, Loaded
<1>2. PICK l \in {"syncdel", "done"} :
        /\ pc' = [pc EXCEPT ![r] = l] /\ confirmed' = confirmed
        /\ \/ copy' = [copy EXCEPT ![r] = new] /\ row' = new
           \/ l = "done" /\ UNCHANGED <<copy, row>>
  <2>1. CASE copy' = [copy EXCEPT ![r].sync = TRUE] /\ row' = new /\ Goto(r, "syncdel")
    BY <2>1 DEF Goto
  <2>2. CASE Fail(r) /\ UNCHANGED <<copy, row>>
    BY <2>2 DEF Fail
  <2> QED BY <2>1, <2>2 DEF SyncSave
<1>3. copy[r] \in Member /\ copy \in [Requests -> Member]
  BY DEF KeptInv, TypeOK
<1>4. \A f \in AdminFields : new[f] = copy[r][f]
  BY <1>3 DEF AdminFields, Member
<1>5. Current(new)
  BY <1>1, <1>4, CurrentBefore DEF Current
<1> HIDE DEF new
<1>6. copy' = [copy EXCEPT ![r] = new] => copy'[r] = new
  BY <1>3
<1>7. Apart' /\ Places' /\ AloneKeeps'
  <2>1. l = "syncdel" => SettingOf(r)'
    BY <1>2, <1>6, CurrentBefore DEF SettingOf
  <2>2. l \in Labels /\ l # "upsert" /\ l # "setinfo" /\ (l \in Steps => l = "syncdel")
    BY DEF Labels, Steps
  <2> QED BY <1>1, <1>2, <2>1, <2>2, OthersStay
<1>8. AllCurrent'
  <2>1. Current(row') /\ (pc'[r] \in Loaded => Current(copy'[r]))
    BY <1>1, <1>2, <1>5, <1>6, CurrentBefore DEF Loaded
  <2>2. \A q \in Requests \ {r} : pc'[q] = pc[q] /\ copy'[q] = copy[q]
    BY <1>2, CurrentBefore
  <2>3. repo' # None => Current(repo')
    BY <1>1, CurrentBefore
  <2>4. info' # None => Current(info')
    BY <1>1, CurrentBefore
  <2> QED BY <1>1, <1>2, <2>1, <2>2, <2>3, <2>4, MovedCurrent
<1> QED BY <1>7, <1>8

LEMMA KeptSyncDelete ==
    ASSUME KeptInv, NEW r \in Requests, SyncDelete(r)
    PROVE  Apart' /\ Places' /\ AllCurrent' /\ AloneKeeps'
<1>1. /\ UNCHANGED <<kind, copy, row, info, latest, overlapped, confirmed>> /\ repo' = None
      /\ Active(r) /\ pc[r] \in Loaded /\ pc[r] = "syncdel"
  BY DEF SyncDelete, Active, Steps, Loaded, Goto, Fail
<1>2. PICK l \in {"done", "setinfo", "delinfo", "answer"} :
        pc' = [pc EXCEPT ![r] = l] /\ (l = "setinfo" => kind[r] = "GetInfo")
  BY DEF SyncDelete, Goto, Fail
<1>3. Apart' /\ Places' /\ AloneKeeps'
  <2>1. l \in Steps /\ r \notin overlapped /\ kind[r] \in Settings => SettingOf(r)'
    BY <1>1, <1>2, CurrentBefore DEF SettingOf, KeptInv, AloneKeeps
  <2>2. l \in Labels /\ l # "upsert"
    BY DEF Labels, Steps
  <2> QED BY <1>1, <1>2, <2>1, <2>2, OthersStay
<1>4. AllCurrent'
  BY <1>1, <1>2, CurrentBefore, MovedCurrent
<1> QED BY <1>3, <1>4

LEMMA KeptSetInfo ==
    ASSUME KeptInv, NEW r \in Requests, SetInfo(r)
    PROVE  Apart' /\ Places' /\ AllCurrent' /\ AloneKeeps'
<1>1. /\ UNCHANGED <<kind, copy, row, repo, latest, overlapped>> /\ info' = copy[r]
      /\ Active(r) /\ pc[r] \in Loaded /\ kind[r] = "GetInfo"
  BY DEF SetInfo, Active, Steps, Loaded, KeptInv, Places
<1>2. pc' = [pc EXCEPT ![r] = "done"] /\ confirmed' = confirmed
  BY <1>1, NotConfirmed DEF SetInfo, Settings
<1>3. Apart' /\ Places' /\ AloneKeeps'
  BY <1>1, <1>2, CurrentBefore, OthersStay
<1>4. AllCurrent'
  BY <1>1, <1>2, CurrentBefore, MovedCurrent DEF Loaded
<1> QED BY <1>3, <1>4

LEMMA KeptAnswer ==
    ASSUME KeptInv, NEW r \in Requests, Answer(r)
    PROVE  Apart' /\ Places' /\ AllCurrent' /\ AloneKeeps'
<1>1. UNCHANGED <<kind, copy, row, repo, info, latest, overlapped>> /\ Active(r)
  BY DEF Answer, storeVars, historyVars, Active, Steps
<1>2. pc' = [pc EXCEPT ![r] = "done"] /\ confirmed' = confirmed
  BY DEF Answer, historyVars
<1>3. Apart' /\ Places' /\ AloneKeeps'
  BY <1>1, <1>2, CurrentBefore, OthersStay
<1>4. AllCurrent'
  BY <1>1, <1>2, CurrentBefore, MovedCurrent DEF Loaded
<1> QED BY <1>3, <1>4

LEMMA KeptStep ==
    ASSUME KeptInv, [Next]_vars
    PROVE  KeptInv'
<1>t. TypeOK'
  BY TypeStep DEF KeptInv
<1>1. CASE Rest \/ UNCHANGED vars
  BY <1>t, <1>1 DEF Rest, vars, storeVars, historyVars, KeptInv, Apart, Places, AllCurrent,
                    AloneKeeps, SettingOf, Active, Current
<1>2. CASE Crash
  <2>1. \A r \in Requests : ~Active(r)' /\ pc'[r] \notin Loaded
    BY <1>2 DEF Crash, Active, Loaded, Steps
  <2>2. UNCHANGED <<row, repo, info, latest, confirmed>>
    BY <1>2 DEF Crash, storeVars
  <2>3. AllCurrent'
    BY <2>1, <2>2 DEF KeptInv, AllCurrent, Current
  <2> QED BY <1>t, <2>1, <2>3 DEF KeptInv, Apart, Places, AloneKeeps
<1>3. ASSUME NEW r \in Requests, Load(r) \/ Write(r) \/ Page(r)
      PROVE  Apart' /\ Places' /\ AllCurrent' /\ AloneKeeps'
  BY <1>3, KeptArrive, KeptReadInfo, KeptReadRepo, KeptLoadRow, KeptFillRepo, KeptSave, KeptUpsert,
     KeptDeleteRepo, KeptDeleteInfo, KeptSyncSave, KeptSyncDelete, KeptSetInfo, KeptAnswer
     DEF Load, Write, Page
<1> QED BY <1>t, <1>1, <1>2, <1>3 DEF Next, KeptInv

\* No confirmed password, lock or profile is put back in the row, whatever requests
\* overlap, fail or die in between (member.service.ts:747-756).
THEOREM BackOfficeKept == Spec => []ConfirmedKept
<1>1. KeptInv => ConfirmedKept
  <2>1. SUFFICES ASSUME KeptInv, NEW f \in AdminFields PROVE row[f] >= confirmed[f]
    BY DEF ConfirmedKept
  <2>2. row[f] \in Nat /\ confirmed[f] \in Nat /\ confirmed[f] <= row[f]
    BY <2>1 DEF KeptInv, TypeOK, Member, AdminFields, Fields, AllCurrent, Current
  <2> QED BY <2>2
<1>2. Init => KeptInv
  BY KeptInit
<1>3. KeptInv /\ [Next]_vars => KeptInv'
  BY KeptStep
<1> QED BY <1>1, <1>2, <1>3, PTL DEF Spec

\* Nor does any of the two keys show an older one.
THEOREM BackOfficeSeen == Spec => []ConfirmedSeen
<1>1. KeptInv => ConfirmedSeen
  <2>1. SUFFICES ASSUME KeptInv, NEW f \in AdminFields
                 PROVE  /\ repo # None => repo[f] >= confirmed[f]
                        /\ info # None => info[f] >= confirmed[f]
    BY DEF ConfirmedSeen
  <2>2. confirmed[f] \in Nat
    BY <2>1 DEF KeptInv, TypeOK, AdminFields, Fields
  <2>3. repo # None => repo[f] \in Nat /\ confirmed[f] <= repo[f]
    BY <2>1 DEF KeptInv, TypeOK, Member, AdminFields, AllCurrent, Current
  <2>4. info # None => info[f] \in Nat /\ confirmed[f] <= info[f]
    BY <2>1 DEF KeptInv, TypeOK, Member, AdminFields, AllCurrent, Current
  <2> QED BY <2>2, <2>3, <2>4
<1>2. Init => KeptInv
  BY KeptInit
<1>3. KeptInv /\ [Next]_vars => KeptInv'
  BY KeptStep
<1> QED BY <1>1, <1>2, <1>3, PTL DEF Spec
-------------------------------------------------------------------------------
(* The withdrawal counter.  A withdrawal reads `_member_info_` first and   *)
(* does not delete it, so that copy may lag behind the row by one, and     *)
(* never by more: the next withdrawal saves the same number again.         *)

\* An entity with the counter of the row.
SameCount(m) == m.wd_count = row.wd_count

\* Of one request: what it has loaded has the counter of the row; a withdrawal may have
\* it from a copy that lags.
CountOf(r) ==
    /\ kind[r] \notin Withdrawals /\ pc[r] \in Loaded => SameCount(copy[r])
    /\ kind[r] \in Withdrawals /\ pc[r] \in {"fill", "sync", "syncdel"} => SameCount(copy[r])
    /\ kind[r] \in Withdrawals /\ pc[r] \in {"repo", "load", "fill"} => info = None
    /\ kind[r] \in Withdrawals /\ pc[r] = "save" =>
         /\ row.wd_count <= copy[r].wd_count + 1
         /\ info # None => copy[r].wd_count <= info.wd_count
    /\ pc[r] = "setinfo" => copy[r].sync /\ kind[r] = "GetInfo"
    /\ pc[r] = "syncdel" => copy[r].sync
    /\ pc[r] \in {"delinfo", "upsert", "setinfo"} => kind[r] \notin Withdrawals

\* `_memberRepo_` has the counter of the row but between save and delete of a withdrawal.
Fresh ==
    \/ repo # None => SameCount(repo)
    \/ \E r \in Requests : kind[r] \in Withdrawals /\ pc[r] = "delrepo"

Counts ==
    /\ \A q, r \in Requests : Active(q) /\ Active(r) /\ kind[q] \in Withdrawals => q = r
    /\ \A r \in Requests : CountOf(r)
    /\ Fresh
    /\ info # None => info.sync /\ row.wd_count <= info.wd_count + 1

CountInv == TypeOK /\ (~torn => Counts)

LEMMA CountInit == Init => CountInv
<1> SUFFICES ASSUME Init PROVE CountInv
  OBVIOUS
<1>1. \A r \in Requests : pc[r] = "idle" /\ ~Active(r)
  BY DEF Init, Active, Steps
<1>2. repo = None /\ info = None
  BY DEF Init
<1> QED BY <1>1, <1>2, TypeInit DEF CountInv, Counts, CountOf, Fresh, Loaded

\* A step that leaves the counter of the row alone leaves the other requests alone.
LEMMA SameRowCount ==
    ASSUME TypeOK, Counts, NEW r \in Requests, Active(r), NEW l,
           pc' = [pc EXCEPT ![r] = l], l \in Labels, kind' = kind,
           row'.wd_count = row.wd_count,
           \A q \in Requests \ {r} : copy'[q] = copy[q],
           CountOf(r)', Fresh',
           info' # None => info'.sync /\ row.wd_count <= info'.wd_count + 1
    PROVE  Counts'
<1>1. pc'[r] = l /\ \A q \in Requests \ {r} : pc'[q] = pc[q]
  BY DEF TypeOK
<1>2. \A q \in Requests : Active(q)' => Active(q)
  BY <1>1 DEF Active
<1>3. \A p, q \in Requests : Active(p)' /\ Active(q)' /\ kind'[p] \in Withdrawals => p = q
  BY <1>2 DEF Counts
<1>4. ASSUME NEW q \in Requests, q # r
      PROVE  CountOf(q)'
  <2>1. CASE Active(q)
    <3>1. kind[q] \notin Withdrawals
      BY <1>4, <2>1 DEF Counts
    <3>2. CountOf(q)
      BY DEF Counts
    <3> QED BY <1>1, <1>4, <3>1, <3>2 DEF CountOf, SameCount
  <2>2. CASE ~Active(q)
    BY <1>1, <1>4, <2>2 DEF CountOf, Active, Steps, Loaded
  <2> QED BY <2>1, <2>2
<1> QED BY <1>3, <1>4 DEF Counts

\* The places where `_memberRepo_` is not touched, nor the counter of the row.
LEMMA FreshStays ==
    ASSUME TypeOK, Fresh, NEW r \in Requests, NEW l, pc' = [pc EXCEPT ![r] = l],
           pc[r] # "delrepo", UNCHANGED <<kind, repo>>, row'.wd_count = row.wd_count
    PROVE  Fresh'
  BY DEF TypeOK, Fresh, SameCount

\* What is known of a request at a step that is not torn.
LEMMA CountBefore ==
    ASSUME TypeOK, Counts, NEW r \in Requests, Active(r)
    PROVE  /\ CountOf(r)
           /\ info # None => info.sync /\ row.wd_count <= info.wd_count + 1
           /\ (pc[r] # "delrepo" \/ kind[r] \notin Withdrawals) /\ repo # None => SameCount(repo)
           /\ \A l : pc' = [pc EXCEPT ![r] = l] =>
                pc'[r] = l /\ \A q \in Requests \ {r} : pc'[q] = pc[q]
           /\ \A m : copy' = [copy EXCEPT ![r] = m] =>
                copy'[r] = m /\ \A q \in Requests \ {r} : copy'[q] = copy[q]
<1>1. ASSUME NEW q \in Requests, kind[q] \in Withdrawals, pc[q] = "delrepo"
      PROVE  q = r
  BY <1>1 DEF Counts, Active, Steps
<1> QED BY <1>1 DEF Counts, Fresh, TypeOK

LEMMA CountArrive ==
    ASSUME TypeOK, Counts, NEW r \in Requests, Arrive(r), ~torn'
    PROVE  Counts'
<1>1. PICK k \in Offered :
        /\ kind' = [kind EXCEPT ![r] = k] /\ pc' = [pc EXCEPT ![r] = FirstStep(k)]
        /\ \A q \in Requests : Active(q) => k \notin Withdrawals /\ kind[q] \notin Withdrawals
  BY DEF Arrive, Goto
<1>2. /\ kind'[r] = k /\ pc'[r] = FirstStep(k) /\ ~Active(r)
      /\ \A q \in Requests \ {r} : pc'[q] = pc[q] /\ kind'[q] = kind[q]
      /\ UNCHANGED <<copy, row, repo, info>>
  BY <1>1 DEF TypeOK, Arrive, Active, Steps, storeVars
<1>3. /\ k \in Withdrawals => FirstStep(k) = "info"
      /\ FirstStep(k) \in {"info", "repo", "load", "upsert"}
      /\ FirstStep(k) = "upsert" => k = "PostMember"
  BY DEF FirstStep
<1>4. \A p, q \in Requests : Active(p)' /\ Active(q)' /\ kind'[p] \in Withdrawals => p = q
  <2>1. \A q \in Requests \ {r} : Active(q)' <=> Active(q)
    BY <1>2 DEF Active
  <2> QED BY <1>1, <1>2, <2>1 DEF Counts
<1>5. CountOf(r)'
  BY <1>2, <1>3 DEF CountOf, Loaded
<1>6. \A q \in Requests \ {r} : CountOf(q)'
  BY <1>2 DEF Counts, CountOf, SameCount
<1>7. Fresh' /\ (info' # None => info'.sync /\ row'.wd_count <= info'.wd_count + 1)
  <2>1. pc[r] # "delrepo"
    BY <1>2 DEF Active, Steps
  <2> QED BY <1>2, <2>1 DEF Counts, Fresh, SameCount
<1> QED BY <1>4, <1>5, <1>6, <1>7 DEF Counts

LEMMA CountReadInfo ==
    ASSUME TypeOK, Counts, NEW r \in Requests, ReadInfo(r)
    PROVE  Counts'
<1>1. UNCHANGED <<kind, row, repo, info>> /\ Active(r) /\ pc[r] # "delrepo"
  BY DEF ReadInfo, storeVars, Active, Steps
<1>2. PICK l \in Labels :
        /\ pc' = [pc EXCEPT ![r] = l]
        /\ \/ l = "repo" /\ copy' = copy /\ info = None
           \/ l = "done" /\ copy' = copy
           \/ l = "answer" /\ copy' = [copy EXCEPT ![r] = info]
           \/ /\ info # None /\ copy' = [copy EXCEPT ![r] = info] /\ kind[r] \in Withdrawals
              /\ l = "save"
  <2>1. CASE info = None
    BY <2>1 DEF ReadInfo, Goto, Labels, Steps
  <2>2. CASE info # None /\ kind[r] = "GetInfo" /\ Succeed(r, info) /\ UNCHANGED copy
    BY <2>2 DEF Succeed, Labels
  <2>3. CASE /\ info # None /\ kind[r] \in Withdrawals \cup {"WheelBuy"}
             /\ copy' = [copy EXCEPT ![r] = info] /\ Goto(r, AfterLoad(kind[r], info))
    <3>1. AfterLoad(kind[r], info) = IF kind[r] = "WheelBuy" THEN "answer" ELSE "save"
      BY <2>3 DEF Counts, AfterLoad
    <3> QED BY <2>3, <3>1 DEF Goto, Labels, Steps
  <2> QED BY <2>1, <2>2, <2>3 DEF ReadInfo
<1>3. info # None => info.wd_count \in Nat
  BY DEF TypeOK, Member
<1>4. CountOf(r)'
  <2>1. pc'[r] = l /\ kind'[r] = kind[r]
    BY <1>1, <1>2, CountBefore
  <2>2. CASE l = "repo" /\ info = None
    BY <1>1, <2>1, <2>2 DEF CountOf, Loaded
  <2>3. CASE l \in {"done", "answer"}
    BY <2>1, <2>3 DEF CountOf, Loaded
  <2>4. CASE /\ info # None /\ copy' = [copy EXCEPT ![r] = info] /\ kind[r] \in Withdrawals
             /\ l = "save"
    <3>1. copy'[r] = info /\ row.wd_count <= info.wd_count + 1
      BY <1>1, <2>4, CountBefore
    <3>2. copy'[r].wd_count <= info.wd_count
      BY <1>3, <2>4, <3>1
    <3> QED BY <1>1, <2>1, <2>4, <3>1, <3>2 DEF CountOf
  <2> QED BY <1>2, <2>2, <2>3, <2>4
<1>5. Fresh'
  BY <1>1, <1>2, FreshStays DEF Counts
<1> QED BY <1>1, <1>2, <1>4, <1>5, CountBefore, SameRowCount

LEMMA CountReadRepo ==
    ASSUME TypeOK, Counts, NEW r \in Requests, ReadRepo(r)
    PROVE  Counts'
<1>1. UNCHANGED <<kind, row, repo, info>> /\ Active(r) /\ pc[r] = "repo"
  BY DEF ReadRepo, storeVars, Active, Steps
<1>2. PICK l \in Labels :
        /\ pc' = [pc EXCEPT ![r] = l]
        /\ \/ l = "load" /\ copy' = copy
           \/ /\ repo # None /\ copy' = [copy EXCEPT ![r] = repo]
              /\ l \in {"sync", "setinfo", "answer", "delinfo", "save"}
              /\ l \in {"setinfo", "delinfo"} => kind[r] \notin Withdrawals
              /\ l = "setinfo" => repo.sync /\ kind[r] = "GetInfo"
  <2>1. CASE repo = None
    BY <2>1 DEF ReadRepo, Goto, Labels, Steps
  <2>2. CASE repo # None
    BY <2>2 DEF ReadRepo, Goto, AfterLoad, Labels, Steps
  <2> QED BY <2>1, <2>2
<1>3. row.wd_count \in Nat
  BY DEF TypeOK, Member
<1>4. CountOf(r)'
  <2>1. pc'[r] = l /\ kind'[r] = kind[r] /\ (kind[r] \in Withdrawals => info = None)
    BY <1>1, <1>2, CountBefore DEF CountOf
  <2>2. CASE l = "load"
    BY <1>1, <2>1, <2>2 DEF CountOf, Loaded
  <2>3. CASE /\ repo # None /\ copy' = [copy EXCEPT ![r] = repo]
             /\ l \in {"sync", "setinfo", "answer", "delinfo", "save"}
    <3>1. copy'[r] = repo /\ repo.wd_count = row.wd_count
      BY <1>1, <2>3, CountBefore DEF SameCount
    <3>2. row.wd_count <= repo.wd_count + 1
      BY <1>3, <3>1
    <3> QED BY <1>1, <1>2, <2>1, <2>3, <3>1, <3>2 DEF CountOf, SameCount
  <2> QED BY <1>2, <2>2, <2>3
<1>5. Fresh'
  BY <1>1, <1>2, FreshStays DEF Counts
<1> QED BY <1>1, <1>2, <1>4, <1>5, CountBefore, SameRowCount

LEMMA CountLoadRow ==
    ASSUME TypeOK, Counts, NEW r \in Requests, LoadRow(r)
    PROVE  Counts'
<1>1. /\ UNCHANGED <<kind, row, repo, info>> /\ Active(r) /\ pc[r] = "load"
      /\ copy' = [copy EXCEPT ![r] = row]
  BY DEF LoadRow, storeVars, Active, Steps
<1>2. PICK l \in {"save", "fill"} :
        pc' = [pc EXCEPT ![r] = l] /\ (kind[r] \in Withdrawals => l = "fill")
  BY DEF LoadRow, Goto
<1>3. CountOf(r)'
  BY <1>1, <1>2, CountBefore DEF CountOf, Loaded, SameCount
<1>4. Fresh'
  BY <1>1, <1>2, FreshStays DEF Counts
<1>5. l \in Labels
  BY DEF Labels, Steps
<1> QED BY <1>1, <1>2, <1>3, <1>4, <1>5, CountBefore, SameRowCount

LEMMA CountFillRepo ==
    ASSUME TypeOK, Counts, NEW r \in Requests, FillRepo(r)
    PROVE  Counts'
<1>1. /\ UNCHANGED <<kind, copy, row, info>> /\ repo' = copy[r]
      /\ Active(r) /\ pc[r] = "fill"
  BY DEF FillRepo, Active, Steps
<1>2. PICK l \in {"sync", "setinfo", "answer", "delinfo", "save"} :
        /\ pc' = [pc EXCEPT ![r] = l]
        /\ l \in {"setinfo", "delinfo"} => kind[r] \notin Withdrawals
        /\ l = "setinfo" => copy[r].sync /\ kind[r] = "GetInfo"
  <2> DEFINE l == AfterLoad(kind[r], copy[r])
  <2>1. pc' = [pc EXCEPT ![r] = l]
    BY DEF FillRepo, Goto
  <2>2. /\ l \in {"sync", "setinfo", "answer", "delinfo", "save"}
        /\ l \in {"setinfo", "delinfo"} => kind[r] \notin Withdrawals
        /\ l = "setinfo" => copy[r].sync /\ kind[r] = "GetInfo"
    BY DEF AfterLoad
  <2> QED BY <2>1, <2>2
<1>3. SameCount(copy[r])
  BY <1>1, CountBefore DEF CountOf, Loaded
<1>4. row.wd_count \in Nat
  BY DEF TypeOK, Member
<1>5. CountOf(r)'
  BY <1>1, <1>2, <1>3, <1>4, CountBefore DEF CountOf, Loaded, SameCount
<1>6. Fresh'
  BY <1>1, <1>3 DEF Fresh, SameCount
<1>7. l \in Labels
  BY DEF Labels, Steps
<1> QED BY <1>1, <1>2, <1>5, <1>6, <1>7, CountBefore, SameRowCount

\* A withdrawal that is saved adds one to what it loaded, which is at most one behind.
LEMMA CountSave ==
    ASSUME TypeOK, Counts, NEW r \in Requests, Save(r), ~torn'
    PROVE  Counts' /\ row'.wd_count >= row.wd_count
<1> DEFINE new == Changed(r)
<1>1. /\ UNCHANGED <<kind, repo, info>> /\ Active(r) /\ pc[r] = "save"
  BY DEF Save, Active, Steps
<1>2. PICK l \in {"done", "delrepo"} :
        /\ pc' = [pc EXCEPT ![r] = l]
        /\ \/ row' = new /\ copy' = [copy EXCEPT ![r] = new] /\ (kind[r] \in Withdrawals => l = "delrepo")
           \/ l = "done" /\ UNCHANGED <<row, copy>>
  <2> DEFINE written == row' = new /\ copy' = [copy EXCEPT ![r] = new]
  <2>1. CASE written /\ AfterSave(kind[r]) = "done" /\ Succeed(r, new)
    BY <2>1 DEF AfterSave, Succeed
  <2>2. CASE written /\ AfterSave(kind[r]) # "done" /\ Goto(r, AfterSave(kind[r]))
    BY <2>2 DEF AfterSave, Goto
  <2>3. CASE written /\ Fail(r) /\ torn' = (torn \/ kind[r] \in Withdrawals)
    BY <2>3 DEF Fail
  <2>4. CASE Fail(r) /\ UNCHANGED <<row, copy>>
    BY <2>4 DEF Fail
  <2> QED BY <2>1, <2>2, <2>3, <2>4 DEF Save
<1>3. /\ copy[r].wd_count \in Nat /\ row.wd_count \in Nat
      /\ new.wd_count = IF kind[r] \in Withdrawals THEN copy[r].wd_count + 1 ELSE copy[r].wd_count
      /\ info # None => info.wd_count \in Nat
  BY ChangedType DEF TypeOK, Member
<1> HIDE DEF new
<1>4. l \in Labels
  BY DEF Labels, Steps
<1>5. CASE l = "done" /\ UNCHANGED <<row, copy>>
  <2>1. CountOf(r)'
    BY <1>2, <1>5, CountBefore, <1>1 DEF CountOf, Loaded
  <2>2. Fresh'
    BY <1>1, <1>2, <1>5, FreshStays DEF Counts
  <2>3. Counts'
    BY <1>1, <1>2, <1>4, <1>5, <2>1, <2>2, CountBefore, SameRowCount
  <2> QED BY <1>3, <1>5, <2>3
<1>6. CASE kind[r] \notin Withdrawals /\ row' = new /\ copy' = [copy EXCEPT ![r] = new]
  <2>1. row'.wd_count = row.wd_count /\ copy'[r].wd_count = row.wd_count
    BY <1>1, <1>3, <1>6, CountBefore DEF CountOf, Loaded, SameCount
  <2>2. CountOf(r)'
    BY <1>1, <1>2, <1>6, <2>1, CountBefore DEF CountOf, SameCount
  <2>3. Fresh'
    BY <1>1, <1>2, <2>1, FreshStays DEF Counts
  <2>4. Counts'
    BY <1>1, <1>2, <1>4, <1>6, <2>1, <2>2, <2>3, CountBefore, SameRowCount
  <2> QED BY <1>3, <2>1, <2>4
<1>7. CASE kind[r] \in Withdrawals /\ row' = new /\ l = "delrepo"
  <2>1. row'.wd_count >= row.wd_count
    BY <1>1, <1>3, <1>7, CountBefore DEF CountOf
  <2>2. info' # None => info'.sync /\ row'.wd_count <= info'.wd_count + 1
    BY <1>1, <1>3, <1>7, CountBefore DEF CountOf
  <2>3. pc'[r] = "delrepo" /\ kind'[r] \in Withdrawals /\ \A q \in Requests \ {r} : pc'[q] = pc[q]
    BY <1>1, <1>2, <1>7, CountBefore
  <2>4. \A q \in Requests \ {r} : ~Active(q)
    BY <1>1, <1>7 DEF Counts
  <2>5. \A q \in Requests \ {r} : ~Active(q)' /\ CountOf(q)'
    BY <2>3, <2>4 DEF CountOf, Active, Steps, Loaded
  <2>6. CountOf(r)' /\ Fresh'
    BY <2>3 DEF CountOf, Fresh
  <2>7. \A p, q \in Requests : Active(p)' /\ Active(q)' /\ kind'[p] \in Withdrawals => p = q
    BY <2>5
  <2> QED BY <2>1, <2>2, <2>5, <2>6, <2>7 DEF Counts
<1> QED BY <1>2, <1>5, <1>6, <1>7

LEMMA CountUpsert ==
    ASSUME TypeOK, Counts, NEW r \in Requests, Upsert(r)
    PROVE  Counts' /\ row'.wd_count = row.wd_count
<1>1. /\ UNCHANGED <<kind, copy, repo, info>> /\ Active(r) /\ pc[r] = "upsert"
      /\ pc' = [pc EXCEPT ![r] = "done"]
  BY DEF Upsert, Active, Steps, Fail, Succeed
<1>2. row'.wd_count = row.wd_count
  <2>1. Overwritten(row, kind[r]).wd_count = row.wd_count
    BY OverwrittenType DEF TypeOK
  <2> QED BY <2>1 DEF Upsert
<1>3. CountOf(r)'
  BY <1>1, CountBefore DEF CountOf, Loaded
<1>4. Fresh' /\ "done" \in Labels
  BY <1>1, <1>2, FreshStays DEF Counts, Labels
<1> QED BY <1>1, <1>2, <1>3, <1>4, CountBefore, SameRowCount

LEMMA CountDeleteRepo ==
    ASSUME TypeOK, Counts, NEW r \in Requests, DeleteRepo(r)
    PROVE  Counts'
<1>1. /\ UNCHANGED <<kind, copy, row, info>> /\ repo' = None /\ Active(r) /\ pc[r] = "delrepo"
  BY DEF DeleteRepo, Active, Steps
<1>2. PICK l \in {"done", "sync", "delinfo"} :
        pc' = [pc EXCEPT ![r] = l] /\ (kind[r] \in Withdrawals => l = "done")
  <2> DEFINE a == AfterDelete(kind[r], copy[r])
  <2>1. a \in {"done", "sync", "delinfo"} /\ (kind[r] \in Withdrawals => a = "done")
    BY DEF AfterDelete
  <2>2. CASE a = "done" /\ Succeed(r, copy[r])
    BY <2>2 DEF Succeed
  <2>3. CASE a # "done" /\ Goto(r, a)
    BY <2>1, <2>3 DEF Goto
  <2>4. CASE Fail(r)
    BY <2>4 DEF Fail
  <2> QED BY <2>2, <2>3, <2>4 DEF DeleteRepo
<1>3. CountOf(r)'
  BY <1>1, <1>2, CountBefore DEF CountOf, Loaded, SameCount
<1>4. Fresh' /\ l \in Labels
  BY <1>1 DEF Fresh, Labels, Steps
<1> QED BY <1>1, <1>2, <1>3, <1>4, CountBefore, SameRowCount

LEMMA CountDeleteInfo ==
    ASSUME TypeOK, Counts, NEW r \in Requests, DeleteInfo(r)
    PROVE  Counts'
<1>1. /\ UNCHANGED <<kind, copy, row, repo>> /\ info' = None /\ Active(r) /\ pc[r] = "delinfo"
  BY DEF DeleteInfo, Active, Steps
<1>2. PICK l \in {"done", "delrepo"} : pc' = [pc EXCEPT ![r] = l]
  BY DEF DeleteInfo, AfterInfo, Goto, Succeed, Fail
<1>3. CountOf(r)'
  BY <1>1, <1>2, CountBefore DEF CountOf, Loaded, SameCount
<1>4. Fresh' /\ l \in Labels
  BY <1>1, <1>2, FreshStays DEF Counts, Labels, Steps
<1> QED BY <1>1, <1>2, <1>3, <1>4, CountBefore, SameRowCount

LEMMA CountSyncSave ==
    ASSUME TypeOK, Counts, NEW r \in Requests, SyncSave(r)
    PROVE  Counts' /\ row'.wd_count = row.wd_count
<1> DEFINE new == [copy[r] EXCEPT !.sync = TRUE]
<1>1. UNCHANGED <<kind, repo, info>> /\ Active(r) /\ pc[r] = "sync"
  BY DEF SyncSave, Active, Steps
<1>2. PICK l \in {"syncdel", "done"} :
        /\ pc' = [pc EXCEPT ![r] = l]
        /\ \/ copy' = [copy EXCEPT ![r] = new] /\ row' = new
           \/ l = "done" /\ UNCHANGED <<copy, row>>
  BY DEF SyncSave, Goto, Fail
<1>3. copy[r] \in Member /\ SameCount(copy[r])
  BY <1>1, CountBefore DEF TypeOK, CountOf, Loaded
<1>4. new.wd_count = row.wd_count /\ new.sync
  BY <1>3 DEF SameCount, Member
<1> HIDE DEF new
<1>5. row'.wd_count = row.wd_count /\ l \in Labels
  BY <1>2, <1>4 DEF Labels, Steps
<1>6. CountOf(r)'
  <2>1. CASE l = "done"
    BY <1>1, <1>2, <2>1, CountBefore DEF CountOf, Loaded
  <2>2. CASE copy' = [copy EXCEPT ![r] = new] /\ l = "syncdel"
    <3>1. pc'[r] = "syncdel" /\ copy'[r] = new
      BY <1>1, <1>2, <2>2, CountBefore
    <3>2. SameCount(copy[r])' /\ copy'[r].sync
      BY <1>4, <1>5, <3>1 DEF SameCount
    <3> QED BY <3>1, <3>2 DEF CountOf
  <2> QED BY <1>2, <2>1, <2>2
<1>7. Fresh'
  BY <1>1, <1>2, <1>5, FreshStays DEF Counts
<1>8. \A q \in Requests \ {r} : copy'[q] = copy[q]
  BY <1>1, <1>2, CountBefore
<1> QED BY <1>1, <1>2, <1>5, <1>6, <1>7, <1>8, CountBefore, SameRowCount

LEMMA CountSyncDelete ==
    ASSUME TypeOK, Counts, NEW r \in Requests, SyncDelete(r)
    PROVE  Counts'
<1>1. /\ UNCHANGED <<kind, copy, row, info>> /\ repo' = None /\ Active(r) /\ pc[r] = "syncdel"
  BY DEF SyncDelete, Active, Steps
<1>2. PICK l \in {"done", "setinfo", "delinfo", "answer"} :
        /\ pc' = [pc EXCEPT ![r] = l]
        /\ (kind[r] \in Withdrawals => l = "done") /\ (l = "setinfo" => kind[r] = "GetInfo")
  BY DEF SyncDelete, Goto, Fail
<1>3. CountOf(r)'
  BY <1>1, <1>2, CountBefore DEF CountOf, Loaded, SameCount
<1>4. Fresh' /\ l \in Labels
  BY <1>1 DEF Fresh, Labels, Steps
<1> QED BY <1>1, <1>2, <1>3, <1>4, CountBefore, SameRowCount

LEMMA CountSetInfo ==
    ASSUME TypeOK, Counts, NEW r \in Requests, SetInfo(r)
    PROVE  Counts'
<1>1. /\ UNCHANGED <<kind, copy, row, repo>> /\ info' = copy[r] /\ Active(r) /\ pc[r] = "setinfo"
      /\ pc' = [pc EXCEPT ![r] = "done"]
  BY DEF SetInfo, Active, Steps, Succeed
<1>2. copy[r].sync /\ SameCount(copy[r]) /\ row.wd_count \in Nat
  BY <1>1, CountBefore DEF CountOf, Loaded, TypeOK, Member
<1>3. CountOf(r)'
  <2>1. pc'[r] = "done"
    BY <1>1 DEF TypeOK
  <2> QED BY <2>1 DEF CountOf, Loaded
<1>4. Fresh' /\ "done" \in Labels
  BY <1>1, FreshStays DEF Counts, Labels
<1>5. row.wd_count <= info'.wd_count + 1 /\ info'.sync
  BY <1>1, <1>2 DEF SameCount
<1>6. row' = row /\ \A q \in Requests \ {r} : copy'[q] = copy[q]
  BY <1>1
<1> QED BY <1>1, <1>3, <1>4, <1>5, <1>6, SameRowCount

LEMMA CountAnswer ==
    ASSUME TypeOK, Counts, NEW r \in Requests, Answer(r)
    PROVE  Counts'
<1>1. UNCHANGED <<kind, copy, row, repo, info>> /\ pc' = [pc EXCEPT ![r] = "done"] /\ pc[r] = "answer"
  BY DEF Answer, storeVars
<1>2. pc'[r] = "done" /\ "done" \in Labels
  BY <1>1 DEF TypeOK, Labels
<1>3. CountOf(r)' /\ Fresh'
  BY <1>1, <1>2, FreshStays DEF CountOf, Counts, Loaded
<1>4. \A q \in Requests \ {r} : copy'[q] = copy[q]
  BY <1>1
<1>5. row.wd_count \in Nat /\ Active(r)
  BY <1>1 DEF Active, Steps, TypeOK, Member
<1> QED BY <1>1, <1>2, <1>3, <1>4, <1>5, SameRowCount DEF Counts

\* Every step that is not torn keeps the counts and does not lower the counter.
LEMMA CountStep ==
    ASSUME CountInv, [Next]_vars
    PROVE  CountInv' /\ (row'.wd_count < row.wd_count => torn)
<1>t. TypeOK /\ TypeOK'
  BY TypeStep DEF CountInv
<1>m. torn => torn'
  BY <1>t DEF Next, vars, historyVars, storeVars, Load, Write, Page, Arrive, ReadInfo, ReadRepo, LoadRow,
     FillRepo, Save, Upsert, DeleteRepo, DeleteInfo, SyncSave, SyncDelete, SetInfo, Answer, Crash, Rest,
     TypeOK
<1>i. row.wd_count \in Nat /\ row'.wd_count \in Nat
  BY <1>t DEF TypeOK, Member
<1>c. ASSUME ~torn', Counts PROVE Counts' /\ row'.wd_count >= row.wd_count
  <2>1. CASE Rest \/ UNCHANGED vars
    <3>1. UNCHANGED <<kind, pc, copy, row, repo, info>>
      BY <2>1 DEF Rest, vars, storeVars
    <3> QED BY <1>c, <1>i, <3>1 DEF Counts, CountOf, Fresh, SameCount, Active
  <2>2. CASE Crash
    <3>1. /\ \A r \in Requests : pc'[r] \notin Steps /\ pc'[r] \notin Loaded
          /\ UNCHANGED <<kind, copy, row, repo, info>>
          /\ \A r \in Requests : ~(kind[r] \in Withdrawals /\ pc[r] = "delrepo")
      BY <1>c, <2>2 DEF Crash, Active, Steps, Loaded, storeVars
    <3>2. \A r \in Requests : CountOf(r)'
      BY <3>1 DEF CountOf, Steps, Loaded
    <3>3. Fresh'
      BY <1>c, <3>1 DEF Counts, Fresh, SameCount
    <3> QED BY <1>c, <1>i, <3>1, <3>2, <3>3 DEF Counts, Active
  <2>3. ASSUME NEW r \in Requests, Load(r) \/ Page(r)
        PROVE  Counts' /\ row'.wd_count >= row.wd_count
    <3>1. CASE SyncSave(r)
      BY <1>c, <1>t, <1>i, <3>1, CountSyncSave
    <3>2. CASE Load(r) \/ SyncDelete(r) \/ SetInfo(r) \/ Answer(r)
      <4>1. row' = row
        BY <3>2 DEF Load, Arrive, ReadInfo, ReadRepo, LoadRow, FillRepo, SyncDelete, SetInfo, Answer,
           storeVars
      <4>2. Counts'
        BY <1>c, <1>t, <3>2, CountArrive, CountReadInfo, CountReadRepo, CountLoadRow, CountFillRepo,
           CountSyncDelete, CountSetInfo, CountAnswer DEF Load
      <4> QED BY <1>i, <4>1, <4>2
    <3> QED BY <2>3, <3>1, <3>2 DEF Page
  <2>4. ASSUME NEW r \in Requests, Write(r)
        PROVE  Counts' /\ row'.wd_count >= row.wd_count
    <3>1. CASE Save(r)
      BY <1>c, <1>t, <3>1, CountSave
    <3>2. CASE Upsert(r)
      BY <1>c, <1>t, <1>i, <3>2, CountUpsert
    <3>3. CASE DeleteRepo(r) \/ DeleteInfo(r)
      <4>1. row' = row
        BY <3>3 DEF DeleteRepo, DeleteInfo
      <4>2. Counts'
        BY <1>c, <1>t, <3>3, CountDeleteRepo, CountDeleteInfo
      <4> QED BY <1>i, <4>1, <4>2
    <3> QED BY <2>4, <3>1, <3>2, <3>3 DEF Write
  <2> QED BY <2>1, <2>2, <2>3, <2>4 DEF Next
<1>n. ASSUME ~torn, Counts, torn' PROVE row'.wd_count >= row.wd_count
  <2>1. CASE \E r \in Requests : Save(r) \/ Upsert(r) \/ SyncSave(r)
    <3>1. PICK r \in Requests : Save(r) \/ Upsert(r) \/ SyncSave(r)
      BY <2>1
    <3>2. CASE Upsert(r) \/ SyncSave(r)
      BY <1>t, <1>n, <1>i, <3>2, CountUpsert, CountSyncSave
    <3>3. CASE Save(r)
      <4>1. Active(r) /\ pc[r] = "save"
        BY <3>3 DEF Save, Active, Steps
      <4>2. CountOf(r)
        BY <1>n DEF Counts
      <4>3. copy[r].wd_count \in Nat /\ Changed(r).wd_count =
              IF kind[r] \in Withdrawals THEN copy[r].wd_count + 1 ELSE copy[r].wd_count
        BY <1>t, ChangedType DEF TypeOK, Member
      <4>4. row' = Changed(r) \/ row' = row
        BY <3>3 DEF Save
      <4>5. Changed(r).wd_count >= row.wd_count
        BY <1>i, <4>1, <4>2, <4>3 DEF CountOf, Loaded, SameCount
      <4> QED BY <1>i, <4>4, <4>5
    <3> QED BY <3>1, <3>2, <3>3
  <2>2. CASE ~ \E r \in Requests : Save(r) \/ Upsert(r) \/ SyncSave(r)
    <3>1. row' = row
      BY <2>2 DEF Next, vars, storeVars, Load, Write, Page, Arrive, ReadInfo, ReadRepo, LoadRow,
         FillRepo, DeleteRepo, DeleteInfo, SyncDelete, SetInfo, Answer, Crash, Rest
    <3> QED BY <1>i, <3>1
  <2> QED BY <2>1, <2>2
<1> QED BY <1>t, <1>m, <1>i, <1>c, <1>n DEF CountInv

\* The counter of withdrawals (sendWithdrawList, member.service.ts:1210) goes back only
\* after a withdrawal that was torn, whatever handlers there are, PUT Password included.
THEOREM CounterKept == Spec => CountNeverDrops
<1>1. Init => CountInv
  BY CountInit
<1>2. CountInv /\ [Next]_vars => CountInv' /\ (row'.wd_count < row.wd_count => torn)
  BY CountStep
<1> QED BY <1>1, <1>2, PTL DEF Spec, CountNeverDrops
===============================================================================
