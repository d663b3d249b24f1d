----------------------------- MODULE LookupsProofs -----------------------------
(***************************************************************************)
(* Proofs about Lookups, for any number of requests and members and any    *)
(* way names are built: type correctness, that settled changes and flushes *)
(* are seen, that calls which do not overlap save one provider row, and    *)
(* that the flag is earned.                                                *)
(*                                                                         *)
(* A change is settled, and a flush counts, only when the request ran      *)
(* alone.  So whatever another request has read was read afterwards        *)
(* (ReadSettled, ReadFlushed), and what a request that is alone has        *)
(* deleted or looked for stays as it left it (Deleted, Looked).            *)
(***************************************************************************)
EXTENDS Lookups, FiniteSetTheorems, TLAPS

\* The labels behind which the member, and the domain, has been read.
HasRow == {"fill", "domain", "site", "setdomain", "setview", "setpview", "setphone",
           "save", "resave", "delrepo", "delagain", "delview", "delseamless"}
HasUrl == {"setdomain", "setview"}
CallKind(r) == job[r].call.kind
CopyKinds == ByName \cup {"ByProvider", "PutMember", "ClearCache"}

\* Which calls come to which label, and that they are about a member there.
ControlOf(r) ==
    /\ Active(r) => job[r].call \in Calls
    /\ job[r].at \in Steps \ {"view", "reset"} => User(r) \in Users
    /\ job[r].at \in {"view", "domain", "site", "setdomain", "setview"} => CallKind(r) \in ByName
    /\ job[r].at \in {"pview", "config", "setpview"} => CallKind(r) = "ByProvider"
    /\ job[r].at \in {"phone", "setphone"} => CallKind(r) = "ByPhone"
    /\ job[r].at \in {"repo", "fill"} => CallKind(r) \in CopyKinds
    /\ job[r].at = "row" => CallKind(r) \in CopyKinds \cup {"Patch", "ByPhone"}
    /\ job[r].at \in {"save", "delagain"} => CallKind(r) \in {"PutMember", "Patch"}
    /\ job[r].at = "resave" => CallKind(r) = "Patch"
    /\ job[r].at \in {"delrepo", "delview", "delseamless"} => CallKind(r) \in Changes
    /\ job[r].at \in {"flag", "find", "check", "prepare", "insert", "setflag"} =>
         CallKind(r) = "RealUsername"
    /\ job[r].at \in {"idle", "flag", "find"} => job[r].tries = 0
    /\ job[r].at = "check" => job[r].tries < 2
    /\ job[r].at = "prepare" => job[r].tries > 0
ControlInv == \A r \in Requests : ControlOf(r)

\* Two requests in flight have overlapped.
AloneInv == \A r, q \in Requests : r # q /\ Active(r) /\ Active(q) => r \in overlapped

\* The rows never fall behind what is settled or flushed, nor do the copies.
RowsInv ==
    \A u \in Users :
        /\ row[u] <= latest[u] /\ settled[u] <= latest[u]
        /\ flushed.row[u] <= row[u] /\ flushed.row[u] <= latest[u]
        /\ repo[u] # None => repo[u] <= latest[u] /\ repo[u] >= flushed.row[u]
SiteInv == flushed.site <= site
ReadInv ==
    \A r \in Requests :
        /\ job[r].at \in HasRow => /\ job[r].ver >= settled[User(r)]
                                   /\ job[r].ver >= flushed.row[User(r)]
                                   /\ job[r].ver <= latest[User(r)]
        /\ job[r].at \in HasUrl => job[r].url >= flushed.site

\* What a change that runs alone has deleted.
DeletedInv ==
    \A r \in Requests : r \notin overlapped =>
        /\ job[r].at \in {"delview", "delseamless"} /\ CallKind(r) # "ClearCache" => repo[User(r)] = None
        /\ job[r].at = "delseamless" => repo[User(r)] = None /\ view[User(r)] = None
        /\ job[r].at = "delrepo" /\ CallKind(r) = "ClearCache" => view[User(r)] = None
SeenInv == RowsInv /\ SiteInv /\ ReadInv /\ DeletedInv

\* What a Realusername call that runs alone has looked for.
ExactRows(u) == {c \in config : c.user = u /\ c.spelt = "exact"}
LookedInv ==
    /\ \A r \in Requests :
         r \notin overlapped /\ job[r].at \in {"check", "prepare", "insert"}
           /\ job[r].call.spelt = "exact" => ExactRows(job[r].call.name) = {}
    /\ \A u \in Users : \A c, d \in ExactRows(u) :
         c.by \notin overlapped /\ d.by \notin overlapped => c = d
EarnedInv ==
    \A r \in Requests :
        /\ job[r].tries = 2 => User(r) \in refused
        /\ job[r].at = "setflag" => User(r) \in refused \/ \E c \in config : c.user = User(r)
-------------------------------------------------------------------------------
(* Calls and steps.                                                        *)

Work(r) == Load(r) \/ Answer(r) \/ Change(r) \/ RealUsername(r)

\* What is known of every call.
LEMMA CallFacts ==
    ASSUME NEW c \in Calls
    PROVE  /\ c.kind \in Kinds /\ c.spelt \in Spellings
           /\ c.kind \notin ByName \cup {"Reset"} => c.name \in Users /\ Owner(c) = c.name
BY DEF Calls, Kinds, Spellings, Owner, ByName, Changes

\* A step changes the request that takes it only; the history of overlaps changes
\* at arrivals.
LEMMA StepLocal ==
    ASSUME TypeOK, NEW r \in Requests, Work(r)
    PROVE  /\ \A q \in Requests \ {r} : job'[q] = job[q]
           /\ overlapped \subseteq overlapped'
           /\ Arrive(r) \/ (UNCHANGED overlapped /\ Active(r))
<1> USE DEF TypeOK, Goto, Take, Finish, Succeed, At, Active, Steps
<1>1. CASE Arrive(r)
  BY <1>1 DEF Arrive
<1>2. CASE Load(r) /\ ~Arrive(r)
  BY <1>2 DEF Load, ReadView, ReadProviderView, ReadConfig, ReadPhone, ReadRepo, LoadRow, FillRepo
<1>3. CASE Answer(r)
  BY <1>3 DEF Answer, ReadDomain, ReadSite, SetDomain, SetView, SetProviderView, SetPhone
<1>4. CASE Change(r)
  BY <1>4 DEF Change, Save, DeleteRepo, DeleteView, DeleteSeamless, Reset
<1>5. CASE RealUsername(r)
  BY <1>5 DEF RealUsername, ReadFlag, FindConfig, Check, Prepare, InsertConfig, SetFlag
<1> QED BY <1>1, <1>2, <1>3, <1>4, <1>5 DEF Work

\* What the ways to end a step do to the request's record.
Same(r) == job'[r].call = job[r].call /\ job'[r].ver = job[r].ver /\ job'[r].url = job[r].url
           /\ job'[r].tries = job[r].tries
Ended(r) == job'[r].at = "done" /\ job'[r].tries = 0 /\ job'[r].ver = 0
LEMMA GotoFields ==
    ASSUME TypeOK, NEW r \in Requests, NEW l, Goto(r, l)
    PROVE  job'[r].at = l /\ Same(r)
BY DEF Goto, TypeOK, Job, Same
LEMMA FinishFields ==
    ASSUME TypeOK, NEW r \in Requests, job' = [job EXCEPT ![r] = After]
    PROVE  Ended(r)
BY DEF TypeOK, Ended, After, Before
LEMMA TakeVersion ==
    ASSUME TypeOK, NEW r \in Requests, NEW v, NEW l, Take(r, [job[r] EXCEPT !.ver = v], l)
    PROVE  /\ job'[r].at = l /\ job'[r].ver = v
           /\ job'[r].call = job[r].call /\ job'[r].url = job[r].url /\ job'[r].tries = job[r].tries
BY DEF Take, TypeOK, Job
LEMMA TakeUrl ==
    ASSUME TypeOK, NEW r \in Requests, NEW v, NEW l, Take(r, [job[r] EXCEPT !.url = v], l)
    PROVE  /\ job'[r].at = l /\ job'[r].url = v
           /\ job'[r].call = job[r].call /\ job'[r].ver = job[r].ver /\ job'[r].tries = job[r].tries
BY DEF Take, TypeOK, Job
LEMMA TakeTries ==
    ASSUME TypeOK, NEW r \in Requests, NEW v, NEW l, Take(r, [job[r] EXCEPT !.tries = v], l)
    PROVE  /\ job'[r].at = l /\ job'[r].tries = v
           /\ job'[r].call = job[r].call /\ job'[r].ver = job[r].ver /\ job'[r].url = job[r].url
BY DEF Take, TypeOK, Job
LEMMA TakeCall ==
    ASSUME TypeOK, NEW r \in Requests, NEW v, NEW l, Take(r, [job[r] EXCEPT !.call = v], l)
    PROVE  /\ job'[r].at = l /\ job'[r].call = v
           /\ job'[r].tries = job[r].tries /\ job'[r].ver = job[r].ver /\ job'[r].url = job[r].url
BY DEF Take, TypeOK, Job

\* Where the steps lead, and what they read on the way.
Reads(r) ==
    \/ /\ job[r].at = "repo" /\ repo[User(r)] # None /\ job'[r].ver = repo[User(r)]
       /\ job'[r].at = AfterLoad(CallKind(r)) /\ job'[r].url = job[r].url /\ job'[r].tries = job[r].tries
    \/ /\ job[r].at = "row" /\ job'[r].ver = row[User(r)]
       /\ job'[r].at = AfterRow(CallKind(r)) /\ job'[r].url = job[r].url /\ job'[r].tries = job[r].tries
    \/ /\ job[r].at = "domain" /\ domain # None /\ job'[r].url = domain
       /\ job'[r].at = "setview" /\ job'[r].ver = job[r].ver /\ job'[r].tries = job[r].tries
    \/ /\ job[r].at = "site" /\ job'[r].url = site
       /\ job'[r].at = "setdomain" /\ job'[r].ver = job[r].ver /\ job'[r].tries = job[r].tries
    \/ /\ job[r].at = "check" /\ job'[r].tries = job[r].tries + 1
       /\ job'[r].at = "prepare" /\ job'[r].ver = job[r].ver
Goes(r, l) ==
    CASE job[r].at = "view" -> l = "repo" /\ User(r) \in Users
      [] job[r].at = "pview" -> l = "config"
      [] job[r].at = "config" -> l = "repo"
      [] job[r].at = "phone" -> l = "row"
      [] job[r].at = "repo" -> l = "row"
      [] job[r].at = "fill" -> l = AfterLoad(CallKind(r))
      [] job[r].at = "domain" -> l = "site"
      [] job[r].at = "setdomain" -> l = "setview"
      [] job[r].at = "save" -> l = "delrepo"
      [] job[r].at = "resave" -> l = "delagain"
      [] job[r].at = "delrepo" -> \/ CallKind(r) = "PutMember" /\ l = "delagain"
                                  \/ CallKind(r) = "Patch" /\ l \in {"resave", "delview"}
                                  \/ CallKind(r) = "PutMember" /\ l = "delview"
                                  \/ CallKind(r) = "ClearCache" /\ l = "delseamless"
      [] job[r].at = "delagain" -> \/ CallKind(r) \in {"PutMember", "Patch"} /\ l = "delview"
                                   \/ CallKind(r) = "ClearCache" /\ l = "delseamless"
      [] job[r].at = "delview" -> l = (IF CallKind(r) = "ClearCache" THEN "delrepo" ELSE "delseamless")
      [] job[r].at = "flag" -> l = "find"
      [] job[r].at = "find" -> l = "check"
      [] job[r].at = "check" -> l = "insert"
      [] job[r].at = "prepare" -> l = (IF job[r].tries > 1 THEN "setflag" ELSE "check")
      [] job[r].at = "insert" -> l = "setflag"
      [] OTHER -> FALSE
Moves(r) ==
    \/ Ended(r)
    \/ Reads(r) /\ job'[r].call = job[r].call
    \/ Goes(r, job'[r].at) /\ Same(r)

LEMMA StepMoves ==
    ASSUME TypeOK, NEW r \in Requests, Work(r), ~Arrive(r)
    PROVE  Moves(r)
<1> USE DEF Moves, At, Does, CallKind
<1>1. CASE ReadView(r) \/ ReadProviderView(r) \/ ReadConfig(r) \/ ReadPhone(r)
  BY <1>1, GotoFields, FinishFields DEF ReadView, ReadProviderView, ReadConfig, ReadPhone, Finish, Goes
<1>2. CASE ReadRepo(r)
  BY <1>2, GotoFields, TakeVersion DEF ReadRepo, Reads, Goes
<1>3. CASE LoadRow(r)
  BY <1>3, TakeVersion DEF LoadRow, Reads
<1>4. CASE FillRepo(r)
  BY <1>4, GotoFields DEF FillRepo, Goes
<1>5. CASE ReadDomain(r)
  BY <1>5, GotoFields, TakeUrl DEF ReadDomain, Reads, Goes
<1>6. CASE ReadSite(r)
  BY <1>6, TakeUrl, FinishFields DEF ReadSite, Finish, Reads
<1>7. CASE SetDomain(r) \/ SetView(r) \/ SetProviderView(r) \/ SetPhone(r)
  BY <1>7, GotoFields, FinishFields DEF SetDomain, SetView, SetProviderView, SetPhone, Finish, Goes
<1>8. CASE Save(r)
  BY <1>8, GotoFields, FinishFields DEF Save, Finish, Goes
<1>9. CASE DeleteRepo(r)
  BY <1>9, GotoFields, FinishFields DEF DeleteRepo, Finish, Goes
<1>10. CASE DeleteView(r)
  BY <1>10, GotoFields, FinishFields DEF DeleteView, Finish, Goes
<1>11. CASE DeleteSeamless(r) \/ Reset(r)
  BY <1>11, FinishFields DEF DeleteSeamless, Reset, Finish, Succeed
<1>12. CASE Check(r)
  BY <1>12, GotoFields, FinishFields, TakeTries DEF Check, Finish, Reads, Goes
<1>13. CASE Prepare(r)
  BY <1>13, GotoFields DEF Prepare, LastRound, Goes
<1>14. CASE ReadFlag(r) \/ FindConfig(r) \/ InsertConfig(r) \/ SetFlag(r)
  BY <1>14, GotoFields, FinishFields DEF ReadFlag, FindConfig, InsertConfig, SetFlag, Finish, Goes
<1> QED BY <1>1, <1>2, <1>3, <1>4, <1>5, <1>6, <1>7, <1>8, <1>9, <1>10, <1>11, <1>12, <1>13, <1>14
        DEF Work, Load, Answer, Change, RealUsername
-------------------------------------------------------------------------------
(* Types and control.                                                      *)

\* The initial states.
LEMMA TypeInit == Init => TypeOK /\ ControlInv
<1> SUFFICES ASSUME Init PROVE TypeOK /\ ControlInv
  OBVIOUS
<1>1. Before \in Job
  BY DEF Before, Job, NoCall
<1>2. job \in [Requests -> Job]
  BY <1>1 DEF Init
<1>3. TypeOK
  BY <1>2 DEF Init, TypeOK
<1>4. ControlInv
  BY DEF Init, ControlInv, ControlOf, Before, Active, Steps
<1> QED BY <1>3, <1>4

\* Where a step takes the request.
LEMMA JobTyped ==
    ASSUME TypeOK, ControlInv, NEW r \in Requests, Work(r)
    PROVE  job' \in [Requests -> Job]
<1>1. After \in Job
  BY DEF Before, After, Job, NoCall
<1>2. \A j \in Job, l \in Steps : [j EXCEPT !.at = l] \in Job
  BY DEF Job
<1>3. /\ \A j \in Job, v \in Nat : [j EXCEPT !.ver = v] \in Job /\ [j EXCEPT !.url = v] \in Job
      /\ \A j \in Job, n \in 0..2 : [j EXCEPT !.tries = n] \in Job
      /\ \A j \in Job, c \in Calls : [j EXCEPT !.call = c] \in Job
  BY DEF Job
<1>4. \A c \in Calls : FirstStep(c.kind) \in Steps
  BY CallFacts DEF FirstStep, Kinds, Steps, ByName, Changes
<1>5. job[r] \in Job
  BY DEF TypeOK
<1>6. ASSUME NEW j \in Job, job' = [job EXCEPT ![r] = j] PROVE job' \in [Requests -> Job]
  BY <1>6 DEF TypeOK
<1>7. CASE Arrive(r)
  BY <1>2, <1>3, <1>4, <1>5, <1>6, <1>7 DEF Arrive, Take
<1>8. CASE ReadRepo(r)
  <2>1. At(r, "repo") /\ User(r) \in Users /\ CallKind(r) \in CopyKinds
    BY <1>8 DEF ReadRepo, ControlInv, ControlOf, At, Steps
  <2>2. AfterLoad(job[r].call.kind) \in Steps
    BY <2>1 DEF AfterLoad, CallKind, CopyKinds, ByName, Steps
  <2>3. repo[User(r)] # None => repo[User(r)] \in Nat
    BY <2>1 DEF TypeOK
  <2> QED BY <1>2, <1>3, <1>5, <1>6, <1>8, <2>2, <2>3 DEF ReadRepo, Goto, Take, Steps
<1>9. CASE LoadRow(r)
  <2>1. User(r) \in Users /\ row[User(r)] \in Nat
    BY <1>9 DEF LoadRow, ControlInv, ControlOf, At, Steps, TypeOK
  <2>2. AfterRow(job[r].call.kind) \in Steps
    BY DEF AfterRow, Steps
  <2> QED BY <1>2, <1>3, <1>5, <1>6, <1>9, <2>1, <2>2 DEF LoadRow, Take
<1>10. CASE FillRepo(r)
  <2>1. CallKind(r) \in CopyKinds
    BY <1>10 DEF FillRepo, ControlInv, ControlOf, At, Steps
  <2>2. AfterLoad(job[r].call.kind) \in Steps
    BY <2>1 DEF AfterLoad, CallKind, CopyKinds, ByName, Steps
  <2> QED BY <1>2, <1>5, <1>6, <1>10, <2>2 DEF FillRepo, Goto
<1>11. CASE ReadView(r) \/ ReadProviderView(r) \/ ReadConfig(r) \/ ReadPhone(r)
  BY <1>1, <1>2, <1>5, <1>6, <1>11 DEF ReadView, ReadProviderView, ReadConfig, ReadPhone, Goto, Finish, Steps
<1>12. CASE ReadDomain(r) \/ ReadSite(r)
  <2>1. site \in Nat /\ (domain # None => domain \in Nat)
    BY DEF TypeOK
  <2> QED BY <1>1, <1>2, <1>3, <1>5, <1>6, <1>12, <2>1 DEF ReadDomain, ReadSite, Goto, Take, Finish, Steps
<1>13. CASE SetDomain(r) \/ SetView(r) \/ SetProviderView(r) \/ SetPhone(r)
  BY <1>1, <1>2, <1>5, <1>6, <1>13 DEF SetDomain, SetView, SetProviderView, SetPhone, Goto, Finish, Steps
<1>14. CASE Change(r)
  BY <1>1, <1>2, <1>5, <1>6, <1>14
     DEF Change, Save, DeleteRepo, DeleteView, DeleteSeamless, Reset, Goto, Finish, Succeed, Steps
<1>15. CASE Check(r)
  <2>1. job[r].tries + 1 \in 0..2
    BY <1>15 DEF Check, ControlInv, ControlOf, At, TypeOK, Job
  <2> QED BY <1>1, <1>2, <1>3, <1>5, <1>6, <1>15, <2>1 DEF Check, Goto, Take, Finish, Steps
<1>16. CASE RealUsername(r) /\ ~Check(r)
  BY <1>1, <1>2, <1>5, <1>6, <1>16
     DEF RealUsername, ReadFlag, FindConfig, Prepare, InsertConfig, SetFlag, Goto, Finish, Steps
<1> QED BY <1>7, <1>8, <1>9, <1>10, <1>11, <1>12, <1>13, <1>14, <1>15, <1>16 DEF Work, Load, Answer

\* Steps keep the control state.
LEMMA ControlStep ==
    ASSUME TypeOK, ControlInv, NEW r \in Requests, Work(r)
    PROVE  ControlInv'
<1>1. \A q \in Requests : ControlOf(q)
  BY DEF ControlInv
<1>2. ASSUME NEW q \in Requests, q # r PROVE ControlOf(q)'
  BY <1>1, <1>2, StepLocal DEF ControlOf, Active, User, CallKind
<1>3. ControlOf(r)'
  <2>1. CASE Arrive(r)
    <3>1. PICK c \in Calls : Take(r, [job[r] EXCEPT !.call = c], FirstStep(c.kind))
      BY <2>1 DEF Arrive
    <3>2. /\ job'[r].at = FirstStep(c.kind) /\ job'[r].call = c
          /\ job'[r].tries = job[r].tries /\ job[r].at = "idle"
      BY <2>1, <3>1, TakeCall DEF Arrive, At
    <3>3. User(r)' = Owner(c)
      BY <3>2 DEF User
    <3> QED BY <1>1, <3>2, <3>3, CallFacts
            DEF ControlOf, FirstStep, Kinds, Changes, CopyKinds, CallKind, ByName, Steps, Active
  <2>2. CASE ~Arrive(r) /\ Ended(r)
    BY <2>2 DEF ControlOf, Ended, Active, Steps
  <2>3. CASE ~Arrive(r) /\ Active(r) /\ job'[r].call = job[r].call /\ (Reads(r) \/ (Goes(r, job'[r].at) /\ Same(r)))
    <3>1. User(r)' = User(r) /\ CallKind(r)' = CallKind(r)
      BY <2>3 DEF User, CallKind
    <3>2. CASE Reads(r)
      <4>1. job[r].tries \in 0..2
        BY DEF TypeOK, Job
      <4> QED BY <1>1, <2>3, <3>1, <3>2, <4>1
         DEF ControlOf, Reads, AfterLoad, AfterRow, CopyKinds, ByName, Changes, CallKind, Active, Steps
    <3>3. CASE Goes(r, job'[r].at) /\ Same(r)
      <4>1. job[r].tries \in 0..2
        BY DEF TypeOK, Job
      <4> QED BY <1>1, <2>3, <3>1, <3>3, <4>1
         DEF ControlOf, Goes, Same, AfterLoad, CopyKinds, ByName, Changes, Active, Steps
    <3> QED BY <2>3, <3>2, <3>3
  <2> QED BY <2>1, <2>2, <2>3, StepMoves, StepLocal DEF Moves, Same
<1> QED BY <1>2, <1>3 DEF ControlInv

\* Steps keep the types.
LEMMA TypeStep ==
    ASSUME TypeOK, ControlInv, NEW r \in Requests, Work(r)
    PROVE  TypeOK'
<1>1. job' \in [Requests -> Job]
  BY JobTyped
<1>2. job[r] \in Job /\ job[r].ver \in Nat /\ job[r].url \in Nat
  BY DEF TypeOK, Job
<1>3. job[r].at \in Steps \ {"view", "reset"} => User(r) \in Users
  BY DEF ControlInv, ControlOf
<1>4. job[r].at \in {"flag", "find", "check", "prepare", "insert", "setflag"} =>
        job[r].call.name \in Users /\ job[r].call.spelt \in Spellings
  BY CallFacts DEF ControlInv, ControlOf, Active, Steps, CallKind, ByName
<1> USE <1>1, <1>2, <1>3, <1>4 DEF TypeOK, tableVars, cacheVars, historyVars, Goto, Take, Finish, At, Steps
<1>5. CASE Load(r)
  <2>1. /\ UNCHANGED <<tableVars, view, pview, phones, domain, flag, latest, refused, settled, flushed>>
        /\ \/ UNCHANGED repo
           \/ job[r].at = "fill" /\ repo' = [repo EXCEPT ![User(r)] = job[r].ver]
        /\ overlapped' \subseteq Requests
    BY <1>5 DEF Load, Arrive, ReadView, ReadProviderView, ReadConfig, ReadPhone, ReadRepo, LoadRow, FillRepo
  <2> QED BY <2>1
<1>6. CASE ReadDomain(r) \/ ReadSite(r) \/ SetDomain(r)
  BY <1>6 DEF ReadDomain, ReadSite, SetDomain
<1>7. CASE SetView(r)
  <2>1. [user |-> User(r), ver |-> job[r].ver, url |-> job[r].url] \in Views
    BY <1>7 DEF SetView, Views
  <2> QED BY <1>7, <2>1 DEF SetView
<1>8. CASE SetProviderView(r) \/ SetPhone(r)
  BY <1>8 DEF SetProviderView, SetPhone
<1>9. CASE Save(r)
  BY <1>9 DEF Save
<1>10. CASE DeleteRepo(r) \/ DeleteView(r)
  BY <1>10 DEF DeleteRepo, DeleteView
<1>11. CASE DeleteSeamless(r)
  <2>1. /\ view' \in [Names -> Views \cup {None}]
        /\ UNCHANGED <<tableVars, repo, pview, phones, domain, flag, latest, overlapped, refused>>
        /\ User(r) \in Users
    BY <1>11 DEF DeleteSeamless
  <2>2. settled' \in [Users -> Nat] /\ flushed' = flushed
    <3>1. settled' = settled \/ settled' = [settled EXCEPT ![User(r)] = row[User(r)]]
      BY <1>11 DEF DeleteSeamless, Succeed
    <3>2. row[User(r)] \in Nat
      BY <2>1
    <3>3. flushed' = flushed
      BY <1>11 DEF DeleteSeamless, Succeed
    <3> QED BY <3>1, <3>2, <3>3
  <2> HIDE DEF TypeOK
  <2> QED BY <2>1, <2>2 DEF TypeOK
<1>12. CASE Reset(r)
  <2>1. /\ repo' \in [Users -> Nat \cup {None}] /\ view' \in [Names -> Views \cup {None}]
        /\ {pview', phones'} \subseteq [Users -> Nat \cup {None}]
        /\ domain' = None /\ flag' = {}
    BY <1>12 DEF Reset, Flush
  <2>2. UNCHANGED <<row, site, config, latest, overlapped, refused>>
    BY <1>12 DEF Reset
  <2>3. /\ settled' \in [Users -> Nat]
        /\ flushed' \in [row : [Users -> Nat], site : Nat]
    BY <1>12 DEF Reset
  <2> HIDE DEF TypeOK
  <2> QED BY <2>1, <2>2, <2>3 DEF TypeOK
<1>13. CASE Check(r)
  BY <1>13 DEF Check
<1>14. CASE InsertConfig(r)
  BY <1>14 DEF InsertConfig
<1>15. CASE SetFlag(r)
  <2>1. FlagKey(job[r].call) \in Users \X BOOLEAN
    BY <1>15 DEF SetFlag, FlagKey
  <2> QED BY <1>15, <2>1 DEF SetFlag
<1>16. CASE ReadFlag(r) \/ FindConfig(r) \/ Prepare(r)
  BY <1>16 DEF ReadFlag, FindConfig, Prepare
<1> QED BY <1>5, <1>6, <1>7, <1>8, <1>9, <1>10, <1>11, <1>12, <1>13, <1>14, <1>15, <1>16
        DEF Work, Answer, Change, RealUsername

\* So do the surroundings.
LEMMA TypeOther ==
    ASSUME TypeOK, ControlInv, Move \/ Crash \/ UNCHANGED vars
    PROVE  TypeOK' /\ ControlInv'
<1>1. CASE Move
  BY <1>1 DEF Move, TypeOK, ControlInv, ControlOf, cacheVars, historyVars, Active, User, CallKind
<1>2. CASE Crash
  <2>1. After \in Job /\ After.at = "done"
    BY DEF Before, After, Job, NoCall
  <2>2. \A r \in Requests : job'[r] = After \/ (job'[r] = job[r] /\ ~Active(r))
    BY <1>2 DEF Crash
  <2>3. job' \in [Requests -> Job]
    BY <1>2, <2>1 DEF Crash, TypeOK
  <2>4. TypeOK'
    BY <1>2, <2>3 DEF Crash, TypeOK, tableVars, cacheVars, historyVars
  <2>5. ControlInv'
    BY <2>1, <2>2 DEF ControlInv, ControlOf, Active, Steps, User, CallKind
  <2> QED BY <2>4, <2>5
<1>3. CASE UNCHANGED vars
  BY <1>3 DEF vars, TypeOK, ControlInv, ControlOf, tableVars, cacheVars, historyVars, Active, User, CallKind
<1> QED BY <1>1, <1>2, <1>3

\* Lookups is well typed; in particular the loop of saveRealUsername asks the
\* provider at most twice (member.config.service.ts).
THEOREM TypeCorrect == Spec => []TypeOK
<1>1. TypeOK /\ ControlInv /\ [Next]_vars => TypeOK' /\ ControlInv'
  BY TypeStep, ControlStep, TypeOther DEF Next, Work, Rest
<1> QED BY TypeInit, <1>1, PTL DEF Spec
-------------------------------------------------------------------------------
(* Who runs alone.                                                         *)

\* Beside a request that works nobody else is alone.
LEMMA OthersOverlap ==
    ASSUME TypeOK, AloneInv, NEW r \in Requests, Work(r), NEW q \in Requests, q # r, Active(q)
    PROVE  /\ q \in overlapped'
           /\ ~Arrive(r) => r \in overlapped
<1>1. CASE Arrive(r)
  BY <1>1 DEF Arrive
<1>2. CASE ~Arrive(r)
  BY <1>2, StepLocal DEF AloneInv
<1> QED BY <1>1, <1>2

LEMMA AloneStep ==
    ASSUME TypeOK, AloneInv, NEW r \in Requests, Work(r)
    PROVE  AloneInv'
<1> SUFFICES ASSUME NEW p \in Requests, NEW q \in Requests, p # q, Active(p)', Active(q)'
             PROVE  p \in overlapped'
  BY DEF AloneInv
<1>1. \A s \in Requests : s # r => (Active(s)' <=> Active(s))
  BY StepLocal DEF Active
<1>2. CASE p # r
  <2>1. CASE q # r
    BY <1>1, <1>2, <2>1, StepLocal DEF AloneInv
  <2>2. CASE q = r
    BY <1>1, <1>2, <2>2, OthersOverlap
  <2> QED BY <2>1, <2>2
<1>3. CASE p = r
  <2>1. Active(q)
    BY <1>1, <1>3
  <2>2. CASE Arrive(r)
    BY <1>3, <2>1, <2>2 DEF Arrive
  <2>3. CASE ~Arrive(r)
    BY <1>3, <2>1, <2>3, OthersOverlap, StepLocal
  <2> QED BY <2>2, <2>3
<1> QED BY <1>2, <1>3

\* The facts the theorems rest on.
Base == TypeOK /\ ControlInv /\ AloneInv
LEMMA BaseStep ==
    /\ Init => Base
    /\ Base /\ [Next]_vars => Base'
<1>1. ASSUME Init PROVE AloneInv
  BY <1>1 DEF Init, AloneInv, Before, Active, Steps
<1>2. ASSUME Base, Move \/ Crash \/ UNCHANGED vars PROVE AloneInv'
  <2>1. overlapped' = overlapped
    BY <1>2 DEF Move, Crash, vars, historyVars
  <2>2. \A r \in Requests : Active(r)' => Active(r)
    BY <1>2 DEF Move, Crash, vars, Active, After, Before, Steps, Base, TypeOK
  <2> QED BY <1>2, <2>1, <2>2 DEF Base, AloneInv
<1> QED BY <1>1, <1>2, TypeInit, TypeStep, ControlStep, TypeOther, AloneStep DEF Base, Next, Work, Rest
-------------------------------------------------------------------------------
(* One provider row for a member.                                          *)

\* Only one step adds a row, and only for the request's call.
LEMMA ConfigStep ==
    ASSUME NEW r \in Requests, Work(r)
    PROVE  \/ UNCHANGED config
           \/ /\ job[r].at = "insert"
              /\ config' = config \cup {[user |-> job[r].call.name, spelt |-> job[r].call.spelt, by |-> r]}
BY DEF Work, Load, Answer, Change, RealUsername, Arrive, ReadView, ReadProviderView, ReadConfig, ReadPhone,
       ReadRepo, LoadRow, FillRepo, ReadDomain, ReadSite, SetDomain, SetView, SetProviderView, SetPhone,
       Save, DeleteRepo, DeleteView, DeleteSeamless, Reset, ReadFlag, FindConfig, Check, Prepare,
       InsertConfig, SetFlag, tableVars, At

LEMMA LookedStep ==
    ASSUME Base, LookedInv, NEW r \in Requests, Work(r)
    PROVE  LookedInv'
<1> USE DEF Base
<1> DEFINE new == [user |-> job[r].call.name, spelt |-> job[r].call.spelt, by |-> r]
<1> DEFINE Next0(u) == {c \in config' : c.user = u /\ c.spelt = "exact"}
<1>1. \A u : \A c \in Next0(u) : c \in ExactRows(u) \/ (c = new /\ job[r].at = "insert"
                                        /\ job[r].call.name = u /\ job[r].call.spelt = "exact")
  BY ConfigStep DEF ExactRows
<1>2. ASSUME NEW q \in Requests, q \notin overlapped', job'[q].at \in {"check", "prepare", "insert"},
             job'[q].call.spelt = "exact"
      PROVE  Next0(job'[q].call.name) = {}
  <2>1. q = r
    <3>1. SUFFICES ASSUME q # r PROVE FALSE
      OBVIOUS
    <3>2. Active(q)
      BY <1>2, <3>1, StepLocal DEF Active, Steps
    <3> QED BY <1>2, <3>1, <3>2, OthersOverlap
  <2>2. ~Arrive(r) /\ r \notin overlapped
    <3>1. r \notin overlapped
      BY <1>2, <2>1, StepLocal
    <3>2. ASSUME Arrive(r) PROVE FALSE
      <4>1. PICK c \in Calls : Take(r, [job[r] EXCEPT !.call = c], FirstStep(c.kind))
        BY <3>2 DEF Arrive
      <4>2. job'[r].at = FirstStep(c.kind)
        BY <4>1, TakeCall
      <4> QED BY <1>2, <2>1, <4>2, CallFacts DEF FirstStep, Kinds, ByName, Changes
    <3> QED BY <3>1, <3>2
  <2>3. job'[r].call = job[r].call /\ job[r].at \in {"find", "check", "prepare"}
    BY <1>2, <2>1, <2>2, StepMoves DEF Moves, Ended, Reads, Goes, Same, AfterLoad, AfterRow,
       ControlInv, ControlOf, CallKind, CopyKinds, ByName, Changes
  <2>4. ExactRows(job[r].call.name) = {}
    <3>1. CASE job[r].at = "find"
      <4>1. FindConfig(r)
        BY <2>2, <3>1 DEF Work, Load, Answer, Change, RealUsername, ReadView, ReadProviderView, ReadConfig,
           ReadPhone, ReadRepo, LoadRow, FillRepo, ReadDomain, ReadSite, SetDomain, SetView, SetProviderView,
           SetPhone, Save, DeleteRepo, DeleteView, DeleteSeamless, Reset, ReadFlag, Check, Prepare,
           InsertConfig, SetFlag, At
      <4>2. User(r) = job[r].call.name
        BY <3>1 DEF ControlInv, ControlOf, CallKind, User, Owner
      <4>3. ~\E c \in config : Finds(c, User(r))
        BY <1>2, <2>1, <4>1, FinishFields DEF FindConfig, Finish, Ended
      <4> QED BY <4>2, <4>3 DEF Finds, ExactRows
    <3>2. CASE job[r].at \in {"check", "prepare"}
      BY <1>2, <2>1, <2>2, <2>3, <3>2 DEF LookedInv
    <3> QED BY <2>3, <3>1, <3>2
  <2>5. Next0(job[r].call.name) \subseteq ExactRows(job[r].call.name)
    <3> HIDE DEF Next0, new
    <3>1. job[r].at # "insert"
      BY <2>3
    <3> QED BY <1>1, <3>1
  <2>6. Next0(job[r].call.name) = {}
    BY <2>4, <2>5
  <2>7. job'[q].call.name = job[r].call.name
    BY <2>1, <2>3
  <2> HIDE DEF Next0
  <2> QED BY <2>6, <2>7
<1>3. ASSUME NEW u \in Users, NEW c \in Next0(u), NEW d \in Next0(u),
             c.by \notin overlapped', d.by \notin overlapped'
      PROVE  c = d
  <2>1. c.by \notin overlapped /\ d.by \notin overlapped
    BY <1>3, StepLocal
  <2>2. CASE c \in ExactRows(u) /\ d \in ExactRows(u)
    BY <2>1, <2>2 DEF LookedInv
  <2>3. ASSUME c = new \/ d = new, job[r].at = "insert", job[r].call.name = u, job[r].call.spelt = "exact"
        PROVE  c = d
    <3>1. r \notin overlapped
      BY <2>1, <2>3
    <3>2. ExactRows(u) = {}
      BY <2>3, <3>1 DEF LookedInv
    <3> QED BY <1>1, <1>3, <3>2
  <2> QED BY <1>1, <1>3, <2>2, <2>3
<1>4. \A q \in Requests : q \notin overlapped' /\ job'[q].at \in {"check", "prepare", "insert"}
        /\ job'[q].call.spelt = "exact" => ExactRows(job[q].call.name)' = {}
  BY <1>2 DEF ExactRows
<1>5. \A u \in Users : \A c, d \in ExactRows(u)' : c.by \notin overlapped' /\ d.by \notin overlapped' => c = d
  BY <1>3 DEF ExactRows
<1> QED BY <1>4, <1>5 DEF LookedInv

\* Calls of Realusername that do not overlap save one row for a member, as long as
\* the username is spelt the way the lookup spells it (member.controller.ts:344-353).
THEOREM OneRowEach == Spec => []OneConfigRow
<1>1. Init => LookedInv
  BY DEF Init, LookedInv, ExactRows
<1>2. Base /\ LookedInv /\ [Next]_vars => LookedInv'
  <2>1. ASSUME Base, LookedInv, Move \/ Crash \/ UNCHANGED vars PROVE LookedInv'
    <3>1. config' = config /\ overlapped' = overlapped
      BY <2>1 DEF Move, Crash, vars, tableVars, historyVars
    <3>2. \A r \in Requests : job'[r] = job[r] \/ job'[r].at = "done"
      BY <2>1 DEF Move, Crash, vars, After, Before, Base, TypeOK
    <3> QED BY <2>1, <3>1, <3>2 DEF LookedInv, ExactRows
  <2> QED BY <2>1, LookedStep DEF Next, Work, Rest
<1>3. LookedInv => OneConfigRow
  <2> SUFFICES ASSUME LookedInv, NEW u \in Users
               PROVE  Cardinality({c \in config : c.user = u /\ c.spelt = "exact" /\ c.by \notin overlapped}) <= 1
    BY DEF OneConfigRow
  <2> DEFINE S == {c \in config : c.user = u /\ c.spelt = "exact" /\ c.by \notin overlapped}
  <2>1. \A c, d \in S : c = d
    BY DEF LookedInv, ExactRows
  <2>2. S = {} \/ \E c \in S : S = {c}
    BY <2>1
  <2>3. Cardinality(S) = 0 \/ Cardinality(S) = 1
    BY <2>2, FS_EmptySet, FS_Singleton
  <2> QED BY <2>3
<1> QED BY BaseStep, <1>1, <1>2, <1>3, PTL DEF Spec
-------------------------------------------------------------------------------
(* The flag.                                                               *)

LEMMA EarnedStep ==
    ASSUME Base, EarnedInv, FlagEarned, NEW r \in Requests, Work(r)
    PROVE  EarnedInv' /\ FlagEarned'
<1> USE DEF Base
<1>1. config \subseteq config'
  BY ConfigStep
<1>2. \/ UNCHANGED refused
      \/ refused' = refused \cup {User(r)} /\ Check(r) /\ job[r].tries = 1
  BY DEF Work, Load, Answer, Change, RealUsername, Arrive, ReadView, ReadProviderView, ReadConfig, ReadPhone,
     ReadRepo, LoadRow, FillRepo, ReadDomain, ReadSite, SetDomain, SetView, SetProviderView, SetPhone,
     Save, DeleteRepo, DeleteView, DeleteSeamless, Reset, ReadFlag, FindConfig, Check, Prepare,
     InsertConfig, SetFlag
<1>3. refused \subseteq refused'
  BY <1>2
<1>4. ASSUME NEW q \in Requests, q # r
      PROVE  /\ job'[q].tries = 2 => User(q)' \in refused'
             /\ job'[q].at = "setflag" => User(q)' \in refused' \/ \E c \in config' : c.user = User(q)'
  BY <1>1, <1>3, <1>4, StepLocal DEF EarnedInv, User
<1>5. /\ job'[r].tries = 2 => User(r)' \in refused'
      /\ job'[r].at = "setflag" => User(r)' \in refused' \/ \E c \in config' : c.user = User(r)'
  <2>1. CASE Arrive(r)
    <3>1. PICK c \in Calls : Take(r, [job[r] EXCEPT !.call = c], FirstStep(c.kind))
      BY <2>1 DEF Arrive
    <3>2. job'[r].at = FirstStep(c.kind) /\ job'[r].tries = job[r].tries /\ job[r].at = "idle"
      BY <2>1, <3>1, TakeCall DEF Arrive, At
    <3> QED BY <3>2, CallFacts DEF ControlInv, ControlOf, FirstStep, Kinds, ByName, Changes
  <2>2. CASE ~Arrive(r) /\ Ended(r)
    BY <2>2 DEF Ended
  <2>3. CASE Check(r) /\ ~Ended(r)
    <3>1. CASE Goto(r, "insert")
      BY <1>3, <2>3, <3>1, GotoFields DEF EarnedInv, Same, User
    <3>2. CASE Take(r, [job[r] EXCEPT !.tries = job[r].tries + 1], "prepare")
               /\ refused' = (IF job[r].tries = 1 THEN refused \cup {User(r)} ELSE refused)
      <4>1. job'[r].at = "prepare" /\ job'[r].tries = job[r].tries + 1 /\ User(r)' = User(r)
        BY <3>2, TakeTries DEF User
      <4>2. job[r].tries \in 0..2
        BY DEF TypeOK, Job
      <4> QED BY <3>2, <4>1, <4>2
    <3> QED BY <2>3, <3>1, <3>2, FinishFields DEF Check, Finish
  <2>4. CASE ~Arrive(r) /\ ~Ended(r) /\ ~Check(r)
    <3>1. job'[r].call = job[r].call /\ job'[r].tries = job[r].tries
      BY <2>4, StepMoves DEF Moves, Reads, Same, Work, RealUsername, Load, Answer, Change, ReadView,
         ReadProviderView, ReadConfig, ReadPhone, ReadRepo, LoadRow, FillRepo, ReadDomain, ReadSite, SetDomain,
         SetView, SetProviderView, SetPhone, Save, DeleteRepo, DeleteView, DeleteSeamless, Reset, ReadFlag,
         FindConfig, Prepare, InsertConfig, SetFlag, At
    <3>2. User(r)' = User(r)
      BY <3>1 DEF User
    <3>3. CASE job'[r].at # "setflag"
      BY <1>3, <3>1, <3>2, <3>3 DEF EarnedInv
    <3>4. CASE job'[r].at = "setflag"
      <4>1. \/ job[r].at = "prepare" /\ job[r].tries > 1
            \/ job[r].at = "insert"
        BY <2>4, <3>4, StepMoves DEF Moves, Reads, Goes, AfterLoad, AfterRow,
           ControlInv, ControlOf, CallKind, CopyKinds, ByName, Changes
      <4>2. CASE job[r].at = "prepare" /\ job[r].tries > 1
        <5>1. job[r].tries = 2
          BY <4>2 DEF TypeOK, Job
        <5> QED BY <1>3, <3>1, <3>2, <5>1 DEF EarnedInv
      <4>3. CASE job[r].at = "insert"
        <5>1. InsertConfig(r)
          BY <2>4, <4>3 DEF Work, Load, Answer, Change, RealUsername, ReadView, ReadProviderView, ReadConfig,
             ReadPhone, ReadRepo, LoadRow, FillRepo, ReadDomain, ReadSite, SetDomain, SetView, SetProviderView,
             SetPhone, Save, DeleteRepo, DeleteView, DeleteSeamless, Reset, ReadFlag, FindConfig, Check, Prepare,
             SetFlag, At
        <5>2. User(r) = job[r].call.name
          BY <4>3 DEF ControlInv, ControlOf, CallKind, User, Owner
        <5>3. config' = config \cup {[user |-> job[r].call.name, spelt |-> job[r].call.spelt, by |-> r]}
          BY <2>4, <5>1, FinishFields DEF InsertConfig, Finish
        <5> DEFINE new == [user |-> job[r].call.name, spelt |-> job[r].call.spelt, by |-> r]
        <5>4. new \in config' /\ new.user = User(r)
          BY <5>2, <5>3
        <5> HIDE DEF new
        <5>5. \E c \in config' : c.user = User(r)
          BY <5>4
        <5>6. \E c \in config' : c.user = User(r)'
          BY <3>2, <5>5
        <5>7. job'[r].tries = 2 => User(r)' \in refused'
          BY <1>3, <3>1, <3>2 DEF EarnedInv
        <5> QED BY <5>6, <5>7
      <4> QED BY <4>1, <4>2, <4>3
    <3> QED BY <3>3, <3>4
  <2> QED BY <2>1, <2>2, <2>3, <2>4
<1>6. FlagEarned'
  <2>1. \A k \in flag' : k \in flag \/ (SetFlag(r) /\ k = FlagKey(job[r].call))
    BY DEF Work, Load, Answer, Change, RealUsername, Arrive, ReadView, ReadProviderView, ReadConfig, ReadPhone,
       ReadRepo, LoadRow, FillRepo, ReadDomain, ReadSite, SetDomain, SetView, SetProviderView, SetPhone,
       Save, DeleteRepo, DeleteView, DeleteSeamless, Reset, ReadFlag, FindConfig, Check, Prepare,
       InsertConfig, cacheVars, SetFlag
  <2>2. ASSUME SetFlag(r) PROVE User(r) \in refused \/ \E c \in config : c.user = User(r)
    BY <2>2 DEF SetFlag, At, EarnedInv
  <2>3. SetFlag(r) => FlagKey(job[r].call)[1] = User(r)
    BY DEF SetFlag, At, FlagKey, ControlInv, ControlOf, CallKind, User, Owner
  <2> QED BY <1>1, <1>3, <2>1, <2>2, <2>3 DEF FlagEarned
<1> QED BY <1>4, <1>5, <1>6 DEF EarnedInv

\* The flag that stops later calls is set only when a row was saved or the provider
\* denied the member twice, whatever fails (member.controller.ts:349-359).
THEOREM FlagIsEarned == Spec => []FlagEarned
<1>1. Init => EarnedInv /\ FlagEarned
  BY DEF Init, EarnedInv, FlagEarned, Before
<1>2. Base /\ EarnedInv /\ FlagEarned /\ [Next]_vars => EarnedInv' /\ FlagEarned'
  <2>1. ASSUME Base, EarnedInv, FlagEarned, Move \/ Crash \/ UNCHANGED vars PROVE EarnedInv' /\ FlagEarned'
    <3>1. UNCHANGED <<config, refused, flag>>
      BY <2>1 DEF Move, Crash, vars, tableVars, cacheVars, historyVars
    <3>2. \A r \in Requests : job'[r] = job[r] \/ (job'[r].at = "done" /\ job'[r].tries = 0)
      BY <2>1 DEF Move, Crash, vars, After, Before, Base, TypeOK
    <3> QED BY <2>1, <3>1, <3>2 DEF EarnedInv, FlagEarned, User
  <2> QED BY <2>1, EarnedStep DEF Next, Work, Rest
<1> QED BY BaseStep, <1>1, <1>2, PTL DEF Spec
-------------------------------------------------------------------------------
(* What is settled and what was flushed.                                   *)

\* How a step changes the tables, the caches and the history.
Tables(r) ==
    /\ UNCHANGED site
    /\ \/ UNCHANGED <<row, latest>>
       \/ /\ job[r].at \in {"save", "resave"} /\ UNCHANGED latest
          /\ row' = [row EXCEPT ![User(r)] = job[r].ver]
       \/ /\ job[r].at \in {"save", "resave"}
          /\ latest' = [latest EXCEPT ![User(r)] = @ + 1]
          /\ row' = [row EXCEPT ![User(r)] = latest[User(r)] + 1]
RepoMoves(r) ==
    \/ UNCHANGED repo
    \/ job[r].at = "fill" /\ repo' = [repo EXCEPT ![User(r)] = job[r].ver]
    \/ job[r].at \in {"delrepo", "delagain"} /\ repo' = [repo EXCEPT ![User(r)] = None]
    \/ Reset(r)
ViewMoves(r) ==
    \/ UNCHANGED view
    \/ /\ job[r].at = "setview"
       /\ view' = [view EXCEPT ![job[r].call.name] = [user |-> User(r), ver |-> job[r].ver, url |-> job[r].url]]
    \/ job[r].at = "delview" /\ view' = [view EXCEPT ![User(r)] = None]
    \/ job[r].at = "delseamless" /\ view' = [view EXCEPT ![Seamless[User(r)]] = None]
    \/ Reset(r)
OtherMoves(r) ==
    \/ UNCHANGED <<pview, phones, domain>>
    \/ /\ job[r].at = "setpview" /\ UNCHANGED <<phones, domain>>
       /\ pview' = [pview EXCEPT ![job[r].call.name] = job[r].ver]
    \/ /\ job[r].at = "setphone" /\ UNCHANGED <<pview, domain>>
       /\ phones' = [phones EXCEPT ![job[r].call.name] = job[r].ver]
    \/ job[r].at = "setdomain" /\ UNCHANGED <<pview, phones>> /\ domain' = job[r].url
    \/ Reset(r)
Settles(r) ==
    /\ job[r].at = "delseamless" /\ r \notin overlapped /\ DeleteSeamless(r)
    /\ settled' = [settled EXCEPT ![User(r)] = row[User(r)]] /\ UNCHANGED flushed
History(r) == UNCHANGED <<settled, flushed>> \/ Settles(r) \/ (Reset(r) /\ r \notin overlapped)

LEMMA Effects ==
    ASSUME NEW r \in Requests, Work(r)
    PROVE  Tables(r) /\ RepoMoves(r) /\ ViewMoves(r) /\ OtherMoves(r) /\ History(r)
<1> USE DEF At, tableVars, cacheVars, Goto, Take, Finish, Succeed
<1>1. CASE Load(r)
  <2>1. /\ UNCHANGED <<tableVars, view, pview, phones, domain, latest, settled, flushed>>
        /\ UNCHANGED repo \/ (job[r].at = "fill" /\ repo' = [repo EXCEPT ![User(r)] = job[r].ver])
    BY <1>1 DEF Load, Arrive, ReadView, ReadProviderView, ReadConfig, ReadPhone, ReadRepo, LoadRow, FillRepo
  <2> QED BY <2>1 DEF Tables, RepoMoves, ViewMoves, OtherMoves, History
<1>2. CASE Answer(r)
  <2>1. UNCHANGED <<tableVars, repo, latest, settled, flushed>>
    BY <1>2 DEF Answer, ReadDomain, ReadSite, SetDomain, SetView, SetProviderView, SetPhone
  <2>2. ViewMoves(r) /\ OtherMoves(r)
    BY <1>2 DEF Answer, ReadDomain, ReadSite, SetDomain, SetView, SetProviderView, SetPhone, ViewMoves, OtherMoves
  <2> QED BY <2>1, <2>2 DEF Tables, RepoMoves, History
<1>3. CASE Save(r)
  BY <1>3 DEF Save, Tables, RepoMoves, ViewMoves, OtherMoves, History
<1>4. CASE DeleteRepo(r) \/ DeleteView(r)
  <2>1. UNCHANGED <<tableVars, latest, pview, phones, domain, settled, flushed>> /\ RepoMoves(r) /\ ViewMoves(r)
    BY <1>4 DEF DeleteRepo, DeleteView, RepoMoves, ViewMoves
  <2> QED BY <2>1 DEF Tables, OtherMoves, History
<1>5. CASE DeleteSeamless(r)
  BY <1>5 DEF DeleteSeamless, SeamlessKey, Tables, RepoMoves, ViewMoves, OtherMoves, History, Settles
<1>6. CASE Reset(r)
  <2>1. UNCHANGED <<tableVars, latest>> /\ History(r)
    BY <1>6 DEF Reset, History
  <2> QED BY <1>6, <2>1 DEF Tables, RepoMoves, ViewMoves, OtherMoves
<1>7. CASE RealUsername(r)
  <2>1. UNCHANGED <<row, site, repo, view, pview, phones, domain, latest, settled, flushed>>
    BY <1>7 DEF RealUsername, ReadFlag, FindConfig, Check, Prepare, InsertConfig, SetFlag
  <2> QED BY <2>1 DEF Tables, RepoMoves, ViewMoves, OtherMoves, History
<1> QED BY <1>1, <1>2, <1>3, <1>4, <1>5, <1>6, <1>7 DEF Work, Change

\* Where what a request has in hand comes from.
LEMMA Loaded ==
    ASSUME Base, NEW r \in Requests, Work(r)
    PROVE  /\ job'[r].at \in HasRow \/ job'[r].at \in {"delrepo", "delview", "delseamless"} =>
                ~Arrive(r) /\ User(r)' = User(r) /\ CallKind(r)' = CallKind(r) /\ User(r) \in Users
           /\ job'[r].at \in HasRow =>
                \/ job[r].at \in HasRow /\ job'[r].ver = job[r].ver
                \/ repo[User(r)] # None /\ job'[r].ver = repo[User(r)]
                \/ job'[r].ver = row[User(r)]
           /\ job'[r].at \in HasUrl =>
                \/ job[r].at \in HasUrl /\ job'[r].url = job[r].url
                \/ domain # None /\ job'[r].url = domain
                \/ job'[r].url = site
<1> USE DEF Base, HasRow, HasUrl
<1>1. CASE Arrive(r)
  <2>1. PICK c \in Calls : Take(r, [job[r] EXCEPT !.call = c], FirstStep(c.kind))
    BY <1>1 DEF Arrive
  <2>2. job'[r].at = FirstStep(c.kind)
    BY <2>1, TakeCall
  <2> QED BY <2>2, CallFacts DEF FirstStep, Kinds, ByName, Changes
<1>2. CASE ~Arrive(r) /\ Ended(r)
  BY <1>2 DEF Ended
<1>3. CASE ~Arrive(r) /\ ~Ended(r)
  <2>1. job'[r].call = job[r].call
    BY <1>3, StepMoves DEF Moves, Same
  <2>2. User(r)' = User(r) /\ CallKind(r)' = CallKind(r)
    BY <2>1 DEF User, CallKind
  <2>3. CASE Reads(r)
    BY <1>3, <2>2, <2>3 DEF Reads, AfterLoad, AfterRow, ControlInv, ControlOf, Steps, CallKind, CopyKinds, ByName, Changes
  <2>4. CASE Goes(r, job'[r].at) /\ Same(r)
    BY <1>3, <2>2, <2>4 DEF Goes, Same, AfterLoad, ControlInv, ControlOf, Steps, CopyKinds, ByName, Changes
  <2> QED BY <1>3, <2>3, <2>4, StepMoves DEF Moves
<1> QED BY <1>1, <1>2, <1>3

\* A request that is alone has nobody beside it.
LEMMA Alone ==
    ASSUME Base, NEW r \in Requests, Work(r), ~Arrive(r), r \notin overlapped, NEW q \in Requests, q # r
    PROVE  ~Active(q)
BY OthersOverlap DEF Base

LEMMA ResetFacts ==
    ASSUME Base, NEW r \in Requests, Reset(r)
    PROVE  /\ ~Arrive(r) /\ job'[r].at = "done" /\ UNCHANGED <<row, site, latest>>
           /\ \A u \in Users : repo'[u] = None /\ pview'[u] = None /\ phones'[u] = None
           /\ \A n \in Names : view'[n] = None
           /\ domain' = None
           /\ r \in overlapped => UNCHANGED <<settled, flushed>>
           /\ r \notin overlapped => settled' = row /\ flushed'.row = row /\ flushed'.site = site
<1>1. job'[r].at = "done"
  BY FinishFields DEF Reset, Ended, Base
<1> QED BY <1>1 DEF Reset, Arrive, At, Flush, tableVars, Base, TypeOK

LEMMA SettlesFacts ==
    ASSUME Base, NEW r \in Requests, Settles(r)
    PROVE  /\ ~Arrive(r) /\ job'[r].at = "done" /\ User(r) \in Users
           /\ UNCHANGED <<row, site, latest, repo, flushed, domain, pview, phones>>
           /\ view' = [view EXCEPT ![Seamless[User(r)]] = None]
           /\ \A u \in Users : settled'[u] = IF u = User(r) THEN row[u] ELSE settled[u]
<1>1. User(r) \in Users
  BY DEF Settles, Base, ControlInv, ControlOf, Steps
<1>2. job'[r].at = "done"
  BY FinishFields DEF Settles, DeleteSeamless, Finish, Succeed, Ended, Base
<1> QED BY <1>1, <1>2 DEF Settles, DeleteSeamless, SeamlessKey, Arrive, At, tableVars, Base, TypeOK

\* The rows and what requests have read.
LEMMA RowsStep ==
    ASSUME Base, RowsInv, SiteInv, ReadInv, NEW r \in Requests, Work(r)
    PROVE  RowsInv' /\ SiteInv'
<1> USE DEF Base
<1>1. Tables(r) /\ RepoMoves(r) /\ History(r)
  BY Effects
<1>2. \A u \in Users : /\ row[u] \in Nat /\ latest[u] \in Nat /\ settled[u] \in Nat /\ flushed.row[u] \in Nat
                       /\ repo[u] # None => repo[u] \in Nat
  BY DEF TypeOK
<1>3. job[r].at \in {"save", "resave", "fill", "delrepo", "delagain"} => User(r) \in Users
  BY DEF ControlInv, ControlOf, Steps
<1>4. job[r].ver \in Nat
  BY DEF TypeOK, Job
<1>5. \A u \in Users : /\ row'[u] <= latest'[u] /\ latest[u] <= latest'[u]
                       /\ flushed.row[u] <= row'[u]
  <2> TAKE u \in Users
  <2>1. /\ row[u] <= latest[u] /\ flushed.row[u] <= row[u] /\ flushed.row[u] <= latest[u]
        /\ row[u] \in Nat /\ latest[u] \in Nat /\ flushed.row[u] \in Nat
    BY <1>2 DEF RowsInv
  <2>2. CASE UNCHANGED <<row, latest>>
    BY <2>1, <2>2
  <2>3. CASE job[r].at \in {"save", "resave"} /\ UNCHANGED latest /\ row' = [row EXCEPT ![User(r)] = job[r].ver]
    <3>1. job[r].ver >= flushed.row[User(r)] /\ job[r].ver <= latest[User(r)]
      BY <2>3 DEF ReadInv, HasRow
    <3>2. row'[u] = IF u = User(r) THEN job[r].ver ELSE row[u]
      BY <2>3 DEF TypeOK
    <3> QED BY <1>4, <2>1, <2>3, <3>1, <3>2
  <2>4. CASE /\ latest' = [latest EXCEPT ![User(r)] = @ + 1]
             /\ row' = [row EXCEPT ![User(r)] = latest[User(r)] + 1]
    <3>1. /\ row'[u] = IF u = User(r) THEN latest[u] + 1 ELSE row[u]
          /\ latest'[u] = IF u = User(r) THEN latest[u] + 1 ELSE latest[u]
      BY <2>4 DEF TypeOK
    <3> QED BY <2>1, <3>1
  <2> QED BY <1>1, <2>2, <2>3, <2>4 DEF Tables
<1>6. \A u \in Users : repo'[u] # None => repo'[u] <= latest[u] /\ repo'[u] >= flushed.row[u]
  <2> TAKE u \in Users
  <2>1. repo[u] # None => repo[u] <= latest[u] /\ repo[u] >= flushed.row[u]
    BY DEF RowsInv
  <2>2. CASE UNCHANGED repo
    BY <2>1, <2>2
  <2>3. CASE job[r].at = "fill" /\ repo' = [repo EXCEPT ![User(r)] = job[r].ver]
    <3>1. job[r].ver >= flushed.row[User(r)] /\ job[r].ver <= latest[User(r)]
      BY <2>3 DEF ReadInv, HasRow
    <3>2. repo'[u] = IF u = User(r) THEN job[r].ver ELSE repo[u]
      BY <2>3 DEF TypeOK
    <3> QED BY <2>1, <3>1, <3>2
  <2>4. CASE repo' = [repo EXCEPT ![User(r)] = None]
    <3>1. repo'[u] = IF u = User(r) THEN None ELSE repo[u]
      BY <2>4 DEF TypeOK
    <3> QED BY <2>1, <3>1
  <2>5. CASE Reset(r)
    BY <2>5, ResetFacts
  <2> QED BY <1>1, <2>2, <2>3, <2>4, <2>5 DEF RepoMoves
<1>7. \A u \in Users : repo'[u] # None => repo'[u] \in Nat
  BY <1>1, TypeStep DEF TypeOK
<1>8. \A u \in Users : latest'[u] \in Nat
  BY TypeStep DEF TypeOK
<1>9. CASE UNCHANGED <<settled, flushed>>
  <2>1. SiteInv'
    BY <1>1, <1>9 DEF Tables, SiteInv
  <2>2. ASSUME NEW u \in Users
        PROVE  /\ row'[u] <= latest'[u] /\ settled'[u] <= latest'[u]
               /\ flushed'.row[u] <= row'[u] /\ flushed'.row[u] <= latest'[u]
               /\ repo'[u] # None => repo'[u] <= latest'[u] /\ repo'[u] >= flushed'.row[u]
    <3>1. settled[u] <= latest[u] /\ flushed.row[u] <= latest[u]
      BY DEF RowsInv
    <3> QED BY <1>2, <1>5, <1>6, <1>7, <1>8, <1>9, <3>1
  <2> QED BY <2>1, <2>2 DEF RowsInv
<1>10. CASE Settles(r)
  <2>1. SiteInv'
    BY <1>10, SettlesFacts DEF SiteInv
  <2>2. ASSUME NEW u \in Users
        PROVE  /\ row'[u] <= latest'[u] /\ settled'[u] <= latest'[u]
               /\ flushed'.row[u] <= row'[u] /\ flushed'.row[u] <= latest'[u]
               /\ repo'[u] # None => repo'[u] <= latest'[u] /\ repo'[u] >= flushed'.row[u]
    BY <1>10, SettlesFacts DEF RowsInv
  <2> QED BY <2>1, <2>2 DEF RowsInv
<1>11. CASE Reset(r) /\ r \notin overlapped
  <2>1. SiteInv'
    BY <1>2, <1>11, ResetFacts DEF SiteInv, TypeOK
  <2>2. ASSUME NEW u \in Users
        PROVE  /\ row'[u] <= latest'[u] /\ settled'[u] <= latest'[u]
               /\ flushed'.row[u] <= row'[u] /\ flushed'.row[u] <= latest'[u]
               /\ repo'[u] # None => repo'[u] <= latest'[u] /\ repo'[u] >= flushed'.row[u]
    BY <1>2, <1>11, ResetFacts DEF RowsInv
  <2> QED BY <2>1, <2>2 DEF RowsInv
<1> QED BY <1>1, <1>9, <1>10, <1>11 DEF History

\* What the change of the step does to what is settled, for a request still at work.
LEMMA Unsettled ==
    ASSUME Base, NEW r \in Requests, Work(r), NEW q \in Requests, Active(q)'
    PROVE  UNCHANGED <<settled, flushed>>
<1>1. CASE Settles(r) \/ (Reset(r) /\ r \notin overlapped)
  <2>1. ~Arrive(r) /\ job'[r].at = "done" /\ r \notin overlapped
    BY <1>1, SettlesFacts, ResetFacts DEF Settles
  <2>2. q # r
    BY <2>1 DEF Active, Steps
  <2>3. job'[q] = job[q]
    BY <2>2, StepLocal DEF Base
  <2>4. Active(q)
    BY <2>3 DEF Active
  <2> QED BY <2>1, <2>2, <2>4, Alone
<1> QED BY <1>1, Effects DEF History

LEMMA ReadStep ==
    ASSUME Base, RowsInv, SiteInv, ReadInv, SettledSeen, FlushedSeen, NEW r \in Requests, Work(r)
    PROVE  ReadInv'
<1> USE DEF Base
<1>1. Tables(r)
  BY Effects
<1>2. \A u \in Users : /\ row[u] \in Nat /\ latest[u] \in Nat /\ latest'[u] \in Nat
                       /\ settled[u] \in Nat /\ flushed.row[u] \in Nat
                       /\ repo[u] # None => repo[u] \in Nat
  BY TypeStep DEF TypeOK
<1>3. \A u \in Users : latest[u] <= latest'[u]
  BY <1>1, <1>2 DEF Tables, TypeOK
<1>4. ASSUME NEW q \in Requests, job'[q].at \in HasRow
      PROVE  /\ job'[q].ver >= settled'[User(q)'] /\ job'[q].ver >= flushed'.row[User(q)']
             /\ job'[q].ver <= latest'[User(q)']
  <2>1. UNCHANGED <<settled, flushed>>
    BY <1>4, Unsettled DEF Active, Steps, HasRow
  <2>2. CASE q # r
    <3>1. job'[q] = job[q]
      BY <2>2, StepLocal
    <3>2. User(q)' = User(q)
      BY <3>1 DEF User
    <3>3. User(q) \in Users /\ job[q].ver \in Nat
      BY <1>4, <3>1 DEF ControlInv, ControlOf, HasRow, Steps, TypeOK, Job
    <3>4. /\ job[q].ver >= settled[User(q)] /\ job[q].ver >= flushed.row[User(q)]
          /\ job[q].ver <= latest[User(q)]
      BY <1>4, <3>1 DEF ReadInv
    <3> QED BY <1>2, <1>3, <2>1, <3>1, <3>2, <3>3, <3>4
  <2>3. CASE q = r
    <3>1. User(r)' = User(r) /\ User(r) \in Users
      BY <1>4, <2>3, Loaded
    <3>2. \/ job[r].at \in HasRow /\ job'[r].ver = job[r].ver
          \/ repo[User(r)] # None /\ job'[r].ver = repo[User(r)]
          \/ job'[r].ver = row[User(r)]
      BY <1>4, <2>3, Loaded
    <3>3. /\ job'[r].ver \in Nat
          /\ job'[r].ver >= settled[User(r)] /\ job'[r].ver >= flushed.row[User(r)]
          /\ job'[r].ver <= latest[User(r)]
      <4>1. CASE job[r].at \in HasRow /\ job'[r].ver = job[r].ver
        BY <4>1 DEF ReadInv, TypeOK, Job
      <4>2. CASE repo[User(r)] # None /\ job'[r].ver = repo[User(r)]
        BY <1>2, <3>1, <4>2 DEF RowsInv, SettledSeen
      <4>3. CASE job'[r].ver = row[User(r)]
        BY <1>2, <3>1, <4>3 DEF RowsInv, SettledSeen
      <4> QED BY <3>2, <4>1, <4>2, <4>3
    <3> QED BY <1>2, <1>3, <2>1, <2>3, <3>1, <3>3
  <2> QED BY <2>2, <2>3
<1>5. ASSUME NEW q \in Requests, job'[q].at \in HasUrl
      PROVE  job'[q].url >= flushed'.site
  <2>1. UNCHANGED <<settled, flushed>>
    BY <1>5, Unsettled DEF Active, Steps, HasUrl
  <2>2. CASE q # r
    BY <1>5, <2>1, <2>2, StepLocal DEF ReadInv
  <2>3. CASE q = r
    <3>1. \/ job[r].at \in HasUrl /\ job'[r].url = job[r].url
          \/ domain # None /\ job'[r].url = domain
          \/ job'[r].url = site
      BY <1>5, <2>3, Loaded
    <3> QED BY <2>1, <2>3, <3>1 DEF ReadInv, FlushedSeen, SiteInv
  <2> QED BY <2>2, <2>3
<1> QED BY <1>4, <1>5 DEF ReadInv

\* What a request that is alone has deleted.
LEMMA DeletedStep ==
    ASSUME Base, DeletedInv, NEW r \in Requests, Work(r)
    PROVE  DeletedInv'
<1> USE DEF Base
<1>1. ASSUME NEW q \in Requests, q \notin overlapped', job'[q].at \in {"delrepo", "delview", "delseamless"}
      PROVE  /\ q = r /\ ~Arrive(r) /\ q \notin overlapped
             /\ User(r)' = User(r) /\ CallKind(r)' = CallKind(r) /\ User(r) \in Users
             /\ job'[r].at = "delview" /\ CallKind(r) # "ClearCache" =>
                  job[r].at \in {"delrepo", "delagain"} /\ DeleteRepo(r)
             /\ job'[r].at = "delrepo" /\ CallKind(r) = "ClearCache" => job[r].at = "delview" /\ DeleteView(r)
             /\ job'[r].at = "delseamless" =>
                  \/ CallKind(r) = "ClearCache" /\ job[r].at \in {"delrepo", "delagain"} /\ DeleteRepo(r)
                  \/ CallKind(r) # "ClearCache" /\ job[r].at = "delview" /\ DeleteView(r)
  <2>1. q = r
    <3>1. SUFFICES ASSUME q # r PROVE FALSE
      OBVIOUS
    <3>2. Active(q)
      BY <1>1, <3>1, StepLocal DEF Active, Steps
    <3> QED BY <1>1, <3>1, <3>2, OthersOverlap
  <2>2. ~Arrive(r) /\ User(r)' = User(r) /\ CallKind(r)' = CallKind(r) /\ User(r) \in Users
    BY <1>1, <2>1, Loaded
  <2>3. q \notin overlapped
    BY <1>1, StepLocal
  <2>4. \/ Goes(r, job'[r].at)
        \/ Reads(r)
    BY <1>1, <2>1, <2>2, StepMoves DEF Moves, Ended
  <2>5. Reads(r) => job'[r].at = "delview" /\ CallKind(r) = "ClearCache"
    BY <1>1, <2>1, <2>2 DEF Reads, AfterLoad, AfterRow, ControlInv, ControlOf, CallKind, CopyKinds, ByName, Changes
  <2>6. /\ job'[r].at = "delview" /\ CallKind(r) # "ClearCache" => job[r].at \in {"delrepo", "delagain"}
        /\ job'[r].at = "delrepo" /\ CallKind(r) = "ClearCache" => job[r].at = "delview"
        /\ job'[r].at = "delseamless" =>
             \/ CallKind(r) = "ClearCache" /\ job[r].at \in {"delrepo", "delagain"}
             \/ CallKind(r) # "ClearCache" /\ job[r].at = "delview"
    BY <1>1, <2>1, <2>4, <2>5 DEF Goes, AfterLoad, ControlInv, ControlOf, CallKind, CopyKinds, ByName, Changes
  <2>7. job[r].at \in {"delrepo", "delagain"} => DeleteRepo(r)
    BY <2>2 DEF Work, Load, Answer, Change, RealUsername, ReadView, ReadProviderView, ReadConfig,
       ReadPhone, ReadRepo, LoadRow, FillRepo, ReadDomain, ReadSite, SetDomain, SetView, SetProviderView,
       SetPhone, Save, DeleteView, DeleteSeamless, Reset, ReadFlag, FindConfig, Check, Prepare,
       InsertConfig, SetFlag, At
  <2>8. job[r].at = "delview" => DeleteView(r)
    BY <2>2 DEF Work, Load, Answer, Change, RealUsername, ReadView, ReadProviderView, ReadConfig,
       ReadPhone, ReadRepo, LoadRow, FillRepo, ReadDomain, ReadSite, SetDomain, SetView, SetProviderView,
       SetPhone, Save, DeleteRepo, DeleteSeamless, Reset, ReadFlag, FindConfig, Check, Prepare,
       InsertConfig, SetFlag, At
  <2> QED BY <2>1, <2>2, <2>3, <2>6, <2>7, <2>8
<1>2. User(r) \in Users /\ DeleteRepo(r) => repo'[User(r)] = None /\ view' = view
  BY DEF DeleteRepo, TypeOK
<1>3. User(r) \in Users /\ DeleteView(r) => view'[User(r)] = None /\ repo' = repo
  BY NamesAssumption DEF DeleteView, TypeOK
<1>4. ASSUME NEW q \in Requests, q \notin overlapped'
      PROVE  /\ job'[q].at \in {"delview", "delseamless"} /\ CallKind(q)' # "ClearCache" => repo'[User(q)'] = None
             /\ job'[q].at = "delseamless" => repo'[User(q)'] = None /\ view'[User(q)'] = None
             /\ job'[q].at = "delrepo" /\ CallKind(q)' = "ClearCache" => view'[User(q)'] = None
  <2>1. SUFFICES ASSUME job'[q].at \in {"delrepo", "delview", "delseamless"}
                 PROVE  /\ job'[q].at \in {"delview", "delseamless"} /\ CallKind(q)' # "ClearCache" => repo'[User(q)'] = None
                        /\ job'[q].at = "delseamless" => repo'[User(q)'] = None /\ view'[User(q)'] = None
                        /\ job'[q].at = "delrepo" /\ CallKind(q)' = "ClearCache" => view'[User(q)'] = None
    OBVIOUS
  <2>2. /\ q = r /\ ~Arrive(r) /\ q \notin overlapped
        /\ User(r)' = User(r) /\ CallKind(r)' = CallKind(r) /\ User(r) \in Users
    BY <1>1, <1>4, <2>1
  <2>3. /\ job[r].at = "delview" /\ CallKind(r) # "ClearCache" => repo[User(r)] = None
        /\ job[r].at = "delrepo" /\ CallKind(r) = "ClearCache" => view[User(r)] = None
    BY <2>2 DEF DeletedInv
  <2>4. job[r].at = "delagain" => CallKind(r) # "ClearCache"
    BY DEF ControlInv, ControlOf
  <2>5. CASE job'[r].at = "delrepo"
    BY <1>1, <1>3, <1>4, <2>2, <2>5
  <2>6. CASE job'[r].at = "delview"
    BY <1>1, <1>2, <1>4, <2>2, <2>6
  <2>7. CASE job'[r].at = "delseamless"
    <3>1. CASE CallKind(r) = "ClearCache"
      <4>1. DeleteRepo(r) /\ job[r].at = "delrepo"
        BY <1>1, <1>4, <2>2, <2>4, <2>7, <3>1
      <4> QED BY <1>2, <2>2, <2>3, <2>7, <3>1, <4>1
    <3>2. CASE CallKind(r) # "ClearCache"
      <4>1. DeleteView(r) /\ job[r].at = "delview"
        BY <1>1, <1>4, <2>2, <2>7, <3>2
      <4> QED BY <1>3, <2>2, <2>3, <2>7, <3>2, <4>1
    <3> QED BY <3>1, <3>2
  <2> QED BY <2>1, <2>2, <2>5, <2>6, <2>7
<1> QED BY <1>4 DEF DeletedInv

LEMMA SettledStep ==
    ASSUME Base, RowsInv, ReadInv, DeletedInv, SettledSeen, NEW r \in Requests, Work(r)
    PROVE  SettledSeen'
<1> USE DEF Base
<1>1. Tables(r) /\ RepoMoves(r) /\ ViewMoves(r)
  BY Effects
<1>2. \A u \in Users : /\ u \in Names /\ Seamless[u] \in Names
                       /\ row[u] \in Nat /\ latest[u] \in Nat /\ settled[u] \in Nat
                       /\ settled[u] <= latest[u]
  BY NamesAssumption DEF TypeOK, RowsInv
<1>3. job[r].at \in HasRow \cup {"delrepo", "delagain", "delview", "delseamless"} => User(r) \in Users
  BY DEF ControlInv, ControlOf, Steps, HasRow
<1>4. job[r].at \in HasRow => job[r].ver >= settled[User(r)] /\ job[r].ver \in Nat
  BY DEF ReadInv, TypeOK, Job
<1>5. ASSUME NEW u \in Users PROVE row'[u] >= settled[u]
  <2>1. row[u] >= settled[u]
    BY DEF SettledSeen
  <2>2. CASE UNCHANGED row
    BY <2>1, <2>2
  <2>3. CASE job[r].at \in {"save", "resave"} /\ row' = [row EXCEPT ![User(r)] = job[r].ver]
    <3>1. row'[u] = IF u = User(r) THEN job[r].ver ELSE row[u]
      BY <2>3 DEF TypeOK
    <3> QED BY <1>4, <2>1, <2>3, <3>1 DEF HasRow
  <2>4. CASE row' = [row EXCEPT ![User(r)] = latest[User(r)] + 1]
    <3>1. row'[u] = IF u = User(r) THEN latest[u] + 1 ELSE row[u]
      BY <2>4 DEF TypeOK
    <3> QED BY <1>2, <2>1, <3>1
  <2> QED BY <1>1, <2>2, <2>3, <2>4 DEF Tables
<1>6. ASSUME NEW u \in Users PROVE repo'[u] # None => repo'[u] >= settled[u]
  <2>1. repo[u] # None => repo[u] >= settled[u]
    BY DEF SettledSeen
  <2>2. CASE UNCHANGED repo
    BY <2>1, <2>2
  <2>3. CASE job[r].at = "fill" /\ repo' = [repo EXCEPT ![User(r)] = job[r].ver]
    <3>1. repo'[u] = IF u = User(r) THEN job[r].ver ELSE repo[u]
      BY <2>3 DEF TypeOK
    <3> QED BY <1>4, <2>1, <2>3, <3>1 DEF HasRow
  <2>4. CASE repo' = [repo EXCEPT ![User(r)] = None]
    <3>1. repo'[u] = IF u = User(r) THEN None ELSE repo[u]
      BY <2>4 DEF TypeOK
    <3> QED BY <2>1, <3>1
  <2>5. CASE Reset(r)
    BY <2>5, ResetFacts
  <2> QED BY <1>1, <2>2, <2>3, <2>4, <2>5 DEF RepoMoves
<1>7. ASSUME NEW u \in Users, NEW n \in {u, Seamless[u]}
      PROVE  view'[n] # None /\ view'[n].user = u => view'[n].ver >= settled[u]
  <2>1. view[n] # None /\ view[n].user = u => view[n].ver >= settled[u]
    BY DEF SettledSeen
  <2>2. n \in Names
    BY <1>2
  <2>3. CASE UNCHANGED view
    BY <2>1, <2>3
  <2>4. CASE /\ job[r].at = "setview"
             /\ view' = [view EXCEPT ![job[r].call.name] =
                            [user |-> User(r), ver |-> job[r].ver, url |-> job[r].url]]
    <3>1. view'[n] = IF n = job[r].call.name
                     THEN [user |-> User(r), ver |-> job[r].ver, url |-> job[r].url] ELSE view[n]
      BY <2>2, <2>4 DEF TypeOK
    <3> QED BY <1>4, <2>1, <2>4, <3>1 DEF HasRow
  <2>5. ASSUME NEW k, view' = [view EXCEPT ![k] = None]
        PROVE  view'[n] # None /\ view'[n].user = u => view'[n].ver >= settled[u]
    <3>1. view'[n] = IF n = k THEN None ELSE view[n]
      BY <2>2, <2>5 DEF TypeOK
    <3> QED BY <2>1, <3>1
  <2>6. CASE Reset(r)
    BY <2>2, <2>6, ResetFacts
  <2> QED BY <1>1, <2>3, <2>4, <2>5, <2>6 DEF ViewMoves
<1>8. CASE UNCHANGED <<settled, flushed>>
  BY <1>5, <1>6, <1>7, <1>8 DEF SettledSeen
<1>9. CASE Settles(r)
  <2>1. /\ User(r) \in Users /\ row' = row /\ repo' = repo
        /\ view' = [view EXCEPT ![Seamless[User(r)]] = None]
        /\ \A u \in Users : settled'[u] = IF u = User(r) THEN row[u] ELSE settled[u]
    BY <1>9, SettlesFacts
  <2>2. repo[User(r)] = None /\ view[User(r)] = None
    BY <1>9 DEF Settles, DeletedInv
  <2>3. view'[User(r)] = None /\ view'[Seamless[User(r)]] = None
    BY <1>2, <2>1, <2>2 DEF TypeOK
  <2>4. ASSUME NEW u \in Users
        PROVE  /\ row'[u] >= settled'[u]
               /\ repo'[u] # None => repo'[u] >= settled'[u]
               /\ \A n \in {u, Seamless[u]} :
                     view'[n] # None /\ view'[n].user = u => view'[n].ver >= settled'[u]
    <3>1. CASE u = User(r)
      BY <1>2, <2>1, <2>2, <2>3, <3>1
    <3>2. CASE u # User(r)
      BY <1>5, <1>6, <1>7, <2>1, <3>2
    <3> QED BY <3>1, <3>2
  <2> QED BY <2>4 DEF SettledSeen
<1>10. CASE Reset(r) /\ r \notin overlapped
  <2>1. row' = row /\ settled' = row
    BY <1>10, ResetFacts
  <2>2. /\ \A u \in Users : repo'[u] = None
        /\ \A n \in Names : view'[n] = None
    BY <1>10, ResetFacts
  <2>3. \A u \in Users : \A n \in {u, Seamless[u]} : view'[n] = None
    BY <1>2, <2>2
  <2>4. \A u \in Users : row'[u] >= settled'[u]
    BY <1>2, <2>1
  <2> QED BY <2>2, <2>3, <2>4 DEF SettledSeen
<1> QED BY <1>8, <1>9, <1>10, Effects DEF History

LEMMA FlushedStep ==
    ASSUME Base, RowsInv, SiteInv, ReadInv, FlushedSeen, NEW r \in Requests, Work(r)
    PROVE  FlushedSeen'
<1> USE DEF Base
<1>1. ViewMoves(r) /\ OtherMoves(r)
  BY Effects
<1>2. job[r].at \in HasRow => /\ User(r) \in Users /\ job[r].ver \in Nat
                             /\ job[r].ver >= flushed.row[User(r)]
  BY DEF ReadInv, ControlInv, ControlOf, Steps, HasRow, TypeOK, Job
<1>3. job[r].at \in HasUrl => job[r].url >= flushed.site
  BY DEF ReadInv
<1>4. job[r].at \in {"setpview", "setphone"} => job[r].call.name = User(r)
  BY DEF ControlInv, ControlOf, CallKind, User, Owner
<1>5. domain' # None => domain' >= flushed.site
  BY <1>1, <1>3, ResetFacts DEF OtherMoves, FlushedSeen, HasUrl
<1>6. ASSUME NEW u \in Users
      PROVE  /\ pview'[u] # None => pview'[u] >= flushed.row[u]
             /\ phones'[u] # None => phones'[u] >= flushed.row[u]
  <2>1. /\ pview[u] # None => pview[u] >= flushed.row[u]
        /\ phones[u] # None => phones[u] >= flushed.row[u]
    BY DEF FlushedSeen
  <2>2. CASE UNCHANGED <<pview, phones>>
    BY <2>1, <2>2
  <2>3. CASE /\ job[r].at = "setpview" /\ UNCHANGED phones
             /\ pview' = [pview EXCEPT ![job[r].call.name] = job[r].ver]
    <3>1. pview'[u] = IF u = User(r) THEN job[r].ver ELSE pview[u]
      BY <1>4, <2>3 DEF TypeOK
    <3> QED BY <1>2, <2>1, <2>3, <3>1 DEF HasRow
  <2>4. CASE /\ job[r].at = "setphone" /\ UNCHANGED pview
             /\ phones' = [phones EXCEPT ![job[r].call.name] = job[r].ver]
    <3>1. phones'[u] = IF u = User(r) THEN job[r].ver ELSE phones[u]
      BY <1>4, <2>4 DEF TypeOK
    <3> QED BY <1>2, <2>1, <2>4, <3>1 DEF HasRow
  <2>5. CASE Reset(r)
    BY <2>5, ResetFacts
  <2> QED BY <1>1, <2>2, <2>3, <2>4, <2>5 DEF OtherMoves
<1>7. ASSUME NEW n \in Names, view'[n] # None
      PROVE  view'[n].ver >= flushed.row[view'[n].user] /\ view'[n].url >= flushed.site
  <2>1. view[n] # None => view[n].ver >= flushed.row[view[n].user] /\ view[n].url >= flushed.site
    BY DEF FlushedSeen
  <2>2. CASE UNCHANGED view
    BY <1>7, <2>1, <2>2
  <2>3. CASE /\ job[r].at = "setview"
             /\ view' = [view EXCEPT ![job[r].call.name] =
                            [user |-> User(r), ver |-> job[r].ver, url |-> job[r].url]]
    <3>1. view'[n] = IF n = job[r].call.name
                     THEN [user |-> User(r), ver |-> job[r].ver, url |-> job[r].url] ELSE view[n]
      BY <2>3 DEF TypeOK
    <3> QED BY <1>2, <1>3, <1>7, <2>1, <2>3, <3>1 DEF HasRow, HasUrl
  <2>4. ASSUME NEW k, view' = [view EXCEPT ![k] = None]
        PROVE  view'[n].ver >= flushed.row[view'[n].user] /\ view'[n].url >= flushed.site
    <3>1. view'[n] = IF n = k THEN None ELSE view[n]
      BY <2>4 DEF TypeOK
    <3> QED BY <1>7, <2>1, <3>1
  <2>5. CASE Reset(r)
    BY <1>7, <2>5, ResetFacts
  <2> QED BY <1>1, <2>2, <2>3, <2>4, <2>5 DEF ViewMoves
<1>8. CASE UNCHANGED flushed
  BY <1>5, <1>6, <1>7, <1>8 DEF FlushedSeen
<1>9. CASE Reset(r)
  <2>1. /\ domain' = None
        /\ \A u \in Users : pview'[u] = None /\ phones'[u] = None
        /\ \A n \in Names : view'[n] = None
    BY <1>9, ResetFacts
  <2> QED BY <2>1 DEF FlushedSeen
<1> QED BY <1>8, <1>9, Effects DEF History, Settles

\* The surroundings disturb none of it.
LEMMA SeenOther ==
    ASSUME Base, SeenInv, SettledSeen, FlushedSeen, Move \/ Crash \/ UNCHANGED vars
    PROVE  SeenInv' /\ SettledSeen' /\ FlushedSeen'
<1>1. /\ UNCHANGED <<row, latest, settled, flushed, repo, view, pview, phones, domain, overlapped>>
      /\ site' = site \/ site' = site + 1
  BY DEF Move, Crash, vars, tableVars, cacheVars, historyVars
<1>2. \A r \in Requests : job'[r] = job[r] \/ job'[r].at = "done"
  BY DEF Move, Crash, vars, After, Before, Base, TypeOK
<1>3. RowsInv' /\ SettledSeen' /\ FlushedSeen'
  BY <1>1 DEF SeenInv, RowsInv, SettledSeen, FlushedSeen
<1>4. SiteInv'
  BY <1>1 DEF SeenInv, SiteInv, Base, TypeOK
<1>5. ReadInv'
  BY <1>1, <1>2 DEF SeenInv, ReadInv, HasRow, HasUrl, User
<1>6. DeletedInv'
  BY <1>1, <1>2 DEF SeenInv, DeletedInv, User, CallKind
<1> QED BY <1>3, <1>4, <1>5, <1>6 DEF SeenInv

LEMMA SeenStep ==
    /\ Init => SeenInv /\ SettledSeen /\ FlushedSeen
    /\ Base /\ SeenInv /\ SettledSeen /\ FlushedSeen /\ [Next]_vars =>
         SeenInv' /\ SettledSeen' /\ FlushedSeen'
<1>1. ASSUME Init PROVE SeenInv /\ SettledSeen /\ FlushedSeen
  <2>1. RowsInv /\ SiteInv
    BY <1>1 DEF Init, RowsInv, SiteInv
  <2>2. ReadInv /\ DeletedInv
    BY <1>1 DEF Init, ReadInv, DeletedInv, HasRow, HasUrl, Before
  <2>3. SettledSeen /\ FlushedSeen
    BY <1>1, NamesAssumption DEF Init, SettledSeen, FlushedSeen
  <2> QED BY <2>1, <2>2, <2>3 DEF SeenInv
<1>2. ASSUME Base, SeenInv, SettledSeen, FlushedSeen, NEW r \in Requests, Work(r)
      PROVE  SeenInv' /\ SettledSeen' /\ FlushedSeen'
  BY <1>2, RowsStep, ReadStep, DeletedStep, SettledStep, FlushedStep DEF SeenInv
<1> QED BY <1>1, <1>2, SeenOther DEF Next, Work, Rest

\* A change of a member or a ClearCache that ran alone and succeeded is not undone,
\* and is seen under the member's username and under its name of company, agent
\* and username, however later requests overlap or fail
\* (member.agent.controller.ts:180-182, 206-208, 226-228).
THEOREM SettledStaysSeen == Spec => []SettledSeen
BY BaseStep, SeenStep, PTL DEF Spec

\* After a Reset that ran alone no key of Redis is older than the tables were
\* (member.controller.ts:92-96).
THEOREM FlushReachesAll == Spec => []FlushedSeen
BY BaseStep, SeenStep, PTL DEF Spec
===============================================================================
