----------------------------- MODULE Registration -----------------------------
(***************************************************************************)
(* How a member comes into being on one site (company and agent):          *)
(* POST Frontend and POST FrontendAffiliate validate, find a username,     *)
(* save the member, create the turn and store the token; POST Auto signs   *)
(* the token first; the agent back office (POST Member of                  *)
(* member.agent.controller.ts) only asks whether the username is free and  *)
(* upserts.  A request is a process, an action is one awaited call.        *)
(***************************************************************************)
EXTENDS Naturals, Sequences

CONSTANTS
    Requests,      \* the registrations
    Offered,       \* the endpoints they call, a subset of Kinds
    Applications,  \* what people enter: [phone, bank, name, blanks]
    Present,       \* the members there may be before: sets of [app, cut]
    Old,           \* the owner of those members
    Faults         \* TRUE: calls may fail or lose their answer, the process may die

Kinds == {"Frontend", "Auto", "Agent"}

\* A phone is its four last groups of digits; blanks are the fields typed with blanks
\* around them.
ASSUME KindsAssumption == Offered \subseteq Kinds
ASSUME ApplicationsAssumption ==
    \A a \in Applications : Len(a.phone) = 4 /\ a.blanks \subseteq {"phone", "bank"}
ASSUME ModeAssumption == Faults \in BOOLEAN
ASSUME OldAssumption == Old \notin Requests

VARIABLES
    app, kind,  \* what each request carries and which endpoint it calls
    pc, reply,
    index,      \* the counter of the loop in generateUsername
    cut,        \* the slice of the phone in the candidate username
    members,    \* the members table
    turns,      \* the usernames that have a member_turn row
    met,        \* history: the requests each one was in flight together with
    earlier     \* history: the requests that had ended when each one arrived

inputVars == <<app, kind>>
nameVars == <<index, cut>>
historyVars == <<met, earlier>>
vars == <<inputVars, pc, reply, nameVars, members, turns, historyVars>>

Steps == {"phone", "bank", "name", "outside", "username", "save", "turn", "insert",
          "token", "notify", "find", "upsert"}
Labels == Steps \cup {"idle", "done"}
Active(r) == pc[r] \in Steps

Goto(r, label) == pc' = [pc EXCEPT ![r] = label] /\ UNCHANGED reply
Answer(r, what) == /\ pc' = [pc EXCEPT ![r] = "done"]
                   /\ reply' = [reply EXCEPT ![r] = what]

\* `${agent}${phone.slice(n)}`: the username is built from the phone as typed.
Username(a, n) == <<SubSeq(a.phone, n + 1, 4), "phone" \in a.blanks>>
Taken(u) == \E m \in members : m.username = u

\* Phone and account as they were typed, and without the blanks.
Typed(a) == [phone |-> <<a.phone, "phone" \in a.blanks>>, bank |-> <<a.bank, "bank" \in a.blanks>>]
Trimmed(a) == [phone |-> <<a.phone, FALSE>>, bank |-> <<a.bank, FALSE>>]

\* The members there may be before are different people with different usernames.
Different(o, p) == /\ o.app.phone # p.app.phone /\ o.app.bank # p.app.bank /\ o.app.name # p.app.name
                   /\ Username(o.app, o.cut) # Username(p.app, p.cut)
ASSUME PresentAssumption ==
    \A there \in Present : \A o, p \in there : o = p \/ Different(o, p)
-------------------------------------------------------------------------------
(* validateMemberData: three lookups in the table, two outside lists.      *)

\* Without the setting of the site nothing starts.
Arrive(r) ==
    /\ pc[r] = "idle"
    /\ \/ Goto(r, IF kind[r] = "Agent" THEN "find" ELSE "phone")
       \/ kind[r] # "Agent" /\ Answer(r, "error")
    /\ LET others == {q \in Requests : Active(q)}
       IN met' = [q \in Requests |-> IF q = r THEN others
                                    ELSE IF q \in others THEN met[q] \cup {r} ELSE met[q]]
    /\ earlier' = [earlier EXCEPT ![r] = {q \in Requests : pc[q] = "done"}]
    /\ UNCHANGED <<inputVars, nameVars, members, turns>>

\* Mutation: the outcome of the bank lookup is not used.
ClashesNoBank(r) ==
    CASE pc[r] = "phone" -> \E m \in members : m.phone = Typed(app[r]).phone
      [] pc[r] = "bank" -> FALSE
      [] pc[r] = "name" -> \E m \in members : m.name = app[r].name

\* A member is in the way: phone and account are compared as typed.
Clashes(r) ==
    CASE pc[r] = "phone" -> \E m \in members : m.phone = Typed(app[r]).phone
      [] pc[r] = "bank" -> \E m \in members : m.bank = Typed(app[r]).bank
      [] pc[r] = "name" -> \E m \in members : m.name = app[r].name

AfterCheck == [phone |-> "bank", bank |-> "name", name |-> "outside"]

CheckTable(r) ==
    /\ pc[r] \in {"phone", "bank", "name"}
    /\ \/ ~Clashes(r) /\ Goto(r, AfterCheck[pc[r]])
       \/ (Clashes(r) \/ Faults) /\ Answer(r, "error")
    /\ UNCHANGED <<inputVars, nameVars, members, turns, historyVars>>

\* checkCriminal and checkCompanyBank: they refuse, pass, or fail and pass.
CheckOutside(r) ==
    /\ pc[r] = "outside"
    /\ Goto(r, "username") \/ Answer(r, "error")
    /\ UNCHANGED <<inputVars, nameVars, members, turns, historyVars>>
-------------------------------------------------------------------------------
(* generateMember.                                                         *)

\* Mutation: the loop starts over instead of taking a longer slice.
NextSliceStuck(i) == 3
\* `input.phone.slice(index)` for the candidate after the one found taken.
NextSlice(i) == i

\* Mutation: one round too many.
LastRoundLate(i) == i = 0
\* `index > 0` fails after the round with index 1.
LastRound(i) == i = 1

\* One round of the loop: a free candidate is used; a taken one is replaced, and
\* the one of the last round is used without a look.
TryUsername(r) ==
    /\ pc[r] = "username"
    /\ IF Taken(Username(app[r], cut[r]))
       THEN /\ cut' = [cut EXCEPT ![r] = NextSlice(index[r])]
            /\ index' = [index EXCEPT ![r] = @ - 1]
            /\ IF LastRound(index[r]) THEN Goto(r, "save") ELSE UNCHANGED <<pc, reply>>
       ELSE Goto(r, "save") /\ UNCHANGED nameVars
    /\ UNCHANGED <<inputVars, members, turns, historyVars>>

\* generateMember trims phone and account, after all the checks; the back office does not.
Entity(u, a, contact, owner, sync) ==
    [username |-> u, phone |-> contact.phone, bank |-> contact.bank, name |-> a.name,
     owner |-> owner, sync |-> sync]
NewMember(r, u) == IF kind[r] = "Agent" THEN Entity(u, app[r], Typed(app[r]), r, FALSE)
                   ELSE Entity(u, app[r], Trimmed(app[r]), r, TRUE)

\* Mutation: the row of the same username is replaced, as in the back office.
SaveMemberUpserts(r) ==
    /\ pc[r] = "save"
    /\ LET u == Username(app[r], cut[r])
       IN members' = {m \in members : m.username # u} \cup {NewMember(r, u)}
    /\ Goto(r, "turn")
    /\ UNCHANGED <<inputVars, nameVars, turns, historyVars>>

\* members.username is unique.
SaveMember(r) ==
    /\ pc[r] = "save"
    /\ LET u == Username(app[r], cut[r])
           stored == ~Taken(u) /\ members' = members \cup {NewMember(r, u)}
       IN \/ stored /\ Goto(r, "turn")
          \/ Faults /\ stored /\ Answer(r, "error")
          \/ (Taken(u) \/ Faults) /\ UNCHANGED members /\ Answer(r, "error")
    /\ UNCHANGED <<inputVars, nameVars, turns, historyVars>>
-------------------------------------------------------------------------------
(* The rest of the handler: turn, token, notification.                     *)

AfterTurn(r) == IF kind[r] = "Auto" THEN "notify" ELSE "token"

\* createTurnV2: the turn that is there already, or a new one.
ReadTurn(r) ==
    /\ pc[r] = "turn"
    /\ \/ Goto(r, IF Username(app[r], cut[r]) \in turns THEN AfterTurn(r) ELSE "insert")
       \/ Faults /\ Answer(r, "error")
    /\ UNCHANGED <<inputVars, nameVars, members, turns, historyVars>>

InsertTurn(r) ==
    /\ pc[r] = "insert"
    /\ \/ /\ turns' = turns \cup {Username(app[r], cut[r])}
          /\ Goto(r, AfterTurn(r)) \/ (Faults /\ Answer(r, "error"))
       \/ Faults /\ UNCHANGED turns /\ Answer(r, "error")
    /\ UNCHANGED <<inputVars, nameVars, members, historyVars>>

\* updateTokenMember saves the entity generateMember returned; its row is found
\* by id, so a row the back office overwrote goes back to this registration.
StoreToken(r) ==
    /\ pc[r] = "token"
    /\ LET u == Username(app[r], cut[r])
           stored == members' = {m \in members : m.username # u} \cup {NewMember(r, u)}
       IN \/ stored /\ Goto(r, "notify")
          \/ Faults /\ stored /\ Answer(r, "error")
          \/ Faults /\ UNCHANGED members /\ Answer(r, "error")
    /\ UNCHANGED <<inputVars, nameVars, turns, historyVars>>

\* sendToLineNotify swallows an HTTP error; a missing response throws.
Notify(r) ==
    /\ pc[r] = "notify"
    /\ Answer(r, "ok") \/ (Faults /\ Answer(r, "error"))
    /\ UNCHANGED <<inputVars, nameVars, members, turns, historyVars>>
-------------------------------------------------------------------------------
(* The agent back office.                                                  *)

FindUsername(r) ==
    /\ pc[r] = "find"
    /\ \/ ~Taken(Username(app[r], cut[r])) /\ Goto(r, "upsert")
       \/ (Taken(Username(app[r], cut[r])) \/ Faults) /\ Answer(r, "error")
    /\ UNCHANGED <<inputVars, nameVars, members, turns, historyVars>>

\* INSERT ... ON CONFLICT (username) DO UPDATE.
Upsert(r) ==
    /\ pc[r] = "upsert"
    /\ LET u == Username(app[r], cut[r])
           old == {m \in members : m.username = u}
           row == [NewMember(r, u) EXCEPT !.sync = \E m \in old : m.sync]
       IN \/ members' = (members \ old) \cup {row} /\ Goto(r, "notify")
          \/ Faults /\ members' = (members \ old) \cup {row} /\ Answer(r, "error")
          \/ Faults /\ UNCHANGED members /\ Answer(r, "error")
    /\ UNCHANGED <<inputVars, nameVars, turns, historyVars>>

\* The process dies.
Crash ==
    /\ Faults
    /\ \E r \in Requests : Active(r)
    /\ pc' = [r \in Requests |-> IF Active(r) THEN "done" ELSE pc[r]]
    /\ UNCHANGED <<inputVars, reply, nameVars, members, turns, historyVars>>

Rest == (\A r \in Requests : pc[r] = "done") /\ UNCHANGED vars
-------------------------------------------------------------------------------
Init ==
    /\ app \in [Requests -> Applications] /\ kind \in [Requests -> Offered]
    /\ pc = [r \in Requests |-> "idle"] /\ reply = [r \in Requests |-> "none"]
    /\ index = [r \in Requests |-> 3] /\ cut = [r \in Requests |-> 3]
    /\ \E there \in Present :
         /\ members = {Entity(Username(o.app, o.cut), o.app, Trimmed(o.app), Old, TRUE) : o \in there}
         /\ turns = {Username(o.app, o.cut) : o \in there}
    /\ met = [r \in Requests |-> {}] /\ earlier = [r \in Requests |-> {}]

Check(r) == Arrive(r) \/ CheckTable(r) \/ CheckOutside(r)
Generate(r) == TryUsername(r) \/ SaveMember(r)
Complete(r) == ReadTurn(r) \/ InsertTurn(r) \/ StoreToken(r) \/ Notify(r)
BackOffice(r) == FindUsername(r) \/ Upsert(r)

Next == (\E r \in Requests : Check(r) \/ Generate(r) \/ Complete(r) \/ BackOffice(r))
        \/ Crash \/ Rest
Spec == Init /\ [][Next]_vars
-------------------------------------------------------------------------------
(* Properties.                                                             *)

\* Every variable keeps its type.
TypeOK ==
    /\ app \in [Requests -> Applications] /\ kind \in [Requests -> Kinds]
    /\ pc \in [Requests -> Labels] /\ reply \in [Requests -> {"none", "ok", "error"}]
    /\ index \in [Requests -> 0..3] /\ cut \in [Requests -> 1..3]
    /\ \A m \in members : m.owner \in Requests \cup {Old} /\ m.sync \in BOOLEAN
    /\ {met, earlier} \subseteq [Requests -> SUBSET Requests]

Self(m) == m.owner = Old \/ kind[m.owner] # "Agent"
CameBefore(m, n) == n.owner # Old /\ (m.owner = Old \/ m.owner \in earlier[n.owner])
Alike(m, n) == \/ m.phone = n.phone /\ "phone" \notin app[n.owner].blanks
               \/ m.bank = n.bank /\ "bank" \notin app[n.owner].blanks
               \/ m.name = n.name

\* A person who registers after another registration has ended shares neither phone nor
\* account nor name with that member (the messages of validateMemberData,
\* member.service.ts:777-796), whatever else runs or fails in between, and however the
\* earlier one typed them.  What the later one typed with blanks is left out: it is
\* compared as typed and stored trimmed (836-837).
ApartMeansDistinct ==
    \A m, n \in members : Self(m) /\ Self(n) /\ CameBefore(m, n) => ~Alike(m, n)

\* A registration answered with success is in the table, and a synchronised one
\* has its turn, which WdCheck takes for granted.  This holds for self-registrations
\* that compete for a username and for every registration the back office did not meet.
Registered(r) == \E m \in members : m.owner = r /\ (m.sync => m.username \in turns)
SelfServedIsComplete ==
    \A r \in Requests :
        /\ reply[r] = "ok"
        /\ \A q \in met[r] : kind[q] # "Agent"
        /\ kind[r] # "Agent" \/ met[r] = {}
        => Registered(r)

\* A registration that met no other goes to the unique index with a username that
\* is taken only when those of all three slices are (generateUsername,
\* member.service.ts:843-855).
TakenOnlyWhenFull ==
    \A r \in Requests :
        pc[r] = "save" /\ met[r] = {} /\ Taken(Username(app[r], cut[r])) =>
            \A n \in 1..3 : Taken(Username(app[r], n))
===============================================================================
