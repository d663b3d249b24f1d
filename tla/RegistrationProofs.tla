--------------------------- MODULE RegistrationProofs ---------------------------
(***************************************************************************)
(* Proofs about Registration, for any number of requests, any people and   *)
(* any members there may be before: type correctness, that who registers   *)
(* after another is told apart from that member, what a success answer     *)
(* means, and that the username loop uses the slices it has.               *)
(*                                                                         *)
(* All of them rest on two facts.  Whoever changes the table while a       *)
(* request is in flight is among those the request has met (MetInv), so    *)
(* for the others the table only shrinks under it.  And a username never   *)
(* becomes free again (TakenStays).                                        *)
(***************************************************************************)
EXTENDS Registration, TLAPS

Name(r) == Username(app[r], cut[r])
Work(r) == Check(r) \/ Generate(r) \/ Complete(r) \/ BackOffice(r)

\* Who has met whom, and what a request that has not ended cannot have.
MetInv ==
    /\ \A r, q \in Requests : q \in met[r] => r \in met[q]
    /\ \A r, q \in Requests : r # q /\ Active(r) /\ Active(q) => q \in met[r]
    /\ \A r \in Requests : /\ r \notin met[r]
                           /\ pc[r] = "idle" => met[r] = {}

\* Who had ended when a request arrived is not among those it meets.
EarlierInv ==
    \A r, q \in Requests : q \in earlier[r] => pc[q] = "done" /\ q \notin met[r]

\* Which labels belong to which endpoint, and where the loop stands.
ControlInv ==
    \A r \in Requests :
        /\ pc[r] # "done" => reply[r] = "none"
        /\ pc[r] \in {"find", "upsert"} => kind[r] = "Agent"
        /\ pc[r] \in Steps \ {"find", "upsert", "notify"} => kind[r] # "Agent"
        /\ pc[r] \in {"idle", "phone", "bank", "name", "outside"} => index[r] = 3 /\ cut[r] = 3
        /\ pc[r] = "username" => index[r] > 0

\* A username has one row; the row of a self-registration is the one it saved.
RowInv ==
    /\ \A m, n \in members : m.username = n.username => m = n
    /\ \A m \in members :
         m.owner # Old /\ kind[m.owner] # "Agent" =>
             m = NewMember(m.owner, Name(m.owner))
             /\ pc[m.owner] \in {"turn", "insert", "token", "notify", "done"}

\* A registration that has passed a check has nothing in common, as far as that
\* check goes, with the members whose registrations it has not met.
PastName == {"outside", "username", "save", "turn", "insert", "token", "notify"}
PastBank == PastName \cup {"name"}
PastPhone == PastBank \cup {"bank"}
Apart(r, m) == Self(m) /\ m.owner # r /\ (m.owner = Old \/ m.owner \notin met[r])
ChecksHold ==
    \A r \in Requests : kind[r] # "Agent" => \A m \in members : Apart(r, m) =>
        /\ pc[r] \in PastPhone => m.phone # Typed(app[r]).phone
        /\ pc[r] \in PastBank => m.bank # Typed(app[r]).bank
        /\ pc[r] \in PastName => m.name # app[r].name

\* Who has a username for good.
Saved(r) == pc[r] \in {"turn", "insert", "token", "notify"} \/ reply[r] = "ok"
Sound(r) == /\ \A q \in met[r] : kind[q] # "Agent"
            /\ kind[r] # "Agent" \/ met[r] = {}
NamesHeld ==
    /\ \A r \in Requests : Saved(r) => Taken(Name(r))
    /\ \A r, q \in Requests :
         r # q /\ Saved(r) /\ Saved(q) /\ kind[q] # "Agent" /\ Sound(r) => Name(r) # Name(q)
    /\ \A r, q \in Requests :
         Sound(r) /\ Saved(r) /\ pc[q] = "upsert" /\ q \notin met[r] => Name(r) # Name(q)
    /\ \A r \in Requests : pc[r] = "upsert" /\ met[r] = {} => ~Taken(Name(r))
TurnsThere ==
    \A r \in Requests :
        kind[r] # "Agent" /\ (pc[r] \in {"token", "notify"} \/ reply[r] = "ok") => Name(r) \in turns
RowKept(r) == \E m \in members : m.owner = r /\ m.username = Name(r)
                                 /\ (kind[r] = "Agent" => ~m.sync)
RowsKept == \A r \in Requests : Sound(r) /\ Saved(r) => RowKept(r)

\* What the loop of a registration that is alone has found taken so far.
SliceTaken(r, n) == Taken(Username(app[r], n))
SlicesTried ==
    \A r \in Requests :
        /\ pc[r] = "username" /\ met[r] = {} =>
             \/ index[r] = 3 /\ cut[r] = 3
             \/ index[r] = 2 /\ cut[r] = 3 /\ SliceTaken(r, 3)
             \/ index[r] = 1 /\ cut[r] = 2 /\ SliceTaken(r, 3)
        /\ pc[r] = "save" /\ met[r] = {} =>
             \/ ~Taken(Name(r))
             \/ cut[r] = 1 /\ SliceTaken(r, 2) /\ SliceTaken(r, 3)
-------------------------------------------------------------------------------
(* Steps and the control state.                                            *)

\* A handler's call touches its own request only; who has met whom changes at
\* arrivals.
LEMMA StepLocal ==
    ASSUME TypeOK, NEW r \in Requests, Work(r)
    PROVE  /\ UNCHANGED inputVars
           /\ \A q \in Requests \ {r} : /\ pc'[q] = pc[q] /\ reply'[q] = reply[q]
                                        /\ index'[q] = index[q] /\ cut'[q] = cut[q]
           /\ Arrive(r) \/ (met' = met /\ earlier' = earlier /\ Active(r))
<1> USE DEF TypeOK, inputVars, nameVars, historyVars, Goto, Answer, Active, Steps
<1>1. CASE Arrive(r)
  BY <1>1 DEF Arrive
<1>2. CASE CheckTable(r)
  BY <1>2 DEF CheckTable
<1>3. CASE CheckOutside(r)
  BY <1>3 DEF CheckOutside
<1>4. CASE TryUsername(r)
  BY <1>4 DEF TryUsername
<1>5. CASE SaveMember(r)
  BY <1>5 DEF SaveMember
<1>6. CASE ReadTurn(r)
  BY <1>6 DEF ReadTurn
<1>7. CASE InsertTurn(r)
  BY <1>7 DEF InsertTurn
<1>8. CASE StoreToken(r)
  BY <1>8 DEF StoreToken
<1>9. CASE Notify(r)
  BY <1>9 DEF Notify
<1>10. CASE FindUsername(r)
  BY <1>10 DEF FindUsername
<1>11. CASE Upsert(r)
  BY <1>11 DEF Upsert
<1> QED BY <1>1, <1>2, <1>3, <1>4, <1>5, <1>6, <1>7, <1>8, <1>9, <1>10, <1>11
        DEF Work, Check, Generate, Complete, BackOffice

\* Where a handler goes from where it is.
Moves(r) ==
    \/ pc[r] = "idle" /\ pc'[r] = (IF kind[r] = "Agent" THEN "find" ELSE "phone") /\ reply'[r] = reply[r]
    \/ pc[r] = "phone" /\ pc'[r] = "bank" /\ reply'[r] = reply[r]
    \/ pc[r] = "bank" /\ pc'[r] = "name" /\ reply'[r] = reply[r]
    \/ pc[r] = "name" /\ pc'[r] = "outside" /\ reply'[r] = reply[r]
    \/ pc[r] = "outside" /\ pc'[r] = "username" /\ reply'[r] = reply[r]
    \/ pc[r] = "username" /\ pc'[r] \in {"username", "save"} /\ reply'[r] = reply[r]
    \/ pc[r] = "save" /\ pc'[r] = "turn" /\ reply'[r] = reply[r]
    \/ pc[r] = "turn" /\ pc'[r] \in {"insert", AfterTurn(r)} /\ reply'[r] = reply[r]
    \/ pc[r] = "insert" /\ pc'[r] = AfterTurn(r) /\ reply'[r] = reply[r]
    \/ pc[r] = "token" /\ pc'[r] = "notify" /\ reply'[r] = reply[r]
    \/ pc[r] = "find" /\ pc'[r] = "upsert" /\ reply'[r] = reply[r]
    \/ pc[r] = "upsert" /\ pc'[r] = "notify" /\ reply'[r] = reply[r]
    \/ pc[r] = "notify" /\ pc'[r] = "done" /\ reply'[r] = "ok"
    \/ pc'[r] = "done" /\ reply'[r] = "error" /\ pc[r] # "done"

\* Every call of a handler is one of these moves.
LEMMA StepMoves ==
    ASSUME TypeOK, NEW r \in Requests, Work(r)
    PROVE  Moves(r)
<1> USE DEF TypeOK, Goto, Answer, Moves, AfterTurn
<1>1. CASE Arrive(r)
  BY <1>1 DEF Arrive
<1>2. CASE CheckTable(r)
  BY <1>2 DEF CheckTable, AfterCheck
<1>3. CASE CheckOutside(r)
  BY <1>3 DEF CheckOutside
<1>4. CASE TryUsername(r)
  BY <1>4 DEF TryUsername
<1>5. CASE SaveMember(r)
  BY <1>5 DEF SaveMember
<1>6. CASE ReadTurn(r)
  BY <1>6 DEF ReadTurn
<1>7. CASE InsertTurn(r)
  BY <1>7 DEF InsertTurn
<1>8. CASE StoreToken(r)
  BY <1>8 DEF StoreToken
<1>9. CASE Notify(r)
  BY <1>9 DEF Notify
<1>10. CASE FindUsername(r)
  BY <1>10 DEF FindUsername
<1>11. CASE Upsert(r)
  BY <1>11 DEF Upsert
<1> QED BY <1>1, <1>2, <1>3, <1>4, <1>5, <1>6, <1>7, <1>8, <1>9, <1>10, <1>11
        DEF Work, Check, Generate, Complete, BackOffice

\* The row an upsert leaves.
Upserted(r, b) == Entity(Name(r), app[r], Typed(app[r]), r, b)

\* What a call does to the table: nothing, or it replaces the row of the
\* username of a request that saves, stores its token or upserts.
Fails(r) == pc[r] \in {"save", "token", "upsert"} => pc'[r] = "done"
Stores(r) ==
    \/ UNCHANGED members /\ Fails(r)
    \/ /\ pc[r] = "save" /\ ~Taken(Name(r))
       /\ members' = members \cup {NewMember(r, Name(r))}
    \/ /\ pc[r] = "token"
       /\ members' = {m \in members : m.username # Name(r)} \cup {NewMember(r, Name(r))}
    \/ /\ pc[r] = "upsert" /\ kind[r] = "Agent"
       /\ \E b \in BOOLEAN :
            /\ ~Taken(Name(r)) => b = FALSE
            /\ members' = {m \in members : m.username # Name(r)} \cup {Upserted(r, b)}

\* Every call of a handler treats the table like that, and loses no turn.
LEMMA StepStores ==
    ASSUME TypeOK, ControlInv, NEW r \in Requests, Work(r)
    PROVE  Stores(r) /\ turns \subseteq turns'
<1> USE DEF TypeOK, Stores, Fails, Name, Goto, Answer
<1>1. CASE Check(r) \/ TryUsername(r) \/ FindUsername(r)
  BY <1>1 DEF Check, Arrive, CheckTable, CheckOutside, TryUsername, FindUsername
<1>2. CASE ReadTurn(r) \/ InsertTurn(r) \/ Notify(r)
  BY <1>2 DEF ReadTurn, InsertTurn, Notify
<1>3. CASE SaveMember(r)
  BY <1>3 DEF SaveMember
<1>4. CASE StoreToken(r)
  BY <1>4 DEF StoreToken
<1>5. CASE Upsert(r)
  <2> DEFINE u == Name(r)
             old == {m \in members : m.username = u}
             b == \E m \in old : m.sync
  <2>1. pc[r] = "upsert" /\ kind[r] = "Agent"
    BY <1>5 DEF Upsert, ControlInv
  <2>2. ASSUME NEW c \in BOOLEAN PROVE [NewMember(r, u) EXCEPT !.sync = c] = Upserted(r, c)
    BY <2>1 DEF NewMember, Upserted, Entity
  <2>3. /\ turns' = turns
        /\ \/ members' = members /\ Fails(r)
           \/ members' = (members \ old) \cup {[NewMember(r, u) EXCEPT !.sync = b]}
    <3>1. /\ turns' = turns
          /\ \/ members' = members /\ pc' = [pc EXCEPT ![r] = "done"]
             \/ members' = (members \ old) \cup {[NewMember(r, u) EXCEPT !.sync = b]}
      BY <1>5, Zenon DEF Upsert, Name, Answer
    <3>2. pc' = [pc EXCEPT ![r] = "done"] => Fails(r)
      BY DEF Fails, TypeOK
    <3> QED BY <3>1, <3>2, Zenon
  <2>4. members \ old = {m \in members : m.username # u}
    OBVIOUS
  <2>5. b \in BOOLEAN /\ (~Taken(u) => b = FALSE)
    BY Zenon DEF Taken
  <2> HIDE DEF u, b, old
  <2>6. \/ members' = members /\ Fails(r)
        \/ members' = {m \in members : m.username # u} \cup {Upserted(r, b)}
    BY <2>2, <2>3, <2>4, <2>5
  <2> QED BY <2>1, <2>3, <2>5, <2>6, Zenon DEF u
<1> QED BY <1>1, <1>2, <1>3, <1>4, <1>5 DEF Work, Generate, Complete, BackOffice

\* The loop counters change in the loop only.
LEMMA StepNames ==
    ASSUME TypeOK, NEW r \in Requests, Work(r)
    PROVE  UNCHANGED nameVars \/ TryUsername(r)
BY DEF Work, Check, Generate, Complete, BackOffice, Arrive, CheckTable, CheckOutside,
       SaveMember, ReadTurn, InsertTurn, StoreToken, Notify, FindUsername, Upsert
-------------------------------------------------------------------------------
(* Types and control.                                                      *)

\* The initial states.
LEMMA TypeInit == Init => TypeOK /\ ControlInv
<1> SUFFICES ASSUME Init PROVE TypeOK /\ ControlInv
  OBVIOUS
<1> USE DEF Init
<1>1. app \in [Requests -> Applications] /\ kind \in [Requests -> Kinds]
  BY KindsAssumption
<1>2. \A m \in members : m.owner \in Requests \cup {Old} /\ m.sync \in BOOLEAN
  <2>1. PICK there \in Present :
          members = {Entity(Username(o.app, o.cut), o.app, Trimmed(o.app), Old, TRUE) : o \in there}
    OBVIOUS
  <2> HIDE DEF Init
  <2>2. \A m \in members : \E o \in there : m = Entity(Username(o.app, o.cut), o.app, Trimmed(o.app), Old, TRUE)
    BY <2>1
  <2>3. ASSUME NEW m \in members PROVE m.owner = Old /\ m.sync = TRUE
    <3>1. PICK o \in there : m = Entity(Username(o.app, o.cut), o.app, Trimmed(o.app), Old, TRUE)
      BY <2>2
    <3> QED BY <3>1 DEF Entity
  <2> QED BY <2>3
<1>3. /\ pc \in [Requests -> Labels] /\ reply \in [Requests -> {"none", "ok", "error"}]
      /\ index \in [Requests -> 0..3] /\ cut \in [Requests -> 1..3]
      /\ {met, earlier} \subseteq [Requests -> SUBSET Requests]
  BY DEF Labels
<1>4. ControlInv
  BY DEF ControlInv, Steps
<1> QED BY <1>1, <1>2, <1>3, <1>4 DEF TypeOK

\* The rows a call leaves have an owner.
LEMMA MembersTyped ==
    ASSUME TypeOK, NEW r \in Requests, Stores(r)
    PROVE  \A m \in members' : m.owner \in Requests \cup {Old} /\ m.sync \in BOOLEAN
<1>1. \A m \in members' :
         m \in members \/ m = NewMember(r, Name(r)) \/ \E b \in BOOLEAN : m = Upserted(r, b)
  BY DEF Stores
<1>2. NewMember(r, Name(r)).owner = r /\ NewMember(r, Name(r)).sync \in BOOLEAN
  BY DEF NewMember, Entity
<1>3. \A b \in BOOLEAN : Upserted(r, b).owner = r /\ Upserted(r, b).sync = b
  BY DEF Upserted, Entity
<1> QED BY <1>1, <1>2, <1>3 DEF TypeOK

\* Calls keep the types and the control state.
LEMMA TypeStep ==
    ASSUME TypeOK, ControlInv, NEW r \in Requests, Work(r)
    PROVE  TypeOK' /\ ControlInv'
<1>1. Moves(r) /\ Stores(r)
  BY StepMoves, StepStores
<1>2. app' = app /\ kind' = kind
  BY StepLocal DEF inputVars
<1>3. pc' \in [Requests -> Labels] /\ reply' \in [Requests -> {"none", "ok", "error"}]
  <2>1. \/ \E l \in Labels : pc' = [pc EXCEPT ![r] = l]
        \/ UNCHANGED pc
    BY DEF Work, Check, Generate, Complete, BackOffice, Arrive, CheckTable, CheckOutside, TryUsername,
           SaveMember, ReadTurn, InsertTurn, StoreToken, Notify, FindUsername, Upsert,
           Goto, Answer, Labels, Steps, AfterCheck, AfterTurn
  <2>2. \/ \E w \in {"ok", "error"} : reply' = [reply EXCEPT ![r] = w]
        \/ UNCHANGED reply
    BY DEF Work, Check, Generate, Complete, BackOffice, Arrive, CheckTable, CheckOutside, TryUsername,
           SaveMember, ReadTurn, InsertTurn, StoreToken, Notify, FindUsername, Upsert,
           Goto, Answer
  <2> QED BY <2>1, <2>2 DEF TypeOK
<1>4. index' \in [Requests -> 0..3] /\ cut' \in [Requests -> 1..3]
  <2>1. CASE UNCHANGED nameVars
    BY <2>1 DEF TypeOK, nameVars
  <2>2. CASE TryUsername(r)
    <3>1. index[r] \in 1..3
      BY <2>2 DEF TypeOK, ControlInv, TryUsername
    <3> QED BY <2>2, <3>1 DEF TypeOK, TryUsername, NextSlice, nameVars
  <2> QED BY <2>1, <2>2, StepNames
<1>5. {met', earlier'} \subseteq [Requests -> SUBSET Requests]
  BY StepLocal DEF TypeOK, Arrive
<1>6. TypeOK'
  BY <1>1, <1>2, <1>3, <1>4, <1>5, MembersTyped DEF TypeOK
<1>7. ASSUME NEW q \in Requests
      PROVE  /\ pc'[q] # "done" => reply'[q] = "none"
             /\ pc'[q] \in {"find", "upsert"} => kind[q] = "Agent"
             /\ pc'[q] \in Steps \ {"find", "upsert", "notify"} => kind[q] # "Agent"
             /\ pc'[q] \in {"idle", "phone", "bank", "name", "outside"} => index'[q] = 3 /\ cut'[q] = 3
             /\ pc'[q] = "username" => index'[q] > 0
  <2>1. CASE q # r
    BY <2>1, StepLocal DEF ControlInv
  <2>2. CASE q = r /\ UNCHANGED nameVars
    BY <1>1, <2>2 DEF ControlInv, Moves, AfterTurn, nameVars, Steps
  <2>3. CASE q = r /\ TryUsername(r)
    <3>1. pc[r] = "username" /\ pc'[r] \in {"username", "save"} /\ reply'[r] = reply[r]
      BY <2>3 DEF TryUsername, Goto, TypeOK
    <3>2. pc'[r] = "username" => index'[r] > 0
      <4>1. index[r] \in 1..3
        BY <2>3 DEF TypeOK, ControlInv, TryUsername
      <4>2. SUFFICES ASSUME pc'[r] = "username" PROVE index'[r] > 0
        OBVIOUS
      <4>3. index[r] # 1 /\ index' = [index EXCEPT ![r] = @ - 1]
        BY <2>3, <4>2 DEF TryUsername, LastRound, Goto, TypeOK
      <4> QED BY <4>1, <4>3 DEF TypeOK
    <3> QED BY <2>3, <3>1, <3>2 DEF ControlInv, Steps
  <2> QED BY <2>1, <2>2, <2>3, StepNames
<1> QED BY <1>2, <1>6, <1>7 DEF ControlInv

\* So does the death of the process.
LEMMA TypeCrash ==
    ASSUME TypeOK, ControlInv, Crash
    PROVE  TypeOK' /\ ControlInv'
<1>1. /\ pc' = [r \in Requests |-> IF Active(r) THEN "done" ELSE pc[r]]
      /\ UNCHANGED <<inputVars, reply, nameVars, members, turns, met, earlier>>
  BY DEF Crash, historyVars
<1>2. TypeOK'
  BY <1>1 DEF TypeOK, Labels, inputVars, nameVars
<1>3. ControlInv'
  BY <1>1 DEF TypeOK, ControlInv, Labels, Steps, Active, inputVars, nameVars
<1> QED BY <1>2, <1>3

\* Registration is well typed; in particular the loop stops before its counter
\* leaves 0 .. 3 (member.service.ts:843-855).
THEOREM TypeCorrect == Spec => []TypeOK
<1>1. TypeOK /\ ControlInv /\ [Next]_vars => TypeOK' /\ ControlInv'
  <2>1. ASSUME TypeOK, ControlInv, UNCHANGED vars PROVE TypeOK' /\ ControlInv'
    BY <2>1 DEF TypeOK, ControlInv, vars, inputVars, nameVars, historyVars
  <2> QED BY <2>1, TypeStep, TypeCrash DEF Next, Work, Rest
<1> QED BY TypeInit, <1>1, PTL DEF Spec
-------------------------------------------------------------------------------
(* Who has met whom.                                                       *)

\* Calls keep it.
LEMMA MetStep ==
    ASSUME TypeOK, MetInv, NEW r \in Requests, Work(r)
    PROVE  MetInv'
<1>1. /\ \A q \in Requests \ {r} : pc'[q] = pc[q]
      /\ Moves(r)
  BY StepLocal, StepMoves
<1>2. CASE Arrive(r)
  <2> DEFINE others == {q \in Requests : Active(q)}
  <2>1. /\ pc[r] = "idle" /\ r \notin others
        /\ met' = [q \in Requests |-> IF q = r THEN others
                                      ELSE IF q \in others THEN met[q] \cup {r} ELSE met[q]]
    BY <1>2 DEF Arrive, Active, Steps
  <2>2. met[r] = {} /\ \A q \in Requests : r \notin met[q] /\ met[q] \subseteq Requests
    BY <2>1 DEF MetInv, TypeOK
  <2>3. \A q, s \in Requests : s \in met'[q] => q \in met'[s]
    BY <2>1, <2>2 DEF MetInv
  <2>4. \A q \in Requests : q # r => Active(q)' = Active(q)
    BY <1>1 DEF Active
  <2>5. \A q, s \in Requests : q # s /\ Active(q)' /\ Active(s)' => s \in met'[q]
    BY <2>1, <2>2, <2>4 DEF MetInv
  <2>6. \A q \in Requests : q \notin met'[q] /\ (pc'[q] = "idle" => met'[q] = {})
    BY <1>1, <2>1 DEF MetInv, Moves, Active, Steps
  <2> QED BY <2>3, <2>5, <2>6 DEF MetInv
<1>3. CASE UNCHANGED met /\ Active(r)
  <2>1. pc'[r] # "idle"
    BY <1>1, <1>3 DEF Moves, AfterTurn, Active, Steps
  <2> QED BY <1>1, <1>3, <2>1 DEF MetInv, Active
<1> QED BY <1>2, <1>3, StepLocal

\* Beginning and end of the process keep it.
LEMMA MetOther ==
    /\ Init => MetInv
    /\ TypeOK /\ MetInv /\ Crash => MetInv'
<1>1. ASSUME Init PROVE MetInv
  BY <1>1 DEF Init, MetInv, Active, Steps
<1>2. ASSUME TypeOK, MetInv, Crash PROVE MetInv'
  <2>1. /\ pc' = [r \in Requests |-> IF Active(r) THEN "done" ELSE pc[r]]
        /\ UNCHANGED met
    BY <1>2 DEF Crash, historyVars
  <2>2. \A r \in Requests : ~Active(r)' /\ (pc'[r] = "idle" => pc[r] = "idle")
    BY <2>1 DEF Active, Steps
  <2> QED BY <1>2, <2>1, <2>2 DEF MetInv
<1> QED BY <1>1, <1>2

\* Calls, beginning and end of the process keep who came before whom.
LEMMA EarlierStep ==
    ASSUME TypeOK, EarlierInv, NEW r \in Requests, Work(r)
    PROVE  EarlierInv'
<1>1. \A q \in Requests \ {r} : pc'[q] = pc[q]
  BY StepLocal
<1>2. CASE Arrive(r)
  <2>1. pc[r] = "idle"
    BY <1>2 DEF Arrive
  <2>2. ASSUME NEW s \in Requests, NEW q \in Requests, q \in earlier'[s]
        PROVE  pc'[q] = "done" /\ q \notin met'[s]
    <3>1. pc[q] = "done" /\ q # r
      BY <1>2, <2>1, <2>2 DEF Arrive, EarlierInv, TypeOK
    <3> QED BY <1>1, <1>2, <2>2, <3>1 DEF Arrive, EarlierInv, TypeOK, Active, Steps
  <2> QED BY <2>2 DEF EarlierInv
<1>3. CASE met' = met /\ earlier' = earlier /\ Active(r)
  BY <1>1, <1>3 DEF EarlierInv, Active, Steps
<1> QED BY <1>2, <1>3, StepLocal

LEMMA EarlierOther ==
    /\ Init => EarlierInv
    /\ TypeOK /\ EarlierInv /\ Crash => EarlierInv'
<1>1. ASSUME Init PROVE EarlierInv
  BY <1>1 DEF Init, EarlierInv
<1>2. ASSUME TypeOK, EarlierInv, Crash PROVE EarlierInv'
  <2>1. /\ pc' = [r \in Requests |-> IF Active(r) THEN "done" ELSE pc[r]]
        /\ met' = met /\ earlier' = earlier
    BY <1>2 DEF Crash, historyVars
  <2> QED BY <1>2, <2>1 DEF EarlierInv
<1> QED BY <1>1, <1>2

\* Nobody else is in flight beside a request that has met nobody; and whoever
\* works beside an active request is among those it has met.
LEMMA WorkersHaveMet ==
    ASSUME TypeOK, MetInv, NEW r \in Requests, Work(r), UNCHANGED met,
           NEW q \in Requests, q # r, Active(q)
    PROVE  r \in met[q] /\ q \in met[r]
<1>1. Active(r)
  BY StepLocal DEF Arrive, MetInv, Active, Steps
<1> QED BY <1>1 DEF MetInv

\* A meeting is never forgotten.
LEMMA MeetingsStay ==
    ASSUME TypeOK, MetInv, NEW r \in Requests, Work(r)
    PROVE  \A q \in Requests : met[q] \subseteq met'[q]
<1>1. CASE Arrive(r)
  <2>1. met[r] = {}
    BY <1>1 DEF MetInv, Arrive
  <2> QED BY <1>1, <2>1 DEF Arrive
<1> QED BY <1>1, StepLocal
-------------------------------------------------------------------------------
(* The rows.                                                               *)

\* What new rows hold.
LEMMA NewRow ==
    ASSUME NEW r \in Requests, NEW u
    PROVE  /\ NewMember(r, u).username = u /\ NewMember(r, u).owner = r
           /\ kind[r] = "Agent" => NewMember(r, u).sync = FALSE
           /\ kind[r] # "Agent" => /\ NewMember(r, u).phone = <<app[r].phone, FALSE>>
                                   /\ NewMember(r, u).bank = <<app[r].bank, FALSE>>
                                   /\ NewMember(r, u).name = app[r].name
BY DEF NewMember, Entity, Trimmed

LEMMA UpsertedRow ==
    ASSUME NEW r \in Requests, NEW b \in BOOLEAN
    PROVE  Upserted(r, b).username = Name(r) /\ Upserted(r, b).owner = r /\ Upserted(r, b).sync = b
BY DEF Upserted, Entity

\* Only the loop changes the username of a request.
LEMMA NameFixed ==
    ASSUME TypeOK, NEW r \in Requests, Work(r)
    PROVE  /\ \A q \in Requests : q # r \/ pc[q] # "username" => Name(q)' = Name(q)
           /\ app' = app /\ kind' = kind
           /\ \A q \in Requests : \A u : NewMember(q, u)' = NewMember(q, u)
<1>1. app' = app /\ kind' = kind
  BY StepLocal DEF inputVars
<1>2. \A q \in Requests : q # r \/ pc[q] # "username" => cut'[q] = cut[q]
  BY StepLocal, StepNames DEF TryUsername, nameVars
<1> QED BY <1>1, <1>2 DEF Name, NewMember

\* A call replaces the row of one username at most, by one that belongs to the
\* request; all other rows were there.
Replaces(r, m) ==
    /\ m.username = Name(r) /\ m.owner = r
    /\ members' = {n \in members : n.username # Name(r)} \cup {m}
    /\ kind[r] # "Agent" => m = NewMember(r, Name(r)) /\ pc[r] \in {"save", "token"}
    /\ kind[r] = "Agent" => pc[r] = "upsert" /\ (~Taken(Name(r)) => m.sync = FALSE)
    /\ pc[r] = "save" => ~Taken(Name(r))
LEMMA OneRow ==
    ASSUME TypeOK, ControlInv, NEW r \in Requests, Work(r)
    PROVE  (UNCHANGED members /\ Fails(r)) \/ \E m \in members' : Replaces(r, m)
<1>1. Stores(r)
  BY StepStores
<1>2. CASE pc[r] = "save" /\ ~Taken(Name(r)) /\ members' = members \cup {NewMember(r, Name(r))}
  <2>1. kind[r] # "Agent"
    BY <1>2 DEF ControlInv, Steps
  <2>2. members' = {n \in members : n.username # Name(r)} \cup {NewMember(r, Name(r))}
    BY <1>2 DEF Taken
  <2>3. pc[r] = "save" /\ ~Taken(Name(r))
    BY <1>2
  <2> DEFINE new == NewMember(r, Name(r))
  <2>4. new.username = Name(r) /\ new.owner = r
    BY NewRow, ZenonT(60)
  <2>5. members' = {n \in members : n.username # Name(r)} \cup {new}
    BY <2>2
  <2>6. new = NewMember(r, Name(r))
    OBVIOUS
  <2> HIDE DEF new
  <2>7. Replaces(r, new)
    BY <2>1, <2>3, <2>4, <2>5, <2>6, Zenon DEF Replaces
  <2> QED BY <2>5, <2>7
<1>3. CASE pc[r] = "token"
            /\ members' = {m \in members : m.username # Name(r)} \cup {NewMember(r, Name(r))}
  <2>1. kind[r] # "Agent"
    BY <1>3 DEF ControlInv, Steps
  <2>2. Replaces(r, NewMember(r, Name(r)))
    BY <1>3, <2>1, NewRow DEF Replaces
  <2> QED BY <1>3, <2>2
<1>4. ASSUME pc[r] = "upsert", kind[r] = "Agent", NEW b \in BOOLEAN, ~Taken(Name(r)) => b = FALSE,
             members' = {m \in members : m.username # Name(r)} \cup {Upserted(r, b)}
      PROVE  \E m \in members' : Replaces(r, m)
  <2>1. Replaces(r, Upserted(r, b))
    BY <1>4, UpsertedRow DEF Replaces
  <2> QED BY <1>4, <2>1
<1> QED BY <1>1, <1>2, <1>3, <1>4 DEF Stores

\* A username never becomes free again.
LEMMA TakenStays ==
    ASSUME TypeOK, ControlInv, NEW r \in Requests, Work(r), NEW u, Taken(u)
    PROVE  Taken(u)'
<1>1. CASE UNCHANGED members
  BY <1>1 DEF Taken
<1>2. CASE \E m \in members' : Replaces(r, m)
  <2>1. PICK m \in members' : Replaces(r, m)
    BY <1>2
  <2>2. PICK n \in members : n.username = u
    BY DEF Taken
  <2>3. CASE u = Name(r)
    BY <2>1, <2>3 DEF Taken, Replaces
  <2>4. CASE u # Name(r)
    <3>1. n \in members'
      BY <2>1, <2>2, <2>4 DEF Replaces
    <3> QED BY <2>2, <3>1 DEF Taken
  <2> QED BY <2>3, <2>4
<1> QED BY <1>1, <1>2, OneRow

\* The row of a username is taken over only by the request that wants it.
LEMMA RowsStay ==
    ASSUME TypeOK, ControlInv, NEW r \in Requests, Work(r), NEW m \in members, m.username # Name(r)
    PROVE  m \in members'
BY OneRow DEF Replaces

\* Calls keep RowInv.
LEMMA RowStep ==
    ASSUME TypeOK, ControlInv, RowInv, NEW r \in Requests, Work(r)
    PROVE  RowInv'
<1>1. \A q \in Requests : pc[q] \in {"turn", "insert", "token", "notify", "done"} =>
         /\ pc'[q] \in {"turn", "insert", "token", "notify", "done"}
         /\ NewMember(q, Name(q))' = NewMember(q, Name(q))
  <2>1. TAKE q \in Requests
  <2>2. CASE q # r
    BY <2>2, NameFixed, StepLocal
  <2>3. CASE q = r
    BY <2>3, NameFixed, StepMoves DEF Moves, AfterTurn
  <2> QED BY <2>2, <2>3
<1>2. CASE UNCHANGED members
  BY <1>1, <1>2, NameFixed DEF RowInv, TypeOK
<1>3. ASSUME NEW new \in members', Replaces(r, new) PROVE RowInv'
  <2>1. \A m, n \in members' : m.username = n.username => m = n
    BY <1>3 DEF RowInv, Replaces
  <2>2. ASSUME NEW m \in members', m.owner # Old, kind[m.owner] # "Agent"
        PROVE  /\ m = NewMember(m.owner, Name(m.owner))'
               /\ pc'[m.owner] \in {"turn", "insert", "token", "notify", "done"}
    <3>1. CASE m = new
      <4>1. pc[r] \in {"save", "token"} /\ m.owner = r /\ m = NewMember(r, Name(r))
        BY <1>3, <2>2, <3>1 DEF Replaces
      <4>2. pc'[r] \in {"turn", "insert", "token", "notify", "done"}
        BY <4>1, StepMoves DEF Moves
      <4>3. NewMember(r, Name(r))' = NewMember(r, Name(r))
        BY <4>1, NameFixed
      <4> QED BY <4>1, <4>2, <4>3
    <3>2. CASE m # new
      <4>1. m \in members /\ m.owner \in Requests
        BY <1>3, <2>2, <3>2 DEF Replaces, TypeOK
      <4> QED BY <1>1, <2>2, <4>1 DEF RowInv
    <3> QED BY <3>1, <3>2
  <2> QED BY <2>1, <2>2, NameFixed DEF RowInv
<1> QED BY <1>2, <1>3, OneRow

\* The initial states and the death of the process.
LEMMA RowOther ==
    /\ Init => RowInv
    /\ TypeOK /\ RowInv /\ Crash => RowInv'
<1>1. ASSUME Init PROVE RowInv
  <2>1. PICK there \in Present :
          members = {Entity(Username(o.app, o.cut), o.app, Trimmed(o.app), Old, TRUE) : o \in there}
    BY <1>1 DEF Init
  <2> DEFINE Row(o) == Entity(Username(o.app, o.cut), o.app, Trimmed(o.app), Old, TRUE)
  <2>a. members = {Row(o) : o \in there} /\ \A o \in there : Row(o).owner = Old
                                          /\ Row(o).username = Username(o.app, o.cut)
    BY <2>1 DEF Entity
  <2> HIDE DEF Row
  <2>2. \A m \in members : m.owner = Old
    BY <2>a
  <2>3. \A m, n \in members : m.username = n.username => m = n
    <3>1. TAKE m, n \in members
    <3>2. PICK o \in there : m = Row(o) /\ m.username = Username(o.app, o.cut)
      BY <2>a
    <3>3. PICK p \in there : n = Row(p) /\ n.username = Username(p.app, p.cut)
      BY <2>a
    <3>4. o = p \/ Username(o.app, o.cut) # Username(p.app, p.cut)
      BY PresentAssumption DEF Different
    <3> QED BY <3>2, <3>3, <3>4
  <2> QED BY <2>2, <2>3 DEF RowInv
<1>2. ASSUME TypeOK, RowInv, Crash PROVE RowInv'
  <2>1. /\ pc' = [r \in Requests |-> IF Active(r) THEN "done" ELSE pc[r]]
        /\ UNCHANGED <<inputVars, nameVars, members>>
    BY <1>2 DEF Crash
  <2>2. \A q \in Requests : \A u : Name(q)' = Name(q) /\ NewMember(q, u)' = NewMember(q, u)
    BY <2>1 DEF Name, NewMember, inputVars, nameVars
  <2> QED BY <1>2, <2>1, <2>2 DEF RowInv, TypeOK, inputVars
<1> QED BY <1>1, <1>2
-------------------------------------------------------------------------------
(* People are told apart.                                                  *)

\* The table a call leaves holds the rows that were there and at most one that
\* belongs to the caller.
LEMMA RowsOfOthers ==
    ASSUME TypeOK, ControlInv, NEW r \in Requests, Work(r), NEW m \in members', m.owner # r
    PROVE  m \in members
<1>1. CASE UNCHANGED members
  BY <1>1
<1>2. ASSUME NEW n \in members', Replaces(r, n) PROVE m \in members
  <2>1. m # n
    BY <1>2 DEF Replaces
  <2> QED BY <1>2, <2>1 DEF Replaces
<1> QED BY <1>1, <1>2, OneRow

\* For whoever has not met the caller the table has only lost rows.
LEMMA ChecksStep ==
    ASSUME TypeOK, ControlInv, MetInv, ChecksHold, NEW r \in Requests, Work(r)
    PROVE  ChecksHold'
<1>1. /\ Moves(r)
      /\ app' = app /\ kind' = kind
      /\ \A q \in Requests \ {r} : pc'[q] = pc[q]
  BY StepMoves, StepLocal, NameFixed
<1>2. SUFFICES ASSUME NEW q \in Requests, kind[q] # "Agent", NEW m \in members', Apart(q, m)'
               PROVE  /\ pc'[q] \in PastPhone => m.phone # Typed(app[q]).phone
                      /\ pc'[q] \in PastBank => m.bank # Typed(app[q]).bank
                      /\ pc'[q] \in PastName => m.name # app[q].name
  BY <1>1 DEF ChecksHold
<1>3. Self(m) /\ m.owner # q /\ (m.owner = Old \/ m.owner \notin met'[q])
  BY <1>1, <1>2 DEF Apart, Self
<1>4. Apart(q, m)
  BY <1>3, MeetingsStay DEF Apart
<1>5. CASE q = r
  <2>1. m \in members
    BY <1>3, <1>5, RowsOfOthers
  <2>2. CASE pc[r] \in {"phone", "bank", "name"}
    <3>1. CheckTable(r)
      BY <2>2 DEF Work, Check, Generate, Complete, BackOffice, Arrive, CheckOutside, TryUsername,
                  SaveMember, ReadTurn, InsertTurn, StoreToken, Notify, FindUsername, Upsert
    <3>2. members' = members
      BY <3>1 DEF CheckTable
    <3>3. pc'[r] = "done" \/ (~Clashes(r) /\ pc'[r] = AfterCheck[pc[r]])
      BY <3>1 DEF CheckTable, Goto, Answer, TypeOK
    <3>4. CASE pc'[r] = "done"
      BY <1>5, <3>4 DEF PastPhone, PastBank, PastName
    <3>5. CASE pc[r] = "phone" /\ ~Clashes(r) /\ pc'[r] = "bank"
      BY <1>5, <2>1, <3>5 DEF Clashes, PastPhone, PastBank, PastName
    <3>6. CASE pc[r] = "bank" /\ ~Clashes(r) /\ pc'[r] = "name"
      BY <1>2, <1>4, <1>5, <2>1, <3>6 DEF Clashes, PastPhone, PastBank, PastName, ChecksHold
    <3>7. CASE pc[r] = "name" /\ ~Clashes(r) /\ pc'[r] = "outside"
      BY <1>2, <1>4, <1>5, <2>1, <3>7 DEF Clashes, PastPhone, PastBank, PastName, ChecksHold
    <3> QED BY <2>2, <3>3, <3>4, <3>5, <3>6, <3>7 DEF AfterCheck
  <2>3. CASE pc[r] \notin {"phone", "bank", "name"}
    <3>1. /\ pc'[r] \in PastPhone => pc[r] \in PastPhone
          /\ pc'[r] \in PastBank => pc[r] \in PastBank
          /\ pc'[r] \in PastName => pc[r] \in PastName
      BY <1>1, <1>2, <1>5, <2>3 DEF Moves, AfterTurn, PastPhone, PastBank, PastName, ControlInv
    <3> QED BY <1>2, <1>4, <1>5, <2>1, <3>1 DEF ChecksHold
  <2> QED BY <2>2, <2>3
<1>6. CASE q # r
  <2>1. CASE m.owner # r
    <3>1. m \in members
      BY <2>1, RowsOfOthers
    <3> QED BY <1>1, <1>2, <1>4, <1>6, <3>1 DEF ChecksHold
  <2>2. CASE m.owner = r /\ Active(q)
    <3>1. r \notin met'[q] /\ r # Old
      BY <1>3, <2>2, OldAssumption
    <3>2. r \in met'[q]
      <4>1. CASE Arrive(r)
        BY <1>6, <2>2, <4>1 DEF Arrive, Active, Steps, TypeOK
      <4>2. CASE UNCHANGED met
        BY <1>6, <2>2, <4>2, WorkersHaveMet
      <4> QED BY <4>1, <4>2, StepLocal
    <3> QED BY <3>1, <3>2
  <2>3. CASE ~Active(q)
    <3>1. pc'[q] \notin PastPhone
      BY <1>1, <1>6, <2>3 DEF Active, Steps, PastPhone, PastBank, PastName
    <3> QED BY <3>1 DEF PastPhone, PastBank, PastName
  <2> QED BY <2>1, <2>2, <2>3
<1> QED BY <1>5, <1>6

\* So a member is not like those whose registrations had ended before.
LEMMA ApartStep ==
    ASSUME TypeOK, ControlInv, MetInv, EarlierInv, RowInv, ChecksHold, ApartMeansDistinct,
           NEW r \in Requests, Work(r)
    PROVE  ApartMeansDistinct'
<1>1. app' = app /\ kind' = kind
  BY NameFixed
<1>2. SUFFICES ASSUME NEW m \in members', NEW n \in members', Self(m), Self(n), CameBefore(m, n)'
               PROVE  ~Alike(m, n)
  BY <1>1 DEF ApartMeansDistinct, Self, Alike
<1>3. m.owner \in Requests \cup {Old} /\ n.owner \in Requests /\ n.owner # Old
  BY <1>2, TypeStep DEF TypeOK, CameBefore
<1>5. CASE UNCHANGED members
  <2>1. CASE CameBefore(m, n)
    BY <1>2, <1>5, <2>1 DEF ApartMeansDistinct
  <2>2. CASE ~CameBefore(m, n)
    <3>1. Arrive(r) /\ n.owner = r
      BY <1>2, <1>3, <2>2, StepLocal DEF CameBefore, Arrive, TypeOK
    <3>2. pc[r] \in {"turn", "insert", "token", "notify", "done"}
      BY <1>2, <1>3, <1>5, <3>1 DEF RowInv, Self
    <3> QED BY <3>1, <3>2 DEF Arrive
  <2> QED BY <2>1, <2>2
<1>6. ASSUME NEW new \in members', Replaces(r, new) PROVE ~Alike(m, n)
  <2>1. \A x \in members' : x = new \/ (x \in members /\ x.username # Name(r))
    BY <1>6 DEF Replaces
  <2>2. pc[r] \in {"save", "token", "upsert"} /\ new.owner = r /\ r # Old
    BY <1>6, OldAssumption DEF Replaces
  <2>3. earlier' = earlier
    BY <2>2, StepLocal DEF Arrive
  <2>4. CameBefore(m, n) /\ (m.owner # Old => pc[m.owner] = "done" /\ m.owner \notin met[n.owner])
    BY <1>2, <1>3, <2>3 DEF CameBefore, EarlierInv
  <2>5. m \in members /\ m.owner # r /\ m.username # Name(r)
    BY <2>1, <2>2, <2>4
  <2>6. CASE n = new
    <3>1. kind[r] # "Agent" /\ pc[r] \in {"save", "token"} /\ n = NewMember(r, Name(r))
      BY <1>2, <1>6, <2>2, <2>6 DEF Replaces, Self
    <3>2. /\ n.owner = r /\ n.phone = <<app[r].phone, FALSE>>
          /\ n.bank = <<app[r].bank, FALSE>> /\ n.name = app[r].name
      <4> DEFINE mine == NewMember(r, Name(r))
      <4>1. kind[r] # "Agent" => /\ mine.phone = <<app[r].phone, FALSE>>
                                 /\ mine.bank = <<app[r].bank, FALSE>>
                                 /\ mine.name = app[r].name
        BY NewRow, Zenon
      <4> HIDE DEF mine
      <4>2. n = mine
        BY <3>1 DEF mine
      <4> QED BY <2>2, <2>6, <3>1, <4>1, <4>2
    <3>3. Apart(r, m)
      BY <1>2, <2>4, <2>5, <3>2 DEF Apart
    <3>4. /\ m.phone # Typed(app[r]).phone /\ m.bank # Typed(app[r]).bank
          /\ m.name # app[r].name
      BY <2>5, <3>1, <3>3 DEF ChecksHold, PastPhone, PastBank, PastName
    <3>5. /\ "phone" \notin app[r].blanks => Typed(app[r]).phone = <<app[r].phone, FALSE>>
          /\ "bank" \notin app[r].blanks => Typed(app[r]).bank = <<app[r].bank, FALSE>>
      <4>1. \A f : f \notin app[r].blanks => (f \in app[r].blanks) = FALSE
        OBVIOUS
      <4>2. /\ Typed(app[r]).phone = <<app[r].phone, "phone" \in app[r].blanks>>
            /\ Typed(app[r]).bank = <<app[r].bank, "bank" \in app[r].blanks>>
        BY DEF Typed
      <4> QED BY <4>1, <4>2, Zenon
    <3> QED BY <3>2, <3>4, <3>5 DEF Alike
  <2>7. CASE n # new
    BY <1>2, <2>1, <2>4, <2>5, <2>7 DEF ApartMeansDistinct
  <2> QED BY <2>6, <2>7
<1> QED BY <1>5, <1>6, OneRow

\* The initial states and the death of the process.
LEMMA ApartOther ==
    /\ Init => ChecksHold /\ ApartMeansDistinct
    /\ TypeOK /\ ChecksHold /\ ApartMeansDistinct /\ Crash => ChecksHold' /\ ApartMeansDistinct'
<1>1. ASSUME Init PROVE ChecksHold /\ ApartMeansDistinct
  <2>1. ChecksHold
    BY <1>1 DEF Init, ChecksHold, PastPhone, PastBank, PastName
  <2>2. PICK there \in Present :
          members = {Entity(Username(o.app, o.cut), o.app, Trimmed(o.app), Old, TRUE) : o \in there}
    BY <1>1 DEF Init
  <2>3. ASSUME NEW n \in members PROVE n.owner = Old
    <3>1. PICK o \in there : n = Entity(Username(o.app, o.cut), o.app, Trimmed(o.app), Old, TRUE)
      BY <2>2
    <3> QED BY <3>1 DEF Entity
  <2>4. ApartMeansDistinct
    BY <2>3 DEF ApartMeansDistinct, CameBefore
  <2> QED BY <2>1, <2>4
<1>2. ASSUME TypeOK, ChecksHold, ApartMeansDistinct, Crash PROVE ChecksHold' /\ ApartMeansDistinct'
  <2>1. /\ pc' = [r \in Requests |-> IF Active(r) THEN "done" ELSE pc[r]]
        /\ app' = app /\ kind' = kind /\ members' = members
        /\ met' = met /\ earlier' = earlier
    BY <1>2 DEF Crash, inputVars, historyVars
  <2>2. ApartMeansDistinct'
    BY <1>2, <2>1 DEF ApartMeansDistinct, Self, Alike, CameBefore
  <2>3. \A q \in Requests : pc'[q] \notin PastPhone
    BY <2>1 DEF PastPhone, PastBank, PastName, Active, Steps
  <2> QED BY <2>2, <2>3 DEF ChecksHold, PastPhone, PastBank, PastName
<1> QED BY <1>1, <1>2

\* The facts the theorems rest on hold.
Base == TypeOK /\ ControlInv /\ MetInv /\ EarlierInv /\ RowInv
LEMMA BaseStep ==
    /\ Init => Base
    /\ Base /\ [Next]_vars => Base'
<1>1. ASSUME Base, UNCHANGED vars PROVE Base'
  <2>1. UNCHANGED <<app, kind, pc, reply, index, cut, members, turns, met, earlier>>
    BY <1>1 DEF vars, inputVars, nameVars, historyVars
  <2>2. TypeOK' /\ ControlInv' /\ MetInv' /\ EarlierInv'
    BY <1>1, <2>1 DEF Base, TypeOK, ControlInv, MetInv, EarlierInv, Active
  <2>3. RowInv'
    BY <1>1, <2>1 DEF Base, RowInv, NewMember, Name
  <2> QED BY <2>2, <2>3 DEF Base
<1>2. ASSUME Base, NEW r \in Requests, Work(r) PROVE Base'
  BY <1>2, TypeStep, MetStep, EarlierStep, RowStep DEF Base
<1>3. ASSUME Base, Crash PROVE Base'
  BY <1>3, TypeCrash, MetOther, EarlierOther, RowOther DEF Base
<1> QED BY <1>1, <1>2, <1>3, TypeInit, MetOther, EarlierOther, RowOther DEF Base, Next, Work, Rest

\* Who registers after another registration has ended shares neither phone nor account
\* nor name with that member, in fields the later one typed without blanks, whatever
\* else runs or fails in between (validateMemberData, member.service.ts:777-796), for
\* any number of registrations and any people.
THEOREM ApartAreDistinct == Spec => []ApartMeansDistinct
<1> DEFINE Inv == Base /\ ChecksHold /\ ApartMeansDistinct
<1>1. Init => Inv
  BY BaseStep, ApartOther
<1>2. Inv /\ [Next]_vars => Inv'
  <2>1. ASSUME Inv, UNCHANGED vars PROVE ChecksHold' /\ ApartMeansDistinct'
    <3>1. UNCHANGED <<app, kind, pc, members, met, earlier>>
      BY <2>1 DEF vars, inputVars, historyVars
    <3> QED BY <2>1, <3>1 DEF ChecksHold, ApartMeansDistinct, Apart, Self, Alike, CameBefore
  <2>2. ASSUME Inv, NEW r \in Requests, Work(r) PROVE ChecksHold' /\ ApartMeansDistinct'
    BY <2>2, ChecksStep, ApartStep DEF Base
  <2>3. ASSUME Inv, Crash PROVE ChecksHold' /\ ApartMeansDistinct'
    BY <2>3, ApartOther DEF Base
  <2> QED BY <2>1, <2>2, <2>3, BaseStep DEF Next, Work, Rest
<1> QED BY <1>1, <1>2, PTL DEF Spec
-------------------------------------------------------------------------------
(* What success means.                                                     *)

\* How the claims of the others and of the caller move.
LEMMA SavedMoves ==
    ASSUME TypeOK, ControlInv, MetInv, NEW r \in Requests, Work(r)
    PROVE  /\ \A q \in Requests : Sound(q)' => Sound(q)
           /\ \A q \in Requests : met'[q] = {} => met[q] = {}
           /\ \A q \in Requests : q # r => Saved(q)' = Saved(q) /\ pc'[q] = pc[q]
           /\ Saved(r)' => Saved(r) \/ (pc[r] \in {"save", "upsert"} /\ pc'[r] # "done")
           /\ \A q \in Requests : Saved(q)' => Name(q)' = Name(q)
<1>1. /\ \A q \in Requests : met[q] \subseteq met'[q]
      /\ kind' = kind /\ Moves(r)
      /\ \A q \in Requests \ {r} : pc'[q] = pc[q] /\ reply'[q] = reply[q]
  BY MeetingsStay, NameFixed, StepMoves, StepLocal
<1>2. \A q \in Requests : Sound(q)' => Sound(q)
  BY <1>1 DEF Sound
<1>3. \A q \in Requests : q # r => Saved(q)' = Saved(q) /\ pc'[q] = pc[q]
  BY <1>1 DEF Saved
<1>4. Saved(r)' => Saved(r) \/ (pc[r] \in {"save", "upsert"} /\ pc'[r] # "done")
  BY <1>1 DEF Moves, AfterTurn, Saved, ControlInv
<1>5. ASSUME NEW q \in Requests, Saved(q)' PROVE Name(q)' = Name(q)
  <2>1. q # r \/ pc[q] # "username"
    BY <1>1, <1>5 DEF Saved, Moves, ControlInv
  <2> QED BY <2>1, NameFixed
<1> QED BY <1>1, <1>2, <1>3, <1>4, <1>5

\* A request that gets its username finds it free, and it is taken afterwards.
LEMMA Claims ==
    ASSUME TypeOK, ControlInv, NEW r \in Requests, Work(r),
           pc[r] \in {"save", "token", "upsert"}, pc'[r] # "done"
    PROVE  \E m \in members' : Replaces(r, m)
BY OneRow DEF Fails

\* Calls keep what is known of usernames.
LEMMA NamesStep ==
    ASSUME TypeOK, ControlInv, MetInv, NamesHeld, NEW r \in Requests, Work(r)
    PROVE  NamesHeld'
<1>1. /\ kind' = kind /\ \A q \in Requests : q # r \/ pc[q] # "username" => Name(q)' = Name(q)
      /\ Moves(r)
  BY NameFixed, StepMoves
<1>2. \A q \in Requests : Saved(q)' => Taken(Name(q))'
  <2>1. TAKE q \in Requests
  <2>2. SUFFICES ASSUME Saved(q)' PROVE Taken(Name(q))'
    OBVIOUS
  <2>3. CASE Saved(q)
    <3>1. Name(q)' = Name(q)
      BY <2>2, SavedMoves
    <3>2. Taken(Name(q))
      BY <2>3 DEF NamesHeld
    <3>3. \E m \in members' : m.username = Name(q)
      BY <3>2, TakenStays DEF Taken
    <3> QED BY <3>1, <3>3 DEF Taken
  <2>4. CASE ~Saved(q)
    <3>1. q = r /\ pc[r] \in {"save", "upsert"} /\ pc'[r] # "done" /\ Name(r)' = Name(r)
      BY <2>2, <2>4, SavedMoves
    <3>2. \E m \in members' : m.username = Name(r)
      BY <3>1, Claims DEF Replaces
    <3> QED BY <3>1, <3>2 DEF Taken
  <2> QED BY <2>3, <2>4
<1>3. ASSUME NEW q \in Requests, NEW p \in Requests, q # p, Saved(q)', Saved(p)', kind[p] # "Agent", Sound(q)'
      PROVE  Name(q)' # Name(p)'
  <2>1. Name(q)' = Name(q) /\ Name(p)' = Name(p) /\ Sound(q)
    BY <1>3, SavedMoves
  <2>2. CASE Saved(q) /\ Saved(p)
    BY <1>3, <2>1, <2>2 DEF NamesHeld
  <2>3. CASE ~Saved(p)
    <3>1. p = r /\ pc[r] = "save" /\ pc'[r] # "done" /\ Saved(q)
      BY <1>3, <2>3, SavedMoves DEF ControlInv
    <3>2. ~Taken(Name(r)) /\ Taken(Name(q))
      BY <3>1, Claims DEF NamesHeld, Replaces
    <3> QED BY <2>1, <3>1, <3>2
  <2>4. CASE ~Saved(q)
    <3>1. q = r /\ pc[r] \in {"save", "upsert"} /\ pc'[r] # "done" /\ Saved(p)
      BY <1>3, <2>4, SavedMoves
    <3>2. Taken(Name(p))
      BY <3>1 DEF NamesHeld
    <3>3. ~Taken(Name(r))
      <4>1. CASE pc[r] = "save"
        BY <3>1, <4>1, Claims DEF Replaces
      <4>2. CASE pc[r] = "upsert"
        BY <2>1, <3>1, <4>2 DEF NamesHeld, Sound, ControlInv
      <4> QED BY <3>1, <4>1, <4>2
    <3> QED BY <2>1, <3>1, <3>2, <3>3
  <2> QED BY <2>2, <2>3, <2>4
<1>4. ASSUME NEW q \in Requests, NEW p \in Requests, Sound(q)', Saved(q)', pc'[p] = "upsert", p \notin met'[q]
      PROVE  Name(q)' # Name(p)'
  <2>1. Sound(q) /\ Name(q)' = Name(q) /\ p \notin met[q]
    BY <1>4, SavedMoves, MeetingsStay
  <2>2. CASE p = r
    <3>1. FindUsername(r) /\ pc[r] = "find"
      BY <1>1, <1>4, <2>2 DEF Moves, AfterTurn, Work, Check, Generate, Complete, BackOffice, Arrive, CheckTable,
         CheckOutside, TryUsername, SaveMember, ReadTurn, InsertTurn, StoreToken, Notify, FindUsername, Upsert
    <3>2. ~Taken(Name(r)) /\ Name(p)' = Name(r) /\ q # r /\ Saved(q)
      <4>1. ~Taken(Name(r))
        BY <1>4, <2>2, <3>1 DEF FindUsername, Answer, TypeOK, Name
      <4>2. Saved(r)' => Saved(r)
        BY <3>1, SavedMoves
      <4>3. ~Saved(r)
        BY <3>1 DEF Saved, ControlInv
      <4> QED BY <1>1, <1>4, <2>2, <3>1, <4>1, <4>2, <4>3, SavedMoves
    <3> QED BY <2>1, <3>2 DEF NamesHeld
  <2>3. CASE p # r
    <3>1. pc[p] = "upsert" /\ Name(p)' = Name(p)
      BY <1>1, <1>4, <2>3, SavedMoves
    <3>2. CASE Saved(q)
      BY <2>1, <3>1, <3>2 DEF NamesHeld
    <3>3. CASE ~Saved(q)
      <4>1. q = r /\ pc[r] \in {"save", "upsert"}
        BY <1>4, <3>3, SavedMoves
      <4>2. UNCHANGED met
        BY <4>1, StepLocal DEF Arrive
      <4>3. p \in met[r]
        BY <2>3, <3>1, <4>2, WorkersHaveMet DEF Active, Steps
      <4> QED BY <2>1, <4>1, <4>3
    <3> QED BY <3>2, <3>3
  <2> QED BY <2>2, <2>3
<1>5. ASSUME NEW q \in Requests, pc'[q] = "upsert", met'[q] = {} PROVE ~Taken(Name(q))'
  <2>1. CASE q = r
    <3>1. FindUsername(r) /\ pc[r] = "find"
      BY <1>1, <1>5, <2>1 DEF Moves, AfterTurn, Work, Check, Generate, Complete, BackOffice, Arrive, CheckTable,
         CheckOutside, TryUsername, SaveMember, ReadTurn, InsertTurn, StoreToken, Notify, FindUsername, Upsert
    <3>2. ~Taken(Name(r)) /\ Name(r)' = Name(r) /\ members' = members
      BY <1>1, <1>5, <2>1, <3>1 DEF FindUsername, Answer, TypeOK, Name
    <3> QED BY <2>1, <3>2 DEF Taken
  <2>2. CASE q # r
    <3>1. pc[q] = "upsert" /\ Active(q)
      BY <1>5, <2>2, SavedMoves DEF Active, Steps
    <3>2. r \in met'[q]
      <4>1. CASE Arrive(r)
        BY <2>2, <3>1, <4>1 DEF Arrive, TypeOK
      <4>2. CASE UNCHANGED met
        BY <2>2, <3>1, <4>2, WorkersHaveMet
      <4> QED BY <4>1, <4>2, StepLocal
    <3> QED BY <1>5, <3>2
  <2> QED BY <2>1, <2>2
<1> QED BY <1>1, <1>2, <1>3, <1>4, <1>5 DEF NamesHeld

\* A self-registration goes past the turn only with its turn there.
LEMMA TurnsStep ==
    ASSUME TypeOK, ControlInv, TurnsThere, NEW r \in Requests, Work(r)
    PROVE  TurnsThere'
<1> DEFINE Past(q) == pc[q] \in {"token", "notify"} \/ reply[q] = "ok"
<1>1. /\ Moves(r) /\ turns \subseteq turns' /\ kind' = kind
      /\ \A q \in Requests \ {r} : pc'[q] = pc[q] /\ reply'[q] = reply[q]
      /\ \A q \in Requests : q # r \/ pc[q] # "username" => Name(q)' = Name(q)
  BY StepMoves, StepStores, StepLocal, NameFixed
<1>2. ASSUME NEW q \in Requests, kind[q] # "Agent", Past(q)' PROVE Name(q)' \in turns'
  <2>1. CASE Past(q)
    <3>1. Name(q)' = Name(q)
      BY <1>1, <2>1 DEF ControlInv
    <3> QED BY <1>1, <1>2, <2>1, <3>1 DEF TurnsThere
  <2>2. CASE ~Past(q)
    <3>1. q = r /\ pc[r] \in {"turn", "insert"} /\ pc'[r] # "insert" /\ pc'[r] # "done"
      BY <1>1, <1>2, <2>2 DEF Moves, AfterTurn, ControlInv
    <3>2. ReadTurn(r) \/ InsertTurn(r)
      BY <3>1 DEF Work, Check, Generate, Complete, BackOffice, Arrive, CheckTable,
         CheckOutside, TryUsername, SaveMember, StoreToken, Notify, FindUsername, Upsert
    <3>3. CASE ReadTurn(r)
      BY <1>1, <3>1, <3>3 DEF ReadTurn, Goto, Answer, TypeOK, Name
    <3>4. CASE InsertTurn(r)
      BY <1>1, <3>1, <3>4 DEF InsertTurn, Goto, Answer, TypeOK, Name
    <3> QED BY <3>2, <3>3, <3>4
  <2> QED BY <2>1, <2>2
<1> QED BY <1>1, <1>2 DEF TurnsThere

\* Nobody takes over the row of a registration that the back office did not meet.
LEMMA RowsKeptStep ==
    ASSUME TypeOK, ControlInv, MetInv, NamesHeld, RowsKept, NEW r \in Requests, Work(r)
    PROVE  RowsKept'
<1>1. SUFFICES ASSUME NEW q \in Requests, Sound(q)', Saved(q)' PROVE RowKept(q)'
  BY DEF RowsKept
<1>2. Sound(q) /\ Name(q)' = Name(q) /\ kind' = kind
  BY <1>1, SavedMoves, NameFixed
<1>3. CASE UNCHANGED members /\ Fails(r)
  <2>1. Saved(q)
    BY <1>1, <1>3, SavedMoves DEF Fails
  <2> QED BY <1>2, <1>3, <2>1 DEF RowsKept, RowKept
<1>4. ASSUME NEW new \in members', Replaces(r, new) PROVE RowKept(q)'
  <2>1. CASE q = r
    <3>1. kind[q] = "Agent" => ~Taken(Name(r))
      BY <1>2, <1>4, <2>1 DEF Replaces, Sound, NamesHeld
    <3> QED BY <1>2, <1>4, <2>1, <3>1 DEF Replaces, RowKept
  <2>2. CASE q # r
    <3>1. Saved(q)
      BY <1>1, <2>2, SavedMoves
    <3>2. PICK m \in members : /\ m.owner = q /\ m.username = Name(q)
                               /\ kind[q] = "Agent" => ~m.sync
      BY <1>2, <3>1 DEF RowsKept, RowKept
    <3>3. Name(q) # Name(r)
      <4>1. CASE kind[r] = "Agent"
        <5>1. pc[r] = "upsert" /\ r \notin met[q]
          BY <1>2, <1>4, <4>1 DEF Replaces, Sound
        <5> QED BY <1>2, <3>1, <5>1 DEF NamesHeld
      <4>2. CASE kind[r] # "Agent" /\ pc[r] = "token"
        BY <1>2, <2>2, <3>1, <4>2 DEF NamesHeld, Saved
      <4>3. CASE kind[r] # "Agent" /\ pc[r] = "save"
        BY <1>4, <3>1, <4>3 DEF NamesHeld, Replaces
      <4> QED BY <1>4, <4>1, <4>2, <4>3 DEF Replaces
    <3>4. m \in members'
      BY <3>2, <3>3, RowsStay
    <3> QED BY <1>2, <3>2, <3>4 DEF RowKept
  <2> QED BY <2>1, <2>2
<1> QED BY <1>3, <1>4, OneRow

\* The initial states and the death of the process.
Success == NamesHeld /\ TurnsThere /\ RowsKept
LEMMA SuccessOther ==
    /\ Init => Success
    /\ TypeOK /\ Success /\ Crash => Success'
<1>1. ASSUME Init PROVE Success
  BY <1>1 DEF Init, Success, NamesHeld, TurnsThere, RowsKept, Saved
<1>2. ASSUME TypeOK, Success, Crash PROVE Success'
  <2>1. /\ pc' = [r \in Requests |-> IF Active(r) THEN "done" ELSE pc[r]]
        /\ UNCHANGED <<app, kind, reply, cut, members, turns, met>>
    BY <1>2 DEF Crash, inputVars, nameVars, historyVars
  <2>2. \A q \in Requests : /\ Name(q)' = Name(q) /\ Sound(q)' = Sound(q)
                            /\ Saved(q)' => Saved(q)
                            /\ pc'[q] # "upsert" /\ pc'[q] \notin {"token", "notify"}
    BY <2>1 DEF Name, Sound, Saved, Active, Steps
  <2>3. NamesHeld'
    BY <1>2, <2>1, <2>2 DEF Success, NamesHeld, Taken
  <2>4. TurnsThere'
    BY <1>2, <2>1, <2>2 DEF Success, TurnsThere
  <2>5. RowsKept'
    BY <1>2, <2>1, <2>2 DEF Success, RowsKept, RowKept
  <2> QED BY <2>3, <2>4, <2>5 DEF Success
<1> QED BY <1>1, <1>2

\* A registration answered with success is in the table, with its turn if it counts
\* as synchronised: for every self-registration that met no back office, and for
\* every back office that met no other, whoever comes later.
THEOREM SuccessIsComplete == Spec => []SelfServedIsComplete
<1> DEFINE Inv == Base /\ Success
<1>1. Init => Inv
  BY BaseStep, SuccessOther
<1>2. Inv /\ [Next]_vars => Inv'
  <2>1. ASSUME Inv, UNCHANGED vars PROVE Success'
    <3>1. UNCHANGED <<app, kind, pc, reply, index, cut, members, turns, met>>
      BY <2>1 DEF vars, inputVars, nameVars, historyVars
    <3>2. \A q \in Requests : Name(q)' = Name(q) /\ Sound(q)' = Sound(q) /\ Saved(q)' = Saved(q)
      BY <3>1 DEF Name, Sound, Saved
    <3> QED BY <2>1, <3>1, <3>2 DEF Success, NamesHeld, TurnsThere, RowsKept, RowKept, Taken
  <2>2. ASSUME Inv, NEW r \in Requests, Work(r) PROVE Success'
    BY <2>2, NamesStep, TurnsStep, RowsKeptStep DEF Base, Success
  <2>3. ASSUME Inv, Crash PROVE Success'
    BY <2>3, SuccessOther DEF Base
  <2> QED BY <2>1, <2>2, <2>3, BaseStep DEF Next, Work, Rest
<1>3. Inv => SelfServedIsComplete
  <2> SUFFICES ASSUME Inv, NEW r \in Requests, reply[r] = "ok", Sound(r) PROVE Registered(r)
    BY DEF SelfServedIsComplete, Sound
  <2>1. PICK m \in members : m.owner = r /\ m.username = Name(r) /\ (kind[r] = "Agent" => ~m.sync)
    BY DEF Success, RowsKept, Saved, RowKept
  <2>2. kind[r] # "Agent" => Name(r) \in turns
    BY DEF Success, TurnsThere
  <2> QED BY <2>1, <2>2 DEF Registered
<1> QED BY <1>1, <1>2, <1>3, PTL DEF Spec
-------------------------------------------------------------------------------
(* The username loop.                                                      *)

\* Beside a request that has met nobody nothing happens.
LEMMA AloneInFlight ==
    ASSUME TypeOK, MetInv, NEW r \in Requests, Work(r),
           NEW q \in Requests, q # r, Active(q)
    PROVE  met'[q] # {}
<1>1. CASE Arrive(r)
  BY <1>1 DEF Arrive, TypeOK
<1>2. CASE UNCHANGED met
  BY <1>2, WorkersHaveMet
<1> QED BY <1>1, <1>2, StepLocal

\* Calls keep what the loop of a request that is alone has found.
LEMMA SlicesStep ==
    ASSUME TypeOK, ControlInv, MetInv, SlicesTried, NEW r \in Requests, Work(r)
    PROVE  SlicesTried'
<1>1. /\ app' = app /\ Moves(r)
      /\ \A q \in Requests : met'[q] = {} => met[q] = {}
  BY NameFixed, StepMoves, SavedMoves
<1>2. SUFFICES ASSUME NEW q \in Requests, met'[q] = {}, pc'[q] \in {"username", "save"}
               PROVE  /\ pc'[q] = "username" =>
                           \/ index'[q] = 3 /\ cut'[q] = 3
                           \/ index'[q] = 2 /\ cut'[q] = 3 /\ SliceTaken(q, 3)'
                           \/ index'[q] = 1 /\ cut'[q] = 2 /\ SliceTaken(q, 3)'
                      /\ pc'[q] = "save" =>
                           \/ ~Taken(Name(q))'
                           \/ cut'[q] = 1 /\ SliceTaken(q, 2)' /\ SliceTaken(q, 3)'
  BY DEF SlicesTried
<1>3. q = r
  <2>1. SUFFICES ASSUME q # r PROVE FALSE
    OBVIOUS
  <2>2. Active(q)
    BY <1>2, <2>1, SavedMoves DEF Active, Steps
  <2> QED BY <1>2, <2>1, <2>2, AloneInFlight
<1>4. CASE pc[r] = "outside"
  <2>1. UNCHANGED nameVars /\ pc'[r] = "username"
    BY <1>1, <1>2, <1>3, <1>4, StepNames DEF Moves, TryUsername
  <2> QED BY <1>3, <1>4, <2>1 DEF nameVars, ControlInv
<1>5. CASE pc[r] = "username"
  <2>1. TryUsername(r) /\ met[r] = {}
    BY <1>1, <1>2, <1>3, <1>5 DEF Work, Check, Generate, Complete, BackOffice, Arrive, CheckTable,
       CheckOutside, SaveMember, ReadTurn, InsertTurn, StoreToken, Notify, FindUsername, Upsert
  <2>2. members' = members /\ \A n : SliceTaken(r, n)' = SliceTaken(r, n)
    BY <1>1, <2>1 DEF TryUsername, SliceTaken, Taken
  <2>3. CASE ~Taken(Name(r))
    <3>1. pc'[r] = "save" /\ ~Taken(Name(r))'
      BY <1>1, <2>1, <2>2, <2>3 DEF TryUsername, Name, Goto, TypeOK, nameVars, Taken
    <3> QED BY <1>3, <3>1
  <2>4. CASE Taken(Name(r))
    <3>1. /\ SliceTaken(r, cut[r])
          /\ cut'[r] = index[r] /\ index'[r] = index[r] - 1
          /\ pc'[r] = (IF index[r] = 1 THEN "save" ELSE "username")
      BY <1>5, <2>1, <2>4 DEF TryUsername, Name, Goto, TypeOK, NextSlice, LastRound, SliceTaken
    <3>2. \/ index[r] = 3 /\ cut[r] = 3
          \/ index[r] = 2 /\ cut[r] = 3 /\ SliceTaken(r, 3)
          \/ index[r] = 1 /\ cut[r] = 2 /\ SliceTaken(r, 3)
      BY <1>5, <2>1 DEF SlicesTried
    <3> QED BY <1>3, <2>2, <3>1, <3>2
  <2> QED BY <2>3, <2>4
<1> QED BY <1>1, <1>2, <1>3, <1>4, <1>5 DEF Moves, AfterTurn

\* A registration that met no other goes to the unique index with a username that is
\* taken only when those of all three slices are (generateUsername,
\* member.service.ts:843-855).
THEOREM SlicesAreUsed == Spec => []TakenOnlyWhenFull
<1> DEFINE Inv == Base /\ SlicesTried
<1>1. Init => Inv
  BY BaseStep DEF Init, SlicesTried
<1>2. Inv /\ [Next]_vars => Inv'
  <2>1. ASSUME Inv, UNCHANGED vars PROVE SlicesTried'
    <3>1. UNCHANGED <<app, kind, pc, index, cut, members, met>>
      BY <2>1 DEF vars, inputVars, nameVars, historyVars
    <3> QED BY <2>1, <3>1 DEF SlicesTried, SliceTaken, Taken, Name
  <2>2. ASSUME Inv, NEW r \in Requests, Work(r) PROVE SlicesTried'
    BY <2>2, SlicesStep DEF Base
  <2>3. ASSUME Inv, Crash PROVE SlicesTried'
    BY <2>3 DEF Base, TypeOK, SlicesTried, Crash, historyVars, Active, Steps
  <2> QED BY <2>1, <2>2, <2>3, BaseStep DEF Next, Work, Rest
<1>3. Inv => TakenOnlyWhenFull
  <2> SUFFICES ASSUME Inv, NEW r \in Requests, pc[r] = "save", met[r] = {}, Taken(Name(r))
               PROVE  \A n \in 1..3 : Taken(Username(app[r], n))
    BY DEF TakenOnlyWhenFull, Name
  <2>1. cut[r] = 1 /\ SliceTaken(r, 2) /\ SliceTaken(r, 3)
    BY DEF SlicesTried
  <2>2. Taken(Username(app[r], 1))
    BY <2>1 DEF Name
  <2> QED BY <2>1, <2>2 DEF SliceTaken
<1> QED BY <1>1, <1>2, <1>3, PTL DEF Spec
===============================================================================
