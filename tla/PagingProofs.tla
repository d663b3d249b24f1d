------------------------------ MODULE PagingProofs ------------------------------
(***************************************************************************)
(* Proofs about Paging, for any set of members, any page length and any    *)
(* number of members coming and going during the walk: type correctness,   *)
(* that the walk over the pages is complete, and that every page of a      *)
(* search by a known option shows the newest matches and no others.        *)
(*                                                                         *)
(* The walk is complete because a member that is still to be shown never   *)
(* has fewer newer ones than the pages read so far have rows: members that *)
(* join can only push it back, and one whose newer neighbour leaves is no  *)
(* longer due.                                                             *)
(***************************************************************************)
EXTENDS Paging, FiniteSetTheorems, TLAPS

\* The members still due are listed, at a time of their own.
DueApart == \A m \in due : m \in Listed /\ Unique(m)

\* The walk pages through the matches: no known option ignores its offset.
Walking == option \in Known => page = 1

\* What the walk has still to show lies behind the pages read.
Behind ==
    /\ phase = "idle" => page = 1
    /\ Walking =>
         /\ phase \in {"select", "count"} =>
              \A m \in due \ seen : Cardinality(Newer(m)) >= (page - 1) * Take
         /\ phase = "count" =>
              \A m \in due \ (seen \cup shown) : Cardinality(Newer(m)) >= page * Take
         /\ phase = "done" => due \subseteq seen

\* What a search by a known option shows: no more than a page, with every match due
\* that is newer than a row of it, or that stayed when a row of it was moved away.
KeywordRows ==
    phase = "count" /\ option \in Known =>
        /\ \A m \in due \ shown : Cardinality(Newer(m)) >= Take
        /\ Cardinality(shown) <= Take
        /\ \A m \in shown : \A x \in due : m \notin Listed \/ created[x] > created[m] => x \in shown

IInv == TypeOK /\ DueApart /\ Behind /\ KeywordRows
-------------------------------------------------------------------------------
(* Cardinalities.                                                          *)

\* Every set of listed members is finite.
LEMMA ListedFinite ==
    ASSUME NEW S \in SUBSET Listed
    PROVE  IsFiniteSet(S) /\ Cardinality(S) \in Nat
<1>1. S \in SUBSET Members
  BY DEF Listed
<1>2. IsFiniteSet(S)
  BY <1>1, MembersAssumption, FS_Subset
<1> QED BY <1>2, FS_CardinalityType

\* A subset has no more members, and as many only if it is the whole.
LEMMA FewerInSubset ==
    ASSUME NEW T \in SUBSET Listed, NEW S \in SUBSET T
    PROVE  /\ Cardinality(S) <= Cardinality(T)
           /\ Cardinality(S) = Cardinality(T) => S = T
<1>1. IsFiniteSet(T)
  BY ListedFinite
<1> QED BY <1>1, FS_Subset

\* A set that lacks a member of the larger one is smaller.
LEMMA FewerWithout ==
    ASSUME NEW T \in SUBSET Listed, NEW S \in SUBSET T, NEW m \in T, m \notin S
    PROVE  Cardinality(S) < Cardinality(T)
<1>1. Cardinality(S) <= Cardinality(T) /\ Cardinality(S) # Cardinality(T)
  BY FewerInSubset
<1>2. S \in SUBSET Listed
  OBVIOUS
<1>3. Cardinality(S) \in Nat /\ Cardinality(T) \in Nat
  BY <1>2, ListedFinite
<1> QED BY <1>1, <1>3

\* The ceiling of PageMetaDto: that many pages hold every row.
LEMMA PagesHoldAll ==
    ASSUME NEW c \in Nat
    PROVE  PageCount(c) \in Nat /\ c <= PageCount(c) * Take
<1> DEFINE q == PageCount(c)
<1>1. c + Take - 1 \in Nat /\ Take \in Nat /\ Take > 0
  BY NumbersAssumption
<1>2. q \in Nat /\ c + Take - 1 < (q + 1) * Take
  BY <1>1 DEF PageCount
<1>3. (q + 1) * Take = q * Take + Take
  BY <1>1, <1>2
<1>4. q * Take \in Nat
  BY <1>1, <1>2
<1> HIDE DEF q
<1>5. c <= q * Take
  BY <1>1, <1>2, <1>3, <1>4
<1> QED BY <1>2, <1>5 DEF q
-------------------------------------------------------------------------------
(* The rows a query returns.                                               *)

\* A listed member at a time of its own that lies behind the offset and is not among
\* the rows returned has at least a page more of newer members.
LEMMA NotShown ==
    ASSUME TypeOK, NEW skip \in Nat, NEW S \in SUBSET Listed, IsPage(S, skip),
           NEW m \in Listed, Unique(m), m \notin S, Cardinality(Newer(m)) >= skip
    PROVE  Cardinality(Newer(m)) >= skip + Take
<1>1. PICK before \in SUBSET Listed :
        /\ Cardinality(before) = SmallerOf(skip, Cardinality(Listed))
        /\ Cardinality(before \cup S) = SmallerOf(skip + Take, Cardinality(Listed))
        /\ Newest(before) /\ Newest(before \cup S)
  BY DEF IsPage
<1> DEFINE rows == before \cup S
<1>2. Newer(m) \in SUBSET Listed /\ m \notin Newer(m)
  <2>1. created[m] \in Times \cup {None} /\ created[m] # None
    BY DEF TypeOK, Listed
  <2>2. created[m] \in Nat
    BY <2>1, NumbersAssumption
  <2> QED BY <2>2 DEF Newer
<1>3. Cardinality(Newer(m)) \in Nat /\ Cardinality(Listed) \in Nat
  BY <1>2, ListedFinite
<1>4. Take \in Nat /\ Take > 0
  BY NumbersAssumption
<1>5. Cardinality(Newer(m)) < Cardinality(Listed)
  BY <1>2, FewerWithout
<1>6. Cardinality(before) = skip
  BY <1>1, <1>3, <1>5 DEF SmallerOf
<1>7. m \notin before
  <2>1. SUFFICES ASSUME m \in before PROVE FALSE
    OBVIOUS
  <2>2. Newer(m) \subseteq before
    BY <1>1, <2>1 DEF Newest, Newer
  <2>3. Cardinality(Newer(m)) < Cardinality(before)
    BY <1>2, <2>1, <2>2, FewerWithout
  <2> QED BY <1>3, <1>6, <2>3
<1>8. rows \in SUBSET Listed /\ m \notin rows
  BY <1>7
<1>9. Cardinality(rows) < Cardinality(Listed)
  BY <1>8, FewerWithout
<1>10. Cardinality(rows) = skip + Take
  BY <1>1, <1>3, <1>4, <1>9 DEF SmallerOf
<1>11. rows \subseteq Newer(m)
  <2>1. SUFFICES ASSUME NEW x \in rows PROVE x \in Newer(m)
    OBVIOUS
  <2>2. x \in Listed /\ x # m
    BY <1>8, <2>1
  <2>3. created[x] \in Nat /\ created[m] \in Nat
    <3>1. created[x] \in Times /\ created[m] \in Times
      BY <2>2 DEF TypeOK, Listed
    <3> QED BY <3>1, NumbersAssumption
  <2>4. ~(created[m] > created[x])
    BY <1>1, <1>8, <2>1 DEF Newest
  <2>5. created[x] # created[m]
    BY <2>2 DEF Unique
  <2> QED BY <2>2, <2>3, <2>4, <2>5 DEF Newer
<1>12. Cardinality(rows) <= Cardinality(Newer(m))
  BY <1>2, <1>11, FewerInSubset
<1> QED BY <1>3, <1>4, <1>10, <1>12
\* Without an offset a query returns the newest rows and no more than a page of them.
LEMMA FirstPage ==
    ASSUME NEW S \in SUBSET Listed, IsPage(S, 0)
    PROVE  Cardinality(S) <= Take /\ Newest(S)
<1>1. PICK before \in SUBSET Listed :
        /\ Cardinality(before) = SmallerOf(0, Cardinality(Listed))
        /\ Cardinality(before \cup S) = SmallerOf(0 + Take, Cardinality(Listed))
        /\ Newest(before \cup S)
  BY DEF IsPage
<1>2. Cardinality(Listed) \in Nat /\ Take \in Nat /\ IsFiniteSet(before)
  BY ListedFinite, NumbersAssumption
<1>3. before = {}
  BY <1>1, <1>2, FS_EmptySet DEF SmallerOf
<1> QED BY <1>1, <1>2, <1>3 DEF SmallerOf
-------------------------------------------------------------------------------
(* Members who come and go.                                                *)

\* When m joins, or leaves, a member still due keeps its place and all that are newer.
LEMMA StillBehind ==
    ASSUME TypeOK, DueApart, NEW m \in Members,
           Leave(m) \/ \E t \in Times : Join(m, t)
    PROVE  /\ TypeOK' /\ DueApart' /\ due' \subseteq due
           /\ \A x \in due' : Cardinality(Newer(x)') >= Cardinality(Newer(x))
<1> USE DEF Listed
<1>1. CASE Leave(m)
  <2>1. created' = [created EXCEPT ![m] = None] /\ due' = {x \in due : created[x] > created[m]}
    BY <1>1 DEF Leave
  <2>2. TypeOK' /\ due' \subseteq due
    <3>1. \A x \in due' : created[x] > created[m] /\ created[x] \in Nat /\ created[m] \in Nat
      BY <1>1, <2>1, NumbersAssumption DEF TypeOK, Leave
    <3>2. due' \subseteq Listed'
      BY <2>1, <3>1 DEF TypeOK
    <3> QED BY <1>1, <2>1, <3>2 DEF TypeOK, Leave
  <2>3. Listed' = Listed \ {m}
    BY <2>1 DEF TypeOK
  <2>4. ASSUME NEW x \in due'
        PROVE  x \in Listed' /\ Unique(x)' /\ Newer(x)' = Newer(x)
    <3>1. x \in due /\ created[x] > created[m]
      BY <2>1
    <3>2. x \in Listed' /\ created'[x] = created[x]
      BY <2>1, <2>2 DEF TypeOK
    <3>3. \A y \in Listed' : y # m /\ y \in Listed /\ created'[y] = created[y]
      BY <2>1, <2>3 DEF TypeOK
    <3>4. Unique(x)'
      BY <3>1, <3>2, <3>3 DEF Unique, DueApart
    <3>5. m \notin Newer(x)
      <4>1. created[x] \in Nat /\ created[m] \in Nat
        BY <1>1, <3>1, NumbersAssumption DEF TypeOK, Leave
      <4> QED BY <3>1, <4>1 DEF Newer
    <3>6. Newer(x)' = Newer(x)
      BY <2>3, <3>2, <3>3, <3>5 DEF Newer
    <3> QED BY <3>2, <3>4, <3>6
  <2>5. \A x \in due' : Cardinality(Newer(x)') >= Cardinality(Newer(x))
    <3>1. SUFFICES ASSUME NEW x \in due' PROVE Cardinality(Newer(x)') >= Cardinality(Newer(x))
      OBVIOUS
    <3>2. Newer(x) \in SUBSET Listed
      BY DEF Newer
    <3>3. Cardinality(Newer(x)) \in Nat
      BY <3>2, ListedFinite
    <3>4. Newer(x)' = Newer(x)
      BY <2>4
    <3> QED BY <3>3, <3>4
  <2> QED BY <2>2, <2>4, <2>5 DEF DueApart
<1>2. ASSUME NEW t \in Times, Join(m, t)
      PROVE  /\ TypeOK' /\ DueApart' /\ due' \subseteq due
             /\ \A x \in due' : Cardinality(Newer(x)') >= Cardinality(Newer(x))
  <2>1. created' = [created EXCEPT ![m] = t] /\ due' = {x \in due : created[x] # t}
    BY <1>2 DEF Join
  <2>2. created[m] = None /\ t # None
    BY <1>2, MembersAssumption DEF Join
  <2>3. Listed' = Listed \cup {m} /\ m \notin Listed
    BY <2>1, <2>2 DEF TypeOK
  <2>4. TypeOK' /\ due' \subseteq due
    <3>1. created' \in [Members -> Times \cup {None}]
      BY <2>1 DEF TypeOK
    <3>2. due' \subseteq Listed'
      BY <2>1, <2>3 DEF TypeOK
    <3> QED BY <1>2, <2>1, <3>1, <3>2 DEF TypeOK, Join
  <2>5. ASSUME NEW x \in due'
        PROVE  x \in Listed' /\ Unique(x)' /\ Newer(x) \subseteq Newer(x)'
    <3>1. x \in due /\ x \in Listed /\ x # m /\ created[x] # t
      BY <2>1, <2>3 DEF TypeOK
    <3>2. x \in Listed' /\ created'[x] = created[x]
      BY <2>1, <2>3, <3>1 DEF TypeOK
    <3>3. \A y \in Listed : y # m /\ y \in Listed' /\ created'[y] = created[y]
      BY <2>1, <2>3 DEF TypeOK
    <3>4. created'[m] = t
      BY <2>1 DEF TypeOK
    <3>5. Unique(x)'
      BY <2>3, <3>1, <3>2, <3>3, <3>4 DEF Unique, DueApart
    <3>6. Newer(x) \subseteq Newer(x)'
      BY <3>2, <3>3 DEF Newer
    <3> QED BY <3>2, <3>5, <3>6
  <2>6. \A x \in due' : Cardinality(Newer(x)') >= Cardinality(Newer(x))
    <3>1. SUFFICES ASSUME NEW x \in due' PROVE Cardinality(Newer(x)') >= Cardinality(Newer(x))
      OBVIOUS
    <3>2. Newer(x)' \in SUBSET Members /\ Newer(x) \in SUBSET Newer(x)'
      BY <2>5 DEF Newer
    <3>3. IsFiniteSet(Newer(x)')
      BY <3>2, MembersAssumption, FS_Subset
    <3>4. Cardinality(Newer(x)) <= Cardinality(Newer(x)')
      BY <3>2, <3>3, FS_Subset
    <3>5. IsFiniteSet(Newer(x))
      BY <3>2, <3>3, FS_Subset
    <3>6. Cardinality(Newer(x)) \in Nat /\ Cardinality(Newer(x)') \in Nat
      BY <3>3, <3>5, FS_CardinalityType
    <3> QED BY <3>4, <3>6
  <2> QED BY <2>4, <2>5, <2>6 DEF DueApart
<1> QED BY <1>1, <1>2
-------------------------------------------------------------------------------
(* The invariant.                                                          *)

LEMMA InvInit == Init => IInv
<1> SUFFICES ASSUME Init PROVE IInv
  OBVIOUS
<1>1. TypeOK
  BY DEF Init, TypeOK, Options, NoMeta, Listed
<1>2. DueApart /\ Behind /\ KeywordRows
  BY DEF Init, DueApart, Behind, KeywordRows, Known, Walking
<1> QED BY <1>1, <1>2 DEF IInv

\* The number of newer members is a natural number.
LEMMA NewerType ==
    ASSUME NEW m
    PROVE  Newer(m) \in SUBSET Listed /\ Cardinality(Newer(m)) \in Nat
<1>1. Newer(m) \in SUBSET Listed
  BY DEF Newer
<1> QED BY <1>1, ListedFinite

LEMMA BeginInv ==
    ASSUME IInv, Begin
    PROVE  IInv'
<1>1. TypeOK' /\ DueApart' /\ KeywordRows'
  BY DEF IInv, TypeOK, Begin, DueApart, KeywordRows, Options, Listed, Unique
<1>2. Behind'
  <2>1. page' = 1 /\ phase' = "select"
    BY DEF IInv, Begin, Behind
  <2>2. \A m : Cardinality(Newer(m)') >= 0
    <3>1. TAKE m
    <3>2. Newer(m)' = Newer(m)
      BY DEF Begin, Newer, Listed
    <3> QED BY <3>2, NewerType
  <2>3. (page' - 1) * Take = 0
    BY <2>1, NumbersAssumption
  <2> QED BY <2>1, <2>2, <2>3 DEF Behind
<1> QED BY <1>1, <1>2 DEF IInv

LEMMA SelectInv ==
    ASSUME IInv, Select
    PROVE  IInv'
<1>1. PICK S \in SUBSET Listed : IsPage(S, Offset(option, page)) /\ shown' = S
  BY DEF Select
<1>2. TypeOK' /\ DueApart'
  BY <1>1 DEF IInv, TypeOK, Select, DueApart, Listed, Unique
<1>3. \A m : Newer(m)' = Newer(m)
  BY DEF Select, Newer, Listed
<1>4. page \in Nat \ {0} /\ Take \in Nat \ {0}
  BY NumbersAssumption DEF IInv, TypeOK
<1>5. (page - 1) * Take \in Nat /\ (page - 1) * Take + Take = page * Take
  BY <1>4
<1>6. ASSUME option \in Known, NEW m \in due \ S
      PROVE  Cardinality(Newer(m)) >= Take
  <2>1. IsPage(S, 0)
    BY <1>1, <1>6 DEF Offset
  <2>2. m \in Listed /\ Unique(m) /\ m \notin S /\ TypeOK
    BY DEF IInv, DueApart
  <2>3. Cardinality(Newer(m)) >= 0
    BY NewerType
  <2>4. Cardinality(Newer(m)) >= 0 + Take
    BY <2>1, <2>2, <2>3, NotShown
  <2> QED BY <1>4, <2>4
<1>7. KeywordRows'
  <2>1. SUFFICES ASSUME option \in Known
                 PROVE  /\ \A m \in due \ S : Cardinality(Newer(m)) >= Take
                        /\ Cardinality(S) <= Take
                        /\ \A m \in S : \A x \in due : m \notin Listed \/ created[x] > created[m] => x \in S
    BY <1>1, <1>3 DEF Select, KeywordRows, Listed
  <2>2. IsPage(S, 0)
    BY <1>1, <2>1 DEF Offset
  <2>3. Cardinality(S) <= Take /\ Newest(S)
    BY <2>2, FirstPage
  <2> QED BY <1>6, <2>1, <2>3 DEF Newest, IInv, TypeOK
<1>8. ASSUME Walking, NEW m \in due \ (seen \cup S)
      PROVE  Cardinality(Newer(m)) >= page * Take
  <2>1. CASE option \in Known
    <3>1. page * Take = Take
      BY <1>4, <1>8, <2>1 DEF Walking
    <3> QED BY <1>6, <2>1, <3>1
  <2>2. CASE option \notin Known
    <3>1. IsPage(S, (page - 1) * Take)
      BY <1>1, <2>2 DEF Offset
    <3>2. m \in Listed /\ Unique(m) /\ m \notin S /\ TypeOK
      BY DEF IInv, DueApart
    <3>3. Cardinality(Newer(m)) >= (page - 1) * Take
      BY <1>8 DEF IInv, Behind, Select
    <3> HIDE DEF IInv
    <3>4. Cardinality(Newer(m)) >= (page - 1) * Take + Take
      BY <1>5, <3>1, <3>2, <3>3, NotShown
    <3> QED BY <1>5, <3>4
  <2> QED BY <2>1, <2>2
<1>9. Behind'
  <2>1. phase' = "count" /\ UNCHANGED <<option, page, seen, due>> /\ phase = "select"
    BY DEF Select
  <2>2. Walking' => Walking
    BY <2>1 DEF Walking
  <2>3. Walking => \A m \in due \ seen : Cardinality(Newer(m)) >= (page - 1) * Take
    BY <2>1 DEF IInv, Behind
  <2> QED BY <1>1, <1>3, <1>8, <2>1, <2>2, <2>3 DEF Behind
<1> QED BY <1>2, <1>7, <1>9 DEF IInv

\* The last page: no row is left behind it.
LEMMA LastPage ==
    ASSUME TypeOK, page >= PageCount(Cardinality(Listed)), NEW m \in Listed,
           Cardinality(Newer(m)) >= page * Take
    PROVE  FALSE
<1> DEFINE c == Cardinality(Listed)
           q == PageCount(c)
<1>1. c \in Nat
  BY ListedFinite
<1>2. q \in Nat /\ c <= q * Take
  BY <1>1, PagesHoldAll
<1>3. page \in Nat /\ Take \in Nat
  BY NumbersAssumption DEF TypeOK
<1>4. q * Take <= page * Take
  <2> HIDE DEF q
  <2>1. page >= q
    BY DEF q
  <2> QED BY <1>2, <1>3, <2>1
<1>5. Cardinality(Newer(m)) < c
  <2>1. m \notin Newer(m)
    <3>1. created[m] \in Nat
      BY NumbersAssumption DEF TypeOK, Listed
    <3> QED BY <3>1 DEF Newer
  <2> QED BY <2>1, NewerType, FewerWithout
<1>6. q * Take \in Nat /\ page * Take \in Nat
  BY <1>2, <1>3
<1>7. Cardinality(Newer(m)) \in Nat
  BY NewerType
<1> HIDE DEF q, c
<1> QED BY <1>1, <1>2, <1>4, <1>5, <1>6, <1>7

LEMMA CountInv ==
    ASSUME IInv, Count
    PROVE  IInv'
<1> DEFINE c == Cardinality(Listed)
<1>1. c \in Nat /\ PageCount(c) \in Nat
  BY ListedFinite, PagesHoldAll
<1>2. page \in Nat \ {0}
  BY DEF IInv, TypeOK
<1>3. meta' = Meta(page, c)
  BY DEF Count
<1>4. meta'.hasNextPage <=> page < PageCount(c)
  BY <1>3 DEF Meta
<1>5. TypeOK' /\ DueApart' /\ KeywordRows'
  <2>1. meta' \in [page : Nat, itemCount : Nat, pageCount : Nat,
                   hasPreviousPage : BOOLEAN, hasNextPage : BOOLEAN]
    BY <1>1, <1>2, <1>3 DEF Meta
  <2>2. page' \in Nat \ {0} /\ phase' \in {"select", "done"}
    BY <1>2 DEF Count
  <2> QED BY <2>1, <2>2 DEF IInv, TypeOK, Count, DueApart, KeywordRows, Listed, Unique
<1>6. Behind'
  <2>1. seen' = seen \cup shown /\ UNCHANGED <<created, option, due>> /\ phase = "count"
    BY DEF Count
  <2>2. \A m : Newer(m)' = Newer(m)
    BY <2>1 DEF Newer, Listed
  <2>3. CASE page < PageCount(c)
    <3>1. page' = page + 1 /\ phase' = "select"
      BY <1>4, <2>3 DEF Count
    <3>2. Walking' => Walking
      BY <1>2, <2>1, <3>1 DEF Walking
    <3>3. (page' - 1) * Take = page * Take
      BY <1>2, <3>1
    <3>4. Walking => \A m \in due \ (seen \cup shown) : Cardinality(Newer(m)) >= page * Take
      BY <2>1 DEF IInv, Behind
    <3> QED BY <2>1, <2>2, <3>1, <3>2, <3>3, <3>4 DEF Behind
  <2>4. CASE ~(page < PageCount(c))
    <3>1. page' = page /\ phase' = "done"
      BY <1>4, <2>4 DEF Count
    <3>2. Walking' => Walking
      BY <2>1, <3>1 DEF Walking
    <3>3. ASSUME Walking, NEW m \in due, m \notin seen \cup shown
          PROVE  FALSE
      <4>1. Cardinality(Newer(m)) >= page * Take
        BY <2>1, <3>3 DEF IInv, Behind
      <4>2. TypeOK /\ m \in Listed
        BY DEF IInv, DueApart
      <4>3. page >= PageCount(Cardinality(Listed))
        BY <1>1, <1>2, <2>4
      <4> QED BY <4>1, <4>2, <4>3, LastPage
    <3> QED BY <2>1, <3>1, <3>2, <3>3 DEF Behind
  <2> QED BY <2>3, <2>4
<1> QED BY <1>5, <1>6 DEF IInv

LEMMA RetryInv ==
    ASSUME IInv, Retry
    PROVE  IInv'
<1>1. TypeOK' /\ DueApart' /\ KeywordRows'
  BY DEF IInv, TypeOK, Retry, DueApart, KeywordRows, Listed, Unique
<1>2. \A m : Newer(m)' = Newer(m)
  BY DEF Retry, Newer, Listed
<1>3. Behind'
  BY <1>2 DEF IInv, Behind, Retry, Walking
<1> QED BY <1>1, <1>3 DEF IInv

LEMMA MovesInv ==
    ASSUME IInv, NEW m \in Members, Leave(m) \/ \E t \in Times : Join(m, t)
    PROVE  IInv'
<1>1. /\ TypeOK' /\ DueApart' /\ due' \subseteq due
      /\ \A x \in due' : Cardinality(Newer(x)') >= Cardinality(Newer(x))
  <2>1. TypeOK /\ DueApart
    BY DEF IInv
  <2> QED BY <2>1, StillBehind
<1>2. UNCHANGED <<option, page, phase, shown, seen>>
  BY DEF Leave, Join
<1>3. ASSUME NEW x \in due', NEW n \in Int, Cardinality(Newer(x)) >= n
      PROVE  Cardinality(Newer(x)') >= n
  <2>1. Cardinality(Newer(x)') \in Nat
    <3>1. Newer(x)' \in SUBSET Members
      BY DEF Newer, Listed
    <3>2. IsFiniteSet(Newer(x)')
      BY <3>1, MembersAssumption, FS_Subset
    <3> QED BY <3>2, FS_CardinalityType
  <2> QED BY <1>1, <1>3, <2>1, NewerType
<1>4. Take \in Nat /\ page \in Nat /\ page * Take \in Int /\ (page - 1) * Take \in Int
  BY NumbersAssumption DEF IInv, TypeOK
<1>5. Behind'
  <2>1. phase' = "idle" => page' = 1
    BY <1>2 DEF IInv, Behind
  <2>2. Walking' => Walking
    BY <1>2 DEF Walking
  <2>3. ASSUME Walking, phase \in {"select", "count"}, NEW x \in due' \ seen
        PROVE  Cardinality(Newer(x)') >= (page - 1) * Take
    <3>1. Cardinality(Newer(x)) >= (page - 1) * Take
      BY <1>1, <2>3 DEF IInv, Behind
    <3> QED BY <1>3, <1>4, <3>1
  <2>4. ASSUME Walking, phase = "count", NEW x \in due' \ (seen \cup shown)
        PROVE  Cardinality(Newer(x)') >= page * Take
    <3>1. Cardinality(Newer(x)) >= page * Take
      BY <1>1, <2>4 DEF IInv, Behind
    <3> QED BY <1>3, <1>4, <3>1
  <2>5. Walking /\ phase = "done" => due' \subseteq seen
    BY <1>1 DEF IInv, Behind
  <2> QED BY <1>2, <2>1, <2>2, <2>3, <2>4, <2>5 DEF Behind
<1>6. KeywordRows'
  <2>1. SUFFICES ASSUME phase = "count", option \in Known
                 PROVE  /\ \A x \in due' \ shown : Cardinality(Newer(x)') >= Take
                        /\ Cardinality(shown) <= Take
                        /\ \A s \in shown : \A x \in due' :
                             s \notin Listed' \/ created'[x] > created'[s] => x \in shown
    BY <1>2 DEF KeywordRows
  <2>2. /\ \A x \in due \ shown : Cardinality(Newer(x)) >= Take
        /\ Cardinality(shown) <= Take
        /\ \A s \in shown : \A x \in due : s \notin Listed \/ created[x] > created[s] => x \in shown
    BY <2>1 DEF IInv, KeywordRows
  <2>3. ASSUME NEW x \in due', x \notin shown PROVE Cardinality(Newer(x)') >= Take
    <3>1. Cardinality(Newer(x)) >= Take
      BY <1>1, <2>2, <2>3
    <3> QED BY <1>3, <1>4, <3>1
  <2>4. ASSUME NEW s \in shown, NEW x \in due', s \notin Listed' \/ created'[x] > created'[s]
        PROVE  x \in shown
    <3>1. x \in due /\ x \in Listed /\ s \in Members /\ created \in [Members -> Times \cup {None}]
      BY <1>1 DEF IInv, TypeOK
    <3>2. x # m /\ created'[x] = created[x]
      <4>1. CASE Leave(m)
        <5>1. created[x] > created[m] /\ created[x] \in Nat
          BY <3>1, <4>1, NumbersAssumption DEF Leave, Listed
        <5>2. created[m] \in Nat
          BY <3>1, <4>1, NumbersAssumption DEF Leave
        <5> QED BY <3>1, <4>1, <5>1, <5>2 DEF Leave
      <4>2. CASE \E t \in Times : Join(m, t)
        BY <3>1, <4>2 DEF Join, Listed
      <4> QED BY <4>1, <4>2
    <3>3. CASE s # m
      <4>1. created'[s] = created[s]
        BY <3>1, <3>3 DEF Leave, Join
      <4> QED BY <2>2, <2>4, <3>1, <3>2, <4>1 DEF Listed
    <3>4. CASE s = m
      <4>1. s \notin Listed \/ created[x] > created[s]
        BY <3>1, <3>4 DEF Leave, Join, Listed
      <4> QED BY <2>2, <3>1, <4>1
    <3> QED BY <3>3, <3>4
  <2> QED BY <2>2, <2>3, <2>4
<1> QED BY <1>1, <1>5, <1>6 DEF IInv

LEMMA InvStep ==
    ASSUME IInv, [Next]_vars
    PROVE  IInv'
<1>1. CASE Begin
  BY <1>1, BeginInv
<1>2. CASE Select
  BY <1>2, SelectInv
<1>3. CASE Count
  BY <1>3, CountInv
<1>4. CASE Retry
  BY <1>4, RetryInv
<1>5. CASE \E m \in Members : Leave(m) \/ \E t \in Times : Join(m, t)
  BY <1>5, MovesInv
<1>6. CASE Rest \/ UNCHANGED vars
  BY <1>6 DEF Rest, vars, IInv, TypeOK, DueApart, Behind, KeywordRows, Walking,
              Listed, Unique, Newer
<1> QED BY <1>1, <1>2, <1>3, <1>4, <1>5, <1>6 DEF Next

LEMMA InvAlways == Spec => []IInv
  BY InvInit, InvStep, PTL DEF Spec
-------------------------------------------------------------------------------
(* The theorems.                                                           *)

\* Every variable keeps its type, whatever the length of the list.
THEOREM TypeCorrect == Spec => []TypeOK
<1>1. IInv => TypeOK
  BY DEF IInv
<1> QED BY <1>1, InvAlways, PTL

\* Whatever the members, the page length and the interleaving, a client that follows
\* hasNextPage (PageMetaDto) gets every member that stayed in its place.
THEOREM WalkIsComplete == Spec => []WalkComplete
<1>1. IInv => WalkComplete
  BY DEF IInv, Behind, Walking, WalkComplete
<1> QED BY <1>1, InvAlways, PTL

\* Every page of a search by a known option (member.service.ts:249-355) shows the newest
\* matches and no others, for any list, any page length and any moves meanwhile.
THEOREM KeywordIsNewest == Spec => []KeywordShowsNewest
<1>1. IInv => KeywordShowsNewest
  <2> SUFFICES ASSUME IInv, phase = "count", option \in Known
               PROVE  /\ \A m \in due \ shown : Cardinality(Newer(m)) >= Take
                      /\ \A m \in shown \cap Listed :
                           Cardinality({x \in due : created[x] > created[m]}) < Take
    BY DEF KeywordShowsNewest
  <2>1. /\ \A m \in due \ shown : Cardinality(Newer(m)) >= Take
        /\ Cardinality(shown) <= Take
        /\ \A m \in shown : \A x \in due : m \notin Listed \/ created[x] > created[m] => x \in shown
    BY DEF IInv, KeywordRows
  <2>2. ASSUME NEW m \in shown \cap Listed
        PROVE  Cardinality({x \in due : created[x] > created[m]}) < Take
    <3> DEFINE ahead == {x \in due : created[x] > created[m]}
    <3>1. shown \in SUBSET Members /\ created[m] \in Nat
      BY NumbersAssumption DEF IInv, TypeOK, Listed
    <3>2. ahead \in SUBSET (shown \ {m})
      BY <2>1, <3>1
    <3>3. IsFiniteSet(shown)
      BY <3>1, MembersAssumption, FS_Subset
    <3>4. IsFiniteSet(shown \ {m}) /\ Cardinality(shown \ {m}) = Cardinality(shown) - 1
      BY <3>3, FS_RemoveElement
    <3>5. IsFiniteSet(ahead) /\ Cardinality(ahead) <= Cardinality(shown \ {m})
      BY <3>2, <3>4, FS_Subset
    <3>6. Cardinality(shown) \in Nat /\ Cardinality(ahead) \in Nat
      BY <3>3, <3>5, FS_CardinalityType
    <3> HIDE DEF ahead
    <3>7. Cardinality(ahead) < Take
      BY <2>1, <3>4, <3>5, <3>6, NumbersAssumption
    <3> QED BY <3>7 DEF ahead
  <2> QED BY <2>1, <2>2
<1> QED BY <1>1, InvAlways, PTL
===============================================================================
