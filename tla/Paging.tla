-------------------------------- MODULE Paging --------------------------------
(***************************************************************************)
(* The agent's list of members, GET SubScribe and GET SubScribeOption:     *)
(* getMemberPaginate (member.service.ts) reads one page of the members a   *)
(* search matches, newest first, and then counts them in a second query;   *)
(* PageMetaDto tells the client whether there is another page.  A search   *)
(* by a known option takes the first rows whatever the page.               *)
(*                                                                         *)
(* A client walks through the pages while members register, are moved to   *)
(* this agent with the created_at they had, or are moved away.  Members of *)
(* one bulk insert share their created_at, and the order by created_at     *)
(* alone leaves theirs open.                                               *)
(***************************************************************************)
EXTENDS Naturals, FiniteSets

CONSTANTS
    Members,    \* the members the search may match
    Times,      \* what created_at may be
    Take,       \* the length of a page
    None        \* not a member this search matches

ASSUME MembersAssumption == IsFiniteSet(Members) /\ None \notin Times
ASSUME NumbersAssumption == Times \subseteq Nat /\ Take \in Nat \ {0}

Known == {"username", "phone", "bankAcc", "name", "lastname", "bankRef"}
Options == Known \cup {"none", "unknown"}

VARIABLES
    created,    \* created_at of the members the search matches
    option,     \* what the search is by
    page,       \* the page asked for
    phase,      \* the request: not sent, its two queries, the walk is over
    shown,      \* the rows the first query returned
    seen,       \* what the client has got so far
    meta,       \* the metadata of the last answer
    due         \* history: the members the walk has to show

vars == <<created, option, page, phase, shown, seen, meta, due>>

Listed == {m \in Members : created[m] # None}
Newer(m) == {x \in Listed : created[x] > created[m]}
Unique(m) == \A x \in Listed : created[x] = created[m] => x = m
-------------------------------------------------------------------------------
(* The two queries.                                                        *)

\* Mutation: the queries by a known option skip too.
OffsetAlways(o, p) == (p - 1) * Take
\* skip: left out in the queries by a known option; any other option with a
\* keyword falls through to the list without one.
Offset(o, p) == IF o \in Known THEN 0 ELSE (p - 1) * Take

\* S is what skip and take cut out of the rows in some order by created_at: before
\* are the rows skipped, and no row outside is newer than one inside (Newest).
Newest(S) == \A x \in S, y \in Listed : created[y] > created[x] => y \in S
SmallerOf(a, b) == IF a < b THEN a ELSE b
IsPage(S, skip) ==
    \E before \in SUBSET Listed :
        /\ before \cap S = {}
        /\ Cardinality(before) = SmallerOf(skip, Cardinality(Listed))
        /\ Cardinality(before \cup S) = SmallerOf(skip + Take, Cardinality(Listed))
        /\ Newest(before) /\ Newest(before \cup S)

\* Mutation: Math.floor.
PageCountFloor(count) == count \div Take
\* Mutation: pages are counted from zero.
PageCountFromZero(count) == (count + Take - 1) \div Take - 1

\* PageMetaDto.
PageCount(count) == (count + Take - 1) \div Take
Meta(p, count) == [page |-> p, itemCount |-> count, pageCount |-> PageCount(count),
                   hasPreviousPage |-> p > 1, hasNextPage |-> p < PageCount(count)]
NoMeta == [page |-> 0, itemCount |-> 0, pageCount |-> 0,
           hasPreviousPage |-> FALSE, hasNextPage |-> FALSE]

\* The client opens the list.
Begin ==
    /\ phase = "idle"
    /\ option' \in Options
    /\ phase' = "select"
    /\ due' = {m \in Listed : Unique(m)}
    /\ UNCHANGED <<created, page, shown, seen, meta>>

Select ==
    /\ phase = "select"
    /\ \E S \in SUBSET Listed : IsPage(S, Offset(option, page)) /\ shown' = S
    /\ phase' = "count"
    /\ UNCHANGED <<created, option, page, seen, meta, due>>

\* The answer; the client asks for the next page while there is one.
Count ==
    /\ phase = "count"
    /\ meta' = Meta(page, Cardinality(Listed))
    /\ seen' = seen \cup shown
    /\ shown' = {}
    /\ IF meta'.hasNextPage THEN page' = page + 1 /\ phase' = "select"
       ELSE page' = page /\ phase' = "done"
    /\ UNCHANGED <<created, option, due>>

\* A query fails or the answer is lost, and the client asks for the page again.
Retry ==
    /\ phase = "count"
    /\ phase' = "select" /\ shown' = {}
    /\ UNCHANGED <<created, option, page, seen, meta, due>>
-------------------------------------------------------------------------------
(* Members meanwhile.                                                      *)

\* A registration, a bulk insert, or a PUT that moves a member to this agent: it
\* keeps its created_at.  A member that shares its time need not be shown.
Join(m, t) ==
    /\ created[m] = None
    /\ created' = [created EXCEPT ![m] = t]
    /\ due' = {x \in due : created[x] # t}
    /\ UNCHANGED <<option, page, phase, shown, seen, meta>>

\* A PUT or a POST of the same username moves a member away, and every older one
\* goes up by a row.
Leave(m) ==
    /\ created[m] # None
    /\ created' = [created EXCEPT ![m] = None]
    /\ due' = {x \in due : created[x] > created[m]}
    /\ UNCHANGED <<option, page, phase, shown, seen, meta>>

Rest == phase = "done" /\ UNCHANGED vars
-------------------------------------------------------------------------------
Init ==
    /\ created \in [Members -> Times \cup {None}]
    /\ option = "none"
    /\ page = 1 /\ phase = "idle"
    /\ shown = {} /\ seen = {} /\ due = {}
    /\ meta = NoMeta

Next == \/ Begin \/ Select \/ Count \/ Retry
        \/ \E m \in Members : Leave(m) \/ \E t \in Times : Join(m, t)
        \/ Rest
Spec == Init /\ [][Next]_vars
-------------------------------------------------------------------------------
(* Properties.                                                             *)

\* Every variable keeps its type.
TypeOK ==
    /\ created \in [Members -> Times \cup {None}]
    /\ option \in Options /\ page \in Nat \ {0}
    /\ phase \in {"idle", "select", "count", "done"}
    /\ shown \subseteq Members /\ seen \subseteq Members /\ due \subseteq Listed
    /\ meta \in [page : Nat, itemCount : Nat, pageCount : Nat,
                 hasPreviousPage : BOOLEAN, hasNextPage : BOOLEAN]

\* When the metadata says there is no further page, the client has got every member
\* that was in the list from the start, at a time of its own and with no newer one
\* moved away, although page and count are two queries and others come in between
\* (member.service.ts:237-250); by a known option only when one page was enough.
WalkComplete ==
    phase = "done" /\ (option \in Known => page = 1) => due \subseteq seen

\* A search by a known option shows the newest matches and no others, on every page
\* (member.service.ts:249-355): who is left out has a page of newer matches, and who is
\* shown has less than a page of them among the members that stayed in place.
KeywordShowsNewest ==
    phase = "count" /\ option \in Known =>
        /\ \A m \in due \ shown : Cardinality(Newer(m)) >= Take
        /\ \A m \in shown \cap Listed : Cardinality({x \in due : created[x] > created[m]}) < Take
===============================================================================
